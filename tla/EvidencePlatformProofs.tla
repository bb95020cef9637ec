------------------------- MODULE EvidencePlatformProofs ------------------------
(***************************************************************************)
(* Proofs about the jobs on a repository's files, for any trees, requests, *)
(* edits of the disk between any two steps, and processes that end between *)
(* any two of theirs: whoever reads an artifact of two files sees one      *)
(* write, or a later write that was interrupted; every call of a connector *)
(* is answered; a walk accounts for every file that was there; facts come  *)
(* from the files that were examined; recommendations cover the findings;  *)
(* and the patterns that are published are true of the trees.              *)
(***************************************************************************)
EXTENDS EvidencePlatform, FiniteSetTheorems, SequenceTheorems, WellFoundedInduction, TLAPS

------------------------------------------------------------------------------
(* Sequences of things no set is known of.                                 *)

IsList(q) == Len(q) \in Nat /\ q = [i \in 1..Len(q) |-> q[i]]

LEMMA ListAppended ==
  ASSUME NEW q, IsList(q), NEW x
  PROVE  /\ IsList(Append(q, x)) /\ Len(Append(q, x)) = Len(q) + 1
         /\ Append(q, x)[Len(q) + 1] = x
         /\ \A i \in 1..Len(q) : Append(q, x)[i] = q[i]
<1> DEFINE S == {q[i] : i \in 1..Len(q)} \cup {x}
<1>1. q \in Seq(S) /\ x \in S
  BY DEF IsList
<1> HIDE DEF S
<1>2. /\ Append(q, x) \in Seq(S) /\ Len(Append(q, x)) = Len(q) + 1
      /\ Append(q, x)[Len(q) + 1] = x
      /\ \A i \in 1..Len(q) : Append(q, x)[i] = q[i]
  BY <1>1
<1>3. IsList(Append(q, x))
  BY <1>2, LenProperties DEF IsList
<1> QED BY <1>2, <1>3

LEMMA ListChanged ==
  ASSUME NEW q, IsList(q), NEW k \in 1..Len(q), NEW x
  PROVE  /\ IsList([q EXCEPT ![k] = x]) /\ Len([q EXCEPT ![k] = x]) = Len(q)
         /\ [q EXCEPT ![k] = x][k] = x
         /\ \A i \in 1..Len(q) : i # k => [q EXCEPT ![k] = x][i] = q[i]
<1> DEFINE S == {q[i] : i \in 1..Len(q)} \cup {x}
<1>1. q \in Seq(S) /\ x \in S
  BY DEF IsList
<1> HIDE DEF S
<1>2. [q EXCEPT ![k] = x] \in Seq(S) /\ Len([q EXCEPT ![k] = x]) = Len(q)
  BY <1>1
<1> QED BY <1>1, <1>2 DEF IsList

------------------------------------------------------------------------------
(* The store.                                                              *)

WriteStates == {"open records", "fill records", "open meta", "fill meta", "written", "crashed"}

FileStates == [of : Nat, shape : {"absent", "empty", "part", "whole"}]

WritesOK ==
  /\ IsList(writes)
  /\ \A w \in 1..Len(writes) :
       /\ writes[w] = [artifact |-> writes[w].artifact, document |-> writes[w].document, at |-> writes[w].at]
       /\ writes[w].artifact \in Artifacts /\ writes[w].at \in WriteStates

FilesOK == files \in [Artifacts -> [records : FileStates, meta : FileStates]]

\* An artifact has one writer at a time.
OneWriter ==
  \A v, w \in 1..Len(writes) :
    writes[v].artifact = writes[w].artifact /\ writes[v].at \notin Done /\ writes[w].at \notin Done => v = w

\* The records are never older than the metadata; they are whole once there is
\* metadata of the same write, and newer only while a write is under way or
\* after it crashed.
PairOK(a) ==
  /\ files[a].meta.of <= files[a].records.of /\ files[a].records.of <= Len(writes)
  /\ files[a].records.of > 0 => writes[files[a].records.of].artifact = a
  /\ files[a].meta.of = 0 => files[a].meta.shape # "whole"
  /\ files[a].meta.of = files[a].records.of /\ files[a].meta.of > 0 => files[a].records.shape = "whole"
  /\ files[a].meta.of < files[a].records.of =>
       writes[files[a].records.of].at \in {"fill records", "open meta", "crashed"}

\* How far a write has come shows in its artifact's files.
WriteShows(w) ==
  \A a \in Artifacts : writes[w].artifact = a =>
    /\ writes[w].at = "written" => w <= files[a].meta.of
    /\ writes[w].at = "open records" => files[a].records.of < w
    /\ writes[w].at \in {"fill records", "open meta"} => files[a].records.of = w /\ files[a].meta.of < w
    /\ writes[w].at = "open meta" => files[a].records.shape = "whole"
    /\ writes[w].at = "fill meta" => files[a].records.of = w /\ files[a].meta.of = w

StoreOK ==
  /\ WritesOK /\ FilesOK /\ OneWriter
  /\ \A a \in Artifacts : PairOK(a)
  /\ \A w \in 1..Len(writes) : WriteShows(w)

\* Numbers stay with their artifacts, what is done stays so, and metadata is
\* never replaced by older metadata.
StoreGoesOn ==
  /\ Len(writes) <= Len(writes')
  /\ \A w \in 1..Len(writes) :
       /\ writes'[w].artifact = writes[w].artifact
       /\ writes[w].at \in Done => writes'[w].at = writes[w].at
  /\ \A a \in Artifacts : files[a].meta.of <= files'[a].meta.of

LEMMA BeginWriteKeeps ==
  ASSUME StoreOK, NEW a \in Artifacts, NEW document, BeginWrite(a, document)
  PROVE  StoreOK' /\ StoreGoesOn
<1> DEFINE new == [artifact |-> a, document |-> document, at |-> "open records"]
           n == Len(writes)
<1>1. writes' = Append(writes, new) /\ UNCHANGED files
  BY DEF BeginWrite
<1> HIDE DEF new
<1>2. new.artifact = a /\ new.at = "open records" /\ new = [artifact |-> new.artifact, document |-> new.document, at |-> new.at]
  BY DEF new
<1>3. /\ IsList(writes') /\ Len(writes') = n + 1 /\ writes'[n + 1] = new
      /\ \A i \in 1..n : writes'[i] = writes[i]
      /\ n \in Nat
  BY <1>1, ListAppended DEF StoreOK, WritesOK, IsList
<1>4. WritesOK'
  <2> SUFFICES ASSUME NEW w \in 1..(n + 1)
               PROVE  /\ writes'[w] = [artifact |-> writes'[w].artifact, document |-> writes'[w].document, at |-> writes'[w].at]
                      /\ writes'[w].artifact \in Artifacts /\ writes'[w].at \in WriteStates
    BY <1>3 DEF WritesOK
  <2>1. CASE w \in 1..n
    BY <1>3, <2>1 DEF StoreOK, WritesOK
  <2>2. CASE w = n + 1
    BY <1>2, <1>3, <2>2 DEF WriteStates
  <2> QED BY <1>3, <2>1, <2>2
<1>5. FilesOK'
  BY <1>1 DEF StoreOK, FilesOK
<1>6. \A w \in 1..n : writes[w].artifact = a => writes[w].at \in Done
  <2>1. DOMAIN writes = 1..n
    BY DEF StoreOK, WritesOK, IsList
  <2> QED BY <2>1 DEF BeginWrite, Settled
<1>7. OneWriter'
  <2> SUFFICES ASSUME NEW v \in 1..(n + 1), NEW w \in 1..(n + 1), writes'[v].artifact = writes'[w].artifact,
                      writes'[v].at \notin Done, writes'[w].at \notin Done
               PROVE  v = w
    BY <1>3 DEF OneWriter
  <2>1. CASE v \in 1..n /\ w \in 1..n
    BY <1>3, <2>1 DEF StoreOK, OneWriter
  <2>2. \A u \in 1..n : writes'[u].artifact = a => writes'[u].at \in Done
    BY <1>3, <1>6
  <2>3. writes'[n + 1].artifact = a
    BY <1>2, <1>3
  <2>4. \A u \in 1..(n + 1) : u \in 1..n \/ u = n + 1
    BY <1>3
  <2> QED BY <2>1, <2>2, <2>3, <2>4
<1>8. \A b \in Artifacts : PairOK(b)'
  <2> SUFFICES ASSUME NEW b \in Artifacts PROVE PairOK(b)'
    OBVIOUS
  <2>1. PairOK(b) /\ files[b].records.of \in Nat /\ files[b].meta.of \in Nat
    BY DEF StoreOK, FilesOK, FileStates
  <2>2. files[b].records.of <= n
    BY <2>1 DEF PairOK
  <2>3. files[b].records.of > 0 => files[b].records.of \in 1..n
    BY <1>3, <2>1, <2>2
  <2>4. files[b].records.of > 0 => writes'[files[b].records.of] = writes[files[b].records.of]
    BY <1>3, <2>3
  <2>5. files' = files /\ Len(writes) <= Len(writes') /\ Len(writes) \in Nat /\ Len(writes') \in Nat
    BY <1>1, <1>3
  <2>6. files[b].records.of <= Len(writes')
    BY <2>1, <2>2, <2>5
  <2>7. files[b].meta.of < files[b].records.of => files[b].records.of > 0
    BY <2>1
  <2> QED BY <2>1, <2>4, <2>5, <2>6, <2>7 DEF PairOK
<1>9. \A w \in 1..Len(writes') : WriteShows(w)'
  <2> SUFFICES ASSUME NEW w \in 1..(n + 1) PROVE WriteShows(w)'
    BY <1>3
  <2>1. CASE w \in 1..n
    <3>1. writes'[w] = writes[w] /\ files' = files /\ WriteShows(w)
      BY <1>1, <1>3, <2>1 DEF StoreOK
    <3> QED BY <3>1 DEF WriteShows
  <2>2. CASE w = n + 1
    <3>1. files[a].records.of \in Nat /\ files[a].records.of <= n
      BY DEF StoreOK, PairOK, FilesOK, FileStates
    <3>2. writes'[w].artifact = a /\ writes'[w].at = "open records" /\ files' = files
      BY <1>1, <1>2, <1>3, <2>2
    <3>3. files[a].records.of < w
      BY <1>3, <2>2, <3>1
    <3> QED BY <3>2, <3>3 DEF WriteShows
  <2> QED BY <1>3, <2>1, <2>2
<1>10. StoreGoesOn
  BY <1>1, <1>3 DEF StoreGoesOn, StoreOK, FilesOK, FileStates
<1> QED BY <1>4, <1>5, <1>7, <1>8, <1>9, <1>10 DEF StoreOK

\* What a step of a write does to its entry and to a file of its artifact.
Moves(w, to) == writes' = [writes EXCEPT ![w].at = to]
PutsRecords(a, w, to) ==
  \E new \in FileStates :
    /\ new.of = w
    /\ to = "open meta" => new.shape = "whole"
    /\ files' = [files EXCEPT ![a].records = new]
PutsMeta(a, w) ==
  \E new \in FileStates : new.of = w /\ files' = [files EXCEPT ![a].meta = new]

\* A write goes on, or ends, and nothing else does.
LEMMA WriteMoves ==
  ASSUME StoreOK, NEW w \in 1..Len(writes), writes[w].at \notin Done, NEW to \in WriteStates,
         Moves(w, to)
  PROVE  /\ WritesOK' /\ OneWriter' /\ Len(writes') = Len(writes) /\ Len(writes) \in Nat
         /\ \A v \in 1..Len(writes) : writes'[v].artifact = writes[v].artifact
         /\ \A v \in 1..Len(writes) : v # w => writes'[v].at = writes[v].at
         /\ writes'[w].at = to
<1> DEFINE new == [writes[w] EXCEPT !.at = to]
<1>1. writes' = [writes EXCEPT ![w] = new]
  BY DEF Moves
<1>2. writes[w] = [artifact |-> writes[w].artifact, document |-> writes[w].document, at |-> writes[w].at]
  BY DEF StoreOK, WritesOK
<1>3. /\ new.artifact = writes[w].artifact /\ new.at = to
      /\ new = [artifact |-> new.artifact, document |-> new.document, at |-> new.at]
  BY <1>2
<1> HIDE DEF new
<1>4. /\ IsList(writes') /\ Len(writes') = Len(writes) /\ writes'[w] = new
      /\ \A v \in 1..Len(writes) : v # w => writes'[v] = writes[v]
  <2>1. IsList(writes)
    BY DEF StoreOK, WritesOK
  <2>2. /\ IsList([writes EXCEPT ![w] = new]) /\ Len([writes EXCEPT ![w] = new]) = Len(writes)
        /\ [writes EXCEPT ![w] = new][w] = new
        /\ \A v \in 1..Len(writes) : v # w => [writes EXCEPT ![w] = new][v] = writes[v]
    BY <2>1, ListChanged
  <2> QED BY <1>1, <2>2
<1>5. \A v \in 1..Len(writes) : writes'[v].artifact = writes[v].artifact
  BY <1>3, <1>4
<1>6. WritesOK'
  <2> SUFFICES ASSUME NEW v \in 1..Len(writes)
               PROVE  /\ writes'[v] = [artifact |-> writes'[v].artifact, document |-> writes'[v].document, at |-> writes'[v].at]
                      /\ writes'[v].artifact \in Artifacts /\ writes'[v].at \in WriteStates
    BY <1>4 DEF WritesOK
  <2>1. CASE v = w
    BY <1>3, <1>4, <2>1 DEF StoreOK, WritesOK
  <2>2. CASE v # w
    BY <1>4, <2>2 DEF StoreOK, WritesOK
  <2> QED BY <2>1, <2>2
<1>7. OneWriter'
  <2>1. \A v \in 1..Len(writes) : writes'[v].at \notin Done => writes[v].at \notin Done
    BY <1>4
  <2> QED BY <1>4, <1>5, <2>1 DEF StoreOK, OneWriter
<1>8. Len(writes) \in Nat
  BY DEF StoreOK, WritesOK, IsList
<1> QED BY <1>3, <1>4, <1>5, <1>6, <1>7, <1>8

\* It is enough to look at the artifact that is written and at the write itself.
LEMMA StoreStep ==
  ASSUME StoreOK, NEW w \in 1..Len(writes), writes[w].at \notin Done, NEW to \in WriteStates,
         Moves(w, to),
         NEW a \in Artifacts, a = writes[w].artifact,
         FilesOK', \A b \in Artifacts : b # a => files'[b] = files[b],
         files[a].meta.of <= files'[a].meta.of, PairOK(a)', WriteShows(w)'
  PROVE  StoreOK' /\ StoreGoesOn
<1>1. /\ WritesOK' /\ OneWriter' /\ Len(writes') = Len(writes) /\ Len(writes) \in Nat
      /\ \A v \in 1..Len(writes) : writes'[v].artifact = writes[v].artifact
      /\ \A v \in 1..Len(writes) : v # w => writes'[v].at = writes[v].at
      /\ writes'[w].at = to
  BY WriteMoves
<1>2. /\ FilesOK
      /\ \A b \in Artifacts : /\ files[b].records.of \in Nat /\ files[b].meta.of \in Nat
                              /\ files'[b].meta.of \in Nat
  BY DEF StoreOK, FilesOK, FileStates
<1>3. \A b \in Artifacts : PairOK(b)'
  <2> SUFFICES ASSUME NEW b \in Artifacts, b # a PROVE PairOK(b)'
    OBVIOUS
  <2>1. PairOK(b) /\ files'[b] = files[b]
    BY DEF StoreOK
  <2>2. files[b].records.of > 0 =>
          /\ files[b].records.of \in 1..Len(writes)
          /\ files[b].records.of # w
    <3>1. files[b].records.of <= Len(writes) /\ (files[b].records.of > 0 => writes[files[b].records.of].artifact = b)
      BY <2>1 DEF PairOK
    <3> QED BY <1>1, <1>2, <3>1
  <2>3. files[b].records.of > 0 =>
          /\ writes'[files[b].records.of].artifact = writes[files[b].records.of].artifact
          /\ writes'[files[b].records.of].at = writes[files[b].records.of].at
    BY <1>1, <2>2
  <2>4. files[b].meta.of < files[b].records.of => files[b].records.of > 0
    BY <1>2
  <2> QED BY <1>1, <2>1, <2>3, <2>4 DEF PairOK
<1>4. \A v \in 1..Len(writes') : WriteShows(v)'
  <2> SUFFICES ASSUME NEW v \in 1..Len(writes), v # w PROVE WriteShows(v)'
    BY <1>1
  <2>1. /\ writes'[v].artifact = writes[v].artifact /\ writes'[v].at = writes[v].at
        /\ WriteShows(v) /\ v \in Nat
    BY <1>1 DEF StoreOK
  <2>2. CASE writes[v].artifact # a
    BY <2>1, <2>2, ZenonT(60) DEF WriteShows
  <2>3. CASE writes[v].artifact = a
    <3>1. writes[v].at \in Done
      BY <2>3 DEF StoreOK, OneWriter
    <3>2. writes[v].at = "written" => v <= files[a].meta.of
      BY <2>1, <2>3 DEF WriteShows
    <3>3. writes[v].at = "written" => v <= files'[a].meta.of
      BY <1>2, <2>1, <3>2
    <3> QED BY <2>1, <2>3, <3>1, <3>3 DEF WriteShows, Done
  <2> QED BY <2>2, <2>3
<1>5. StoreGoesOn
  <2>1. \A b \in Artifacts : files[b].meta.of <= files'[b].meta.of
    BY <1>2
  <2>2. \A v \in 1..Len(writes) : writes[v].at \in Done => writes'[v].at = writes[v].at
    BY <1>1
  <2> QED BY <1>1, <2>1, <2>2 DEF StoreGoesOn
<1> QED BY <1>1, <1>3, <1>4, <1>5 DEF StoreOK

RecordStages == {"open records", "fill records"}
MetaStages == {"open meta", "fill meta"}
AfterRecords == {"fill records", "open meta", "crashed"}
AfterMeta == {"fill meta", "written", "crashed"}

LEMMA FileNumbers ==
  ASSUME FilesOK, NEW a \in Artifacts
  PROVE  files[a].meta.of \in Nat /\ files[a].records.of \in Nat
BY DEF FilesOK, FileStates

LEMMA RecordsPut ==
  ASSUME FilesOK, NEW a \in Artifacts, NEW new \in FileStates, files' = [files EXCEPT ![a].records = new]
  PROVE  /\ FilesOK' /\ files'[a].records = new /\ files'[a].meta = files[a].meta
         /\ \A b \in Artifacts : b # a => files'[b] = files[b]
BY DEF FilesOK

LEMMA MetaPut ==
  ASSUME FilesOK, NEW a \in Artifacts, NEW new \in FileStates, files' = [files EXCEPT ![a].meta = new]
  PROVE  /\ FilesOK' /\ files'[a].meta = new /\ files'[a].records = files[a].records
         /\ \A b \in Artifacts : b # a => files'[b] = files[b]
BY DEF FilesOK

LEMMA Stages ==
  /\ \A at : at \in RecordStages \cup MetaStages => at \notin Done
  /\ AfterRecords \subseteq WriteStates /\ AfterMeta \subseteq WriteStates
BY DEF RecordStages, MetaStages, AfterRecords, AfterMeta, WriteStates, Done

\* The records are newer than the metadata while they are made.
LEMMA RecordsAreNewer ==
  ASSUME FilesOK, NEW a \in Artifacts, NEW w \in Nat, writes[w].artifact = a, writes[w].at \in RecordStages,
         PairOK(a), WriteShows(w)
  PROVE  files[a].meta.of < w
<1>1. files[a].meta.of <= files[a].records.of
  BY DEF PairOK
<1>2. writes[w].at = "open records" \/ writes[w].at = "fill records"
  BY DEF RecordStages
<1>3. files[a].records.of < w \/ files[a].meta.of < w
  BY <1>2 DEF WriteShows
<1> QED BY <1>1, <1>3, FileNumbers

LEMMA RecordsPair ==
  ASSUME NEW a \in Artifacts, NEW w \in Nat, w <= Len(writes'), PairOK(a),
         NEW m \in Nat, m < w, files'[a].meta = files[a].meta, files[a].meta.of = m, files'[a].records.of = w,
         writes'[w].artifact = a, writes'[w].at \in AfterRecords
  PROVE  PairOK(a)'
<1>1. m # 0 \/ files[a].meta.shape # "whole"
  BY DEF PairOK
<1>2. m <= w /\ m # w /\ w > 0
  OBVIOUS
<1>3. writes'[w].at \in {"fill records", "open meta", "crashed"}
  BY DEF AfterRecords
<1> QED BY <1>1, <1>2, <1>3 DEF PairOK

LEMMA RecordsShow ==
  ASSUME NEW a \in Artifacts, NEW w \in Nat, files'[a].meta.of < w, files'[a].records.of = w,
         writes'[w].artifact = a, writes'[w].at \in AfterRecords,
         writes'[w].at = "open meta" => files'[a].records.shape = "whole"
  PROVE  WriteShows(w)'
BY DEF WriteShows, AfterRecords

\* A step on the records, of the write that has just opened them or fills them.
LEMMA RecordsStep ==
  ASSUME StoreOK, NEW w \in 1..Len(writes), writes[w].at \in RecordStages,
         NEW a \in Artifacts, a = writes[w].artifact,
         NEW to \in AfterRecords, Moves(w, to), PutsRecords(a, w, to)
  PROVE  StoreOK' /\ StoreGoesOn
<1>1. WriteShows(w) /\ PairOK(a) /\ FilesOK
  BY DEF StoreOK
<1>2. writes[w].at \notin Done /\ to \in WriteStates
  BY Stages
<1>3. /\ Len(writes') = Len(writes) /\ writes'[w].artifact = a /\ writes'[w].at = to /\ Len(writes) \in Nat
  BY <1>2, WriteMoves
<1>4. PICK new \in FileStates : /\ new.of = w
                                /\ to = "open meta" => new.shape = "whole"
                                /\ files' = [files EXCEPT ![a].records = new]
  BY DEF PutsRecords
<1>5. /\ FilesOK' /\ files'[a].records = new /\ files'[a].meta = files[a].meta
      /\ \A b \in Artifacts : b # a => files'[b] = files[b]
  BY <1>1, <1>4, RecordsPut
<1>6. w \in Nat /\ w <= Len(writes')
  BY <1>3
<1>7. files[a].meta.of < w /\ files[a].meta.of \in Nat
  BY <1>1, <1>6, RecordsAreNewer, FileNumbers
<1>8. files'[a].records.of = w /\ files'[a].meta.of = files[a].meta.of
  BY <1>4, <1>5
<1>9. PairOK(a)'
  BY <1>1, <1>3, <1>5, <1>6, <1>7, <1>8, RecordsPair
<1>10. writes'[w].at = "open meta" => files'[a].records.shape = "whole"
  BY <1>3, <1>4, <1>5
<1>11. WriteShows(w)'
  BY <1>3, <1>6, <1>7, <1>8, <1>10, RecordsShow
<1>12. files[a].meta.of <= files'[a].meta.of
  BY <1>7, <1>8
<1> QED BY <1>2, <1>5, <1>9, <1>11, <1>12, StoreStep

LEMMA MetaShows ==
  ASSUME NEW a \in Artifacts, NEW w \in Nat, w > 0, w <= Len(writes'), files'[a].meta.of = w, files'[a].records.of = w,
         files'[a].records.shape = "whole", writes'[w].artifact = a, writes'[w].at \in AfterMeta
  PROVE  PairOK(a)' /\ WriteShows(w)'
<1>1. w <= w /\ ~(w < w) /\ w # 0
  OBVIOUS
<1>2. PairOK(a)'
  BY <1>1 DEF PairOK
<1>3. writes'[w].at \notin {"open records", "fill records", "open meta"}
  BY DEF AfterMeta
<1>4. WriteShows(w)'
  BY <1>1, <1>3 DEF WriteShows
<1> QED BY <1>2, <1>4

LEMMA RecordsAreWhole ==
  ASSUME FilesOK, NEW a \in Artifacts, NEW w \in Nat, w > 0, writes[w].artifact = a, writes[w].at \in MetaStages,
         PairOK(a), WriteShows(w)
  PROVE  files[a].records.of = w /\ files[a].records.shape = "whole"
<1>1. writes[w].at = "open meta" \/ writes[w].at = "fill meta"
  BY DEF MetaStages
<1>2. files[a].records.of = w
  BY <1>1 DEF WriteShows
<1>3. files[a].records.shape = "whole" \/ files[a].meta.of = w
  BY <1>1 DEF WriteShows
<1> QED BY <1>2, <1>3 DEF PairOK

\* A step on the metadata, once the records are whole.
LEMMA MetaStep ==
  ASSUME StoreOK, NEW w \in 1..Len(writes), writes[w].at \in MetaStages,
         NEW a \in Artifacts, a = writes[w].artifact,
         NEW to \in AfterMeta, Moves(w, to), PutsMeta(a, w)
  PROVE  StoreOK' /\ StoreGoesOn
<1>1. WriteShows(w) /\ PairOK(a) /\ FilesOK
  BY DEF StoreOK
<1>2. writes[w].at \notin Done /\ to \in WriteStates
  BY Stages
<1>3. /\ Len(writes') = Len(writes) /\ writes'[w].artifact = a /\ writes'[w].at = to /\ Len(writes) \in Nat
  BY <1>2, WriteMoves
<1>4. PICK new \in FileStates : new.of = w /\ files' = [files EXCEPT ![a].meta = new]
  BY DEF PutsMeta
<1>5. /\ FilesOK' /\ files'[a].meta = new /\ files'[a].records = files[a].records
      /\ \A b \in Artifacts : b # a => files'[b] = files[b]
  BY <1>1, <1>4, MetaPut
<1>6. w \in Nat /\ w > 0 /\ w <= Len(writes')
  BY <1>3
<1>7. files[a].records.of = w /\ files[a].records.shape = "whole"
  BY <1>1, <1>6, RecordsAreWhole
<1>8. files'[a].records.of = w /\ files'[a].meta.of = w /\ files'[a].records.shape = "whole"
  BY <1>4, <1>5, <1>7
<1>9. PairOK(a)' /\ WriteShows(w)'
  BY <1>3, <1>6, <1>8, MetaShows
<1>10. files[a].meta.of <= files[a].records.of
  BY <1>1 DEF PairOK
<1>11. files[a].meta.of <= files'[a].meta.of
  BY <1>7, <1>8, <1>10
<1> QED BY <1>2, <1>5, <1>9, <1>11, StoreStep

LEMMA CrashedPair ==
  ASSUME FilesOK, NEW a \in Artifacts, PairOK(a), files' = files, Len(writes') = Len(writes), Len(writes) \in Nat,
         \A v \in 1..Len(writes) : /\ writes'[v].artifact = writes[v].artifact
                                   /\ writes'[v].at = writes[v].at \/ writes'[v].at = "crashed"
  PROVE  PairOK(a)'
<1> DEFINE n == files[a].records.of
<1>1. n \in Nat /\ files[a].meta.of \in Nat
  BY FileNumbers
<1>2. n <= Len(writes)
  BY DEF PairOK
<1>3. n > 0 => n \in 1..Len(writes)
  BY <1>1, <1>2
<1>4. n > 0 => /\ writes'[n].artifact = writes[n].artifact
               /\ writes'[n].at = writes[n].at \/ writes'[n].at = "crashed"
  BY <1>3
<1>5. files[a].meta.of < n => n > 0
  BY <1>1
<1> QED BY <1>2, <1>4, <1>5 DEF PairOK

\* A process that ends between two steps changes no file.
LEMMA CrashStep ==
  ASSUME StoreOK, NEW w \in 1..Len(writes), writes[w].at \notin Done,
         Moves(w, "crashed"), files' = files
  PROVE  StoreOK' /\ StoreGoesOn
<1>1. PICK a \in Artifacts : a = writes[w].artifact
  BY DEF StoreOK, WritesOK
<1>2. FilesOK /\ FilesOK' /\ PairOK(a)
  BY DEF StoreOK, FilesOK
<1>3. "crashed" \in WriteStates
  BY DEF WriteStates
<1>4. /\ Len(writes') = Len(writes) /\ Len(writes) \in Nat
      /\ writes'[w].at = "crashed" /\ writes'[w].artifact = writes[w].artifact
      /\ \A v \in 1..Len(writes) : writes'[v].artifact = writes[v].artifact
      /\ \A v \in 1..Len(writes) : v # w => writes'[v].at = writes[v].at
  BY <1>3, WriteMoves
<1>5. PairOK(a)'
  BY <1>2, <1>4, CrashedPair
<1>6. WriteShows(w)'
  BY <1>4 DEF WriteShows
<1>7. files[a].meta.of <= files'[a].meta.of
  BY <1>2, FileNumbers
<1> QED BY <1>1, <1>2, <1>3, <1>5, <1>6, <1>7, StoreStep

LEMMA WriteKeeps ==
  ASSUME StoreOK, NEW w \in DOMAIN writes, WriteArtifact(w) \/ CrashWrite(w)
  PROVE  StoreOK' /\ StoreGoesOn
<1> DEFINE a == writes[w].artifact
<1>1. w \in 1..Len(writes) /\ a \in Artifacts /\ w \in Nat /\ Len(writes) \in Nat
  BY DEF StoreOK, WritesOK, IsList
<1> DEFINE empty == [of |-> w, shape |-> "empty"]
           part == [of |-> w, shape |-> "part"]
<1>2. /\ empty \in FileStates /\ empty.of = w
      /\ part \in FileStates /\ part.of = w
      /\ Whole(w) \in FileStates /\ Whole(w).of = w /\ Whole(w).shape = "whole"
  BY <1>1 DEF FileStates, Whole
<1>3. /\ "open records" \in RecordStages /\ "fill records" \in RecordStages
      /\ "open meta" \in MetaStages /\ "fill meta" \in MetaStages
      /\ "fill records" \in AfterRecords /\ "open meta" \in AfterRecords /\ "crashed" \in AfterRecords
      /\ "fill meta" \in AfterMeta /\ "written" \in AfterMeta /\ "crashed" \in AfterMeta
  BY DEF RecordStages, MetaStages, AfterRecords, AfterMeta
<1>4. CASE Opened(w, "records", "open records", "fill records")
  <2>1. writes[w].at = "open records" /\ Moves(w, "fill records") /\ PutsRecords(a, w, "fill records")
    BY <1>2, <1>4 DEF Opened, Moves, PutsRecords
  <2> QED BY <1>1, <1>3, <2>1, RecordsStep
<1>5. CASE Filled(w, "records", "fill records", "open meta")
  <2>1. writes[w].at = "fill records" /\ Moves(w, "open meta") /\ PutsRecords(a, w, "open meta")
    BY <1>2, <1>5 DEF Filled, Moves, PutsRecords
  <2> QED BY <1>1, <1>3, <2>1, RecordsStep
<1>6. CASE Opened(w, "meta", "open meta", "fill meta")
  <2>1. writes[w].at = "open meta" /\ Moves(w, "fill meta") /\ PutsMeta(a, w)
    BY <1>2, <1>6 DEF Opened, Moves, PutsMeta
  <2> QED BY <1>1, <1>3, <2>1, MetaStep
<1>7. CASE Filled(w, "meta", "fill meta", "written")
  <2>1. writes[w].at = "fill meta" /\ Moves(w, "written") /\ PutsMeta(a, w)
    BY <1>2, <1>7 DEF Filled, Moves, PutsMeta
  <2> QED BY <1>1, <1>3, <2>1, MetaStep
<1>8. CASE CrashWrite(w)
  <2>1. writes[w].at \notin Done /\ Moves(w, "crashed")
    BY <1>8 DEF CrashWrite, Settled, Moves
  <2>2. CASE UNCHANGED files
    BY <1>1, <2>1, <2>2, CrashStep
  <2>3. CASE writes[w].at = "fill records" /\ PutsRecords(a, w, "crashed")
    BY <1>1, <1>3, <2>1, <2>3, RecordsStep
  <2>4. CASE writes[w].at = "fill meta" /\ PutsMeta(a, w)
    BY <1>1, <1>3, <2>1, <2>4, MetaStep
  <2>5. CASE ~UNCHANGED files
    <3>1. writes[w].at \in {"fill records", "fill meta"}
      BY <1>8, <2>5 DEF CrashWrite
    <3>2. writes[w].at = "fill records" => files' = [files EXCEPT ![a].records = part]
      BY <1>8, <2>5 DEF CrashWrite
    <3>3. writes[w].at = "fill meta" => files' = [files EXCEPT ![a].meta = part]
      BY <1>8, <2>5 DEF CrashWrite
    <3> QED BY <1>2, <2>3, <2>4, <3>1, <3>2, <3>3 DEF PutsRecords, PutsMeta
  <2> QED BY <2>2, <2>5
<1> QED BY <1>4, <1>5, <1>6, <1>7, <1>8 DEF WriteArtifact

------------------------------------------------------------------------------
(* The reads.                                                              *)

\* While a read is under way the metadata it has seen is not newer than the
\* metadata there is, and not older than what was settled when it began.
ReadOK(read) ==
  /\ read = [artifact |-> read.artifact, meta |-> read.meta, records |-> read.records,
             settled |-> read.settled, shape |-> read.shape]
  /\ read.artifact \in Artifacts /\ read.meta \in FileStates
  /\ read.meta.of = 0 => read.meta.shape # "whole"
  /\ \A w \in read.settled : w \in 1..Len(writes) /\ writes[w].at \in Done
  /\ read.shape = "reading" =>
       /\ read.meta.of <= files[read.artifact].meta.of
       /\ \A w \in read.settled :
            writes[w].artifact = read.artifact /\ writes[w].at = "written" => w <= read.meta.of
  /\ Accepted(read) =>
       /\ AgreesUnlessInterrupted(read)
       /\ read.records.of > read.meta.of => read.records.of \in 1..Len(writes)

LEMMA ReadGoesOn ==
  ASSUME StoreOK, StoreOK', StoreGoesOn, NEW read, ReadOK(read)
  PROVE  ReadOK(read)'
<1>1. /\ \A w \in 1..Len(writes) : /\ w \in 1..Len(writes')
                                   /\ writes'[w].artifact = writes[w].artifact
                                   /\ writes[w].at \in Done => writes'[w].at = writes[w].at
  BY DEF StoreOK, WritesOK, IsList, StoreGoesOn
<1>2. \A w \in read.settled : w \in 1..Len(writes') /\ writes'[w].at \in Done
  BY <1>1 DEF ReadOK
<1>3. read.artifact \in Artifacts /\ read.meta.of \in Nat
  BY DEF ReadOK, FileStates
<1>4. /\ files[read.artifact].meta.of \in Nat /\ files'[read.artifact].meta.of \in Nat
      /\ files[read.artifact].meta.of <= files'[read.artifact].meta.of
  BY <1>3, FileNumbers DEF StoreOK, StoreGoesOn, FilesOK, FileStates
<1>5. CASE read.shape = "reading"
  <2>1. read.meta.of <= files[read.artifact].meta.of
    BY <1>5 DEF ReadOK
  <2>2. read.meta.of <= files'[read.artifact].meta.of
    BY <1>3, <1>4, <2>1
  <2>3. \A w \in read.settled :
          writes'[w].artifact = read.artifact /\ writes'[w].at = "written" => w <= read.meta.of
    BY <1>1, <1>5 DEF ReadOK
  <2>4. ~Accepted(read)
    BY <1>5 DEF Accepted
  <2> QED BY <1>2, <2>2, <2>3, <2>4 DEF ReadOK, Accepted
<1>6. CASE read.shape # "reading" /\ ~Accepted(read)
  BY <1>2, <1>6 DEF ReadOK, Accepted
<1>7. CASE read.shape # "reading" /\ Accepted(read)
  <2>1. /\ Agrees(read) \/ Interrupted(read)
        /\ read.records.of > read.meta.of => read.records.of \in 1..Len(writes)
    BY <1>7 DEF ReadOK, AgreesUnlessInterrupted
  <2>2. Interrupted(read) => Interrupted(read)'
    <3>1. ASSUME Interrupted(read) PROVE read.records.of \in 1..Len(writes)
      BY <2>1, <3>1 DEF Interrupted
    <3>2. "crashed" \in Done
      BY DEF Done
    <3> QED BY <1>1, <3>1, <3>2 DEF Interrupted
  <2>3. read.records.of > read.meta.of => read.records.of \in 1..Len(writes')
    BY <1>1, <2>1
  <2> QED BY <1>2, <1>7, <2>1, <2>2, <2>3 DEF ReadOK, AgreesUnlessInterrupted, Accepted, Agrees
<1> QED BY <1>5, <1>6, <1>7

LEMMA BeginReadOK ==
  ASSUME StoreOK, NEW a \in Artifacts
  PROVE  ReadOK(BeginRead(a)) /\ BeginRead(a).shape = "reading"
<1> DEFINE read == BeginRead(a)
<1>1. /\ read.artifact = a /\ read.meta = files[a].meta /\ read.settled = Settled /\ read.shape = "reading"
      /\ read = [artifact |-> read.artifact, meta |-> read.meta, records |-> read.records,
                 settled |-> read.settled, shape |-> read.shape]
  BY DEF BeginRead
<1> HIDE DEF read
<1>2. files[a].meta \in FileStates /\ files[a].meta.of \in Nat
  BY DEF StoreOK, FilesOK, FileStates
<1>3. files[a].meta.of = 0 => files[a].meta.shape # "whole"
  BY DEF StoreOK, PairOK
<1>4. \A w \in Settled : w \in 1..Len(writes) /\ writes[w].at \in Done
  BY DEF Settled, StoreOK, WritesOK, IsList
<1>5. \A w \in Settled : writes[w].artifact = a /\ writes[w].at = "written" => w <= files[a].meta.of
  BY <1>4 DEF StoreOK, WriteShows
<1>6. files[a].meta.of <= files[a].meta.of
  BY <1>2
<1>7. ~Accepted(read)
  BY <1>1 DEF Accepted
<1>8. ReadOK(read)
  BY <1>1, <1>2, <1>3, <1>4, <1>5, <1>6, <1>7 DEF ReadOK
<1> QED BY <1>1, <1>8 DEF read

LEMMA EndReadOK ==
  ASSUME StoreOK, NEW read, ReadOK(read), read.shape = "reading",
         NEW shape \in ShapesRead(read.meta, files[read.artifact].records)
  PROVE  ReadOK(EndRead(read, shape))
<1> DEFINE done == EndRead(read, shape)
           a == read.artifact
<1>1. /\ done.artifact = a /\ done.meta = read.meta /\ done.records = files[a].records
      /\ done.settled = read.settled /\ done.shape = shape
      /\ done = [artifact |-> done.artifact, meta |-> done.meta, records |-> done.records,
                 settled |-> done.settled, shape |-> done.shape]
  <2>1. DOMAIN read = {"artifact", "meta", "records", "settled", "shape"}
    BY DEF ReadOK
  <2>2. done = [[read EXCEPT !.records = files[a].records] EXCEPT !.shape = shape]
    BY DEF EndRead
  <2> QED BY <2>1, <2>2
<1> HIDE DEF done
<1>2. /\ a \in Artifacts /\ read.meta \in FileStates /\ (read.meta.of = 0 => read.meta.shape # "whole")
      /\ \A w \in read.settled : w \in 1..Len(writes) /\ writes[w].at \in Done
      /\ read.meta.of <= files[a].meta.of
      /\ \A w \in read.settled : writes[w].artifact = a /\ writes[w].at = "written" => w <= read.meta.of
  BY DEF ReadOK
<1> HIDE DEF a
<1>3. read.meta.of \in Nat /\ files[a].meta.of \in Nat /\ files[a].records.of \in Nat
  BY <1>2, FileNumbers DEF StoreOK, FileStates
<1>4. PairOK(a) /\ Len(writes) \in Nat
  BY <1>2 DEF StoreOK, WritesOK, IsList
<1>5. files[a].meta.of <= files[a].records.of /\ files[a].records.of <= Len(writes)
  BY <1>4 DEF PairOK
<1>6. shape # "reading"
  <2>1. files[a].records.shape \in {"absent", "empty", "part", "whole"}
    BY <1>2 DEF StoreOK, FilesOK, FileStates
  <2>2. shape \in {"error", "part", "whole"}
    BY <2>1 DEF ShapesRead, a
  <2> QED BY <2>2
<1>7. ASSUME Accepted(done)
      PROVE  /\ AgreesUnlessInterrupted(done)
             /\ done.records.of > done.meta.of => done.records.of \in 1..Len(writes)
  <2>1. shape # "error"
    BY <1>1, <1>7 DEF Accepted
  <2>2. read.meta.shape = "whole"
    BY <2>1 DEF ShapesRead, a
  <2>3. read.meta.of > 0
    BY <1>2, <1>3, <2>2
  <2>4. CASE files[a].records.of = read.meta.of
    <3>1. files[a].meta.of = files[a].records.of /\ files[a].meta.of > 0
      BY <1>2, <1>3, <1>5, <2>3, <2>4
    <3>2. files[a].records.shape = "whole"
      BY <1>4, <3>1 DEF PairOK
    <3>3. shape = "whole"
      BY <2>1, <3>2 DEF ShapesRead, a
    <3>4. Agrees(done) /\ ~(done.records.of > done.meta.of)
      BY <1>1, <1>3, <2>4, <3>3 DEF Agrees
    <3> QED BY <3>4 DEF AgreesUnlessInterrupted
  <2>5. CASE files[a].records.of > read.meta.of
    <3>1. files[a].records.of \in 1..Len(writes) /\ files[a].records.of > 0
      BY <1>3, <1>4, <1>5, <2>3, <2>5
    <3>2. writes[files[a].records.of].artifact = a
      BY <1>4, <3>1 DEF PairOK
    <3>3. ~(files[a].records.of <= read.meta.of)
      BY <1>3, <2>5
    <3>4. files[a].records.of \in read.settled => writes[files[a].records.of].at = "crashed"
      BY <1>2, <3>2, <3>3 DEF Done
    <3>5. Interrupted(done)
      BY <1>1, <2>5, <3>4 DEF Interrupted
    <3> QED BY <1>1, <3>1, <3>5 DEF AgreesUnlessInterrupted
  <2> QED BY <1>2, <1>3, <1>5, <2>4, <2>5
<1>8. ReadOK(done)
  BY <1>1, <1>2, <1>6, <1>7 DEF ReadOK
<1> QED BY <1>8 DEF done

------------------------------------------------------------------------------
(* The commands.                                                           *)

AggregateOK ==
  /\ aggregate = [at |-> aggregate.at, todo |-> aggregate.todo, reads |-> aggregate.reads, made |-> aggregate.made]
  /\ aggregate.todo \in Seq(Artifacts)
  /\ IsList(aggregate.reads)
  /\ \A i \in 1..Len(aggregate.reads) : \A read : read = aggregate.reads[i] => ReadOK(read)
  /\ aggregate.at = "records" =>
       Len(aggregate.reads) > 0 /\ aggregate.reads[Len(aggregate.reads)].shape = "reading"

ReportOK ==
  /\ report = [at |-> report.at, read |-> report.read]
  /\ \/ report.read = None /\ report.at = "none"
     \/ \A read : read = report.read => ReadOK(read)
  /\ report.at = "records" => report.read.shape = "reading"

Inv == job \in Jobs /\ StoreOK /\ AggregateOK /\ ReportOK

LEMMA AggregateGoesOn ==
  ASSUME AggregateOK, StoreOK, StoreOK', StoreGoesOn, aggregate' = aggregate
  PROVE  AggregateOK'
<1>1. \A read : ReadOK(read) => ReadOK(read)'
  BY ReadGoesOn
<1> QED BY <1>1 DEF AggregateOK

LEMMA ReportGoesOn ==
  ASSUME ReportOK, StoreOK, StoreOK', StoreGoesOn, report' = report
  PROVE  ReportOK'
<1>1. \A read : ReadOK(read) => ReadOK(read)'
  BY ReadGoesOn
<1> QED BY <1>1 DEF ReportOK

LEMMA StoreRests ==
  ASSUME StoreOK, UNCHANGED storing
  PROVE  /\ StoreOK' /\ StoreGoesOn
         /\ \A read : ReadOK(read) => ReadOK(read)'
<1>1. writes' = writes /\ files' = files
  BY DEF storing
<1>2. WritesOK' /\ FilesOK' /\ OneWriter'
  BY <1>1 DEF StoreOK, WritesOK, FilesOK, OneWriter
<1>3. \A a \in Artifacts : PairOK(a)'
  BY <1>1 DEF StoreOK, PairOK
<1>4. \A w \in 1..Len(writes') : WriteShows(w)'
  BY <1>1 DEF StoreOK, WriteShows
<1>5. StoreOK'
  BY <1>2, <1>3, <1>4 DEF StoreOK
<1>6. Len(writes) \in Nat /\ \A a \in Artifacts : files[a].meta.of \in Nat
  BY FileNumbers DEF StoreOK, WritesOK, IsList
<1>7. StoreGoesOn
  BY <1>1, <1>6 DEF StoreGoesOn
<1> QED BY <1>5, <1>7, ReadGoesOn

LEMMA BeginAggregateKeeps ==
  ASSUME Inv, job.kind = "patterns", BeginAggregate
  PROVE  AggregateOK'
<1> DEFINE artifacts == Each(<<job.repository>> \o job.supporting, EvidenceArtifact)
<1>1. artifacts \in Seq(Artifacts)
  <2> DEFINE s == <<job.repository>> \o job.supporting
  <2>1. job.repository \in DOMAIN Trees /\ job.supporting \in Seq(DOMAIN Trees)
    BY ArtifactsAssumption DEF Inv
  <2>2. s \in Seq(DOMAIN Trees)
    BY <2>1
  <2>3. \A i \in 1..Len(s) : EvidenceArtifact(s[i]) \in Artifacts
    BY <2>2, ArtifactsAssumption
  <2> HIDE DEF s
  <2>4. [i \in 1..Len(s) |-> EvidenceArtifact(s[i])] \in Seq(Artifacts)
    BY <2>2, <2>3
  <2> QED BY <2>4 DEF Each, s
<1> HIDE DEF artifacts
<1>2. UNCHANGED storing
  BY DEF BeginAggregate
<1>3. \A read : ReadOK(read) => ReadOK(read)'
  BY <1>2, StoreRests DEF Inv
<1>4. PICK at \in {"meta", "failed"} : aggregate' = [aggregate EXCEPT !.at = at, !.todo = artifacts]
  BY DEF BeginAggregate, artifacts
<1>5. aggregate = [at |-> aggregate.at, todo |-> aggregate.todo, reads |-> aggregate.reads, made |-> aggregate.made]
  BY DEF Inv, AggregateOK
<1>6. aggregate' = [at |-> at, todo |-> artifacts, reads |-> aggregate.reads, made |-> aggregate.made]
  BY <1>4, <1>5
<1>7. /\ aggregate' = [at |-> aggregate'.at, todo |-> aggregate'.todo, reads |-> aggregate'.reads, made |-> aggregate'.made]
      /\ aggregate'.todo = artifacts /\ aggregate'.reads = aggregate.reads /\ aggregate'.at # "records"
  BY <1>6
<1> QED BY <1>1, <1>3, <1>7 DEF Inv, AggregateOK

LEMMA ReadMetaKeeps ==
  ASSUME Inv, ReadMeta
  PROVE  AggregateOK'
<1> DEFINE a == Head(aggregate.todo)
           read == BeginRead(a)
           n == Len(aggregate.reads)
<1>1. /\ aggregate.todo \in Seq(Artifacts) /\ aggregate.todo # <<>> /\ UNCHANGED storing
      /\ IsList(aggregate.reads) /\ n \in Nat
  BY DEF ReadMeta, Inv, AggregateOK, IsList
<1>2. a \in Artifacts /\ Tail(aggregate.todo) \in Seq(Artifacts)
  BY <1>1
<1>3. \A r : ReadOK(r) => ReadOK(r)'
  BY <1>1, StoreRests DEF Inv
<1>4. ReadOK(read) /\ read.shape = "reading"
  BY <1>2, BeginReadOK DEF Inv
<1>5. aggregate = [at |-> aggregate.at, todo |-> aggregate.todo, reads |-> aggregate.reads, made |-> aggregate.made]
  BY DEF Inv, AggregateOK
<1>6. aggregate' = [at |-> "records", todo |-> Tail(aggregate.todo), reads |-> Append(aggregate.reads, read),
                    made |-> aggregate.made]
  BY <1>5 DEF ReadMeta
<1> HIDE DEF read
<1>7. /\ IsList(Append(aggregate.reads, read)) /\ Len(Append(aggregate.reads, read)) = n + 1
      /\ Append(aggregate.reads, read)[n + 1] = read
      /\ \A i \in 1..n : Append(aggregate.reads, read)[i] = aggregate.reads[i]
  BY <1>1, ListAppended
<1>8. /\ aggregate' = [at |-> aggregate'.at, todo |-> aggregate'.todo, reads |-> aggregate'.reads, made |-> aggregate'.made]
      /\ aggregate'.todo \in Seq(Artifacts)
      /\ IsList(aggregate'.reads) /\ Len(aggregate'.reads) = n + 1
      /\ aggregate'.reads[n + 1] = read
      /\ \A i \in 1..n : aggregate'.reads[i] = aggregate.reads[i]
  BY <1>2, <1>6, <1>7
<1>9. ASSUME NEW i \in 1..Len(aggregate'.reads), NEW r, r = aggregate'.reads[i]
      PROVE  ReadOK(r)'
  <2>1. CASE i \in 1..n
    BY <1>3, <1>8, <1>9, <2>1 DEF Inv, AggregateOK
  <2>2. CASE i = n + 1
    BY <1>3, <1>4, <1>8, <1>9, <2>2
  <2> QED BY <1>1, <1>8, <2>1, <2>2
<1> QED BY <1>1, <1>4, <1>8, <1>9 DEF AggregateOK

LEMMA ReadRecordsKeeps ==
  ASSUME Inv, ReadRecords
  PROVE  AggregateOK'
<1> DEFINE n == Len(aggregate.reads)
<1>1. /\ aggregate.at = "records" /\ UNCHANGED storing /\ aggregate.todo \in Seq(Artifacts)
      /\ IsList(aggregate.reads) /\ n \in Nat /\ n > 0 /\ aggregate.reads[n].shape = "reading"
  BY DEF ReadRecords, Inv, AggregateOK, IsList
<1>2. PICK read : read = aggregate.reads[n]
  OBVIOUS
<1>3. ReadOK(read) /\ read.shape = "reading" /\ n \in 1..n
  BY <1>1, <1>2 DEF Inv, AggregateOK
<1>4. PICK shape \in ShapesRead(read.meta, files[read.artifact].records) :
        aggregate' = [aggregate EXCEPT !.at = IF shape = "error" THEN "failed" ELSE "meta",
                                       !.reads[n] = EndRead(read, shape)]
  BY <1>2 DEF ReadRecords, Last
<1>5. \A r : ReadOK(r) => ReadOK(r)'
  BY <1>1, StoreRests DEF Inv
<1>6. ReadOK(EndRead(read, shape))
  BY <1>3, EndReadOK DEF Inv
<1> DEFINE done == EndRead(read, shape)
           at == IF shape = "error" THEN "failed" ELSE "meta"
           reads == [aggregate.reads EXCEPT ![n] = done]
<1>7. aggregate = [at |-> aggregate.at, todo |-> aggregate.todo, reads |-> aggregate.reads, made |-> aggregate.made]
  BY DEF Inv, AggregateOK
<1>8. at # "records"
  OBVIOUS
<1> HIDE DEF done, at
<1>9. IsList(reads) /\ Len(reads) = n /\ reads[n] = done /\ \A i \in 1..n : i # n => reads[i] = aggregate.reads[i]
  <2>1. IsList(aggregate.reads) /\ n \in 1..Len(aggregate.reads)
    BY <1>1, <1>3
  <2>2. \A x : LET changed == [aggregate.reads EXCEPT ![n] = x] IN
          /\ IsList(changed) /\ Len(changed) = n /\ changed[n] = x
          /\ \A i \in 1..n : i # n => changed[i] = aggregate.reads[i]
    BY <2>1, ListChanged, SMTT(30)
  <2> QED BY <2>2
<1>10. aggregate' = [at |-> at, todo |-> aggregate.todo, reads |-> reads, made |-> aggregate.made]
  BY <1>4, <1>7 DEF done, at
<1> HIDE DEF reads
<1>11. /\ aggregate' = [at |-> aggregate'.at, todo |-> aggregate'.todo, reads |-> aggregate'.reads, made |-> aggregate'.made]
       /\ aggregate'.todo = aggregate.todo /\ aggregate'.reads = reads /\ aggregate'.at # "records"
  BY <1>8, <1>10
<1>12. ASSUME NEW i \in 1..n, NEW r, r = aggregate'.reads[i]
       PROVE  ReadOK(r)'
  <2>1. CASE i # n
    BY <1>5, <1>9, <1>11, <1>12, <2>1 DEF Inv, AggregateOK
  <2>2. CASE i = n
    BY <1>5, <1>6, <1>9, <1>11, <1>12, <2>2 DEF done
  <2> QED BY <2>1, <2>2
<1> QED BY <1>1, <1>9, <1>11, <1>12 DEF AggregateOK

LEMMA BeginReportKeeps ==
  ASSUME Inv, job.kind = "patterns", BeginReport
  PROVE  ReportOK'
<1> DEFINE a == PatternArtifact(job.repository)
           read == BeginRead(a)
<1>1. a \in Artifacts
  BY ArtifactsAssumption DEF Inv
<1>2. ReadOK(read) /\ read.shape = "reading"
  BY <1>1, BeginReadOK DEF Inv
<1>3. UNCHANGED storing /\ report' = [at |-> "records", read |-> read]
  BY DEF BeginReport
<1> HIDE DEF read
<1>4. \A r : ReadOK(r) => ReadOK(r)'
  BY <1>3, StoreRests DEF Inv
<1>5. report' = [at |-> report'.at, read |-> report'.read] /\ report'.read = read
  BY <1>3
<1>6. \A r : r = report'.read => ReadOK(r)'
  BY <1>2, <1>4, <1>5
<1> QED BY <1>2, <1>5, <1>6 DEF ReportOK

LEMMA ReadPatternsKeeps ==
  ASSUME Inv, ReadPatterns
  PROVE  ReportOK'
<1>1. PICK read : read = report.read
  OBVIOUS
<1>2. report.at = "records" /\ UNCHANGED storing
  BY DEF ReadPatterns
<1>3. ReadOK(read) /\ read.shape = "reading"
  BY <1>1, <1>2 DEF Inv, ReportOK
<1>4. PICK shape \in ShapesRead(read.meta, files[read.artifact].records) :
        report' = [at |-> IF shape = "error" THEN "failed" ELSE "shown", read |-> EndRead(read, shape)]
  BY <1>1 DEF ReadPatterns
<1>5. ReadOK(EndRead(read, shape))
  BY <1>3, EndReadOK DEF Inv
<1>6. \A r : ReadOK(r) => ReadOK(r)'
  BY <1>2, StoreRests DEF Inv
<1>7. report' = [at |-> report'.at, read |-> report'.read] /\ report'.read = EndRead(read, shape) /\ report'.at # "records"
  BY <1>4
<1>8. \A r : r = report'.read => ReadOK(r)'
  BY <1>5, <1>6, <1>7
<1> QED BY <1>7, <1>8 DEF ReportOK

LEMMA MakePatternsKeeps ==
  ASSUME Inv, job.kind = "patterns", MakePatterns
  PROVE  StoreOK' /\ AggregateOK' /\ ReportOK'
<1> DEFINE a == PatternArtifact(job.repository)
<1>1. a \in Artifacts
  BY ArtifactsAssumption DEF Inv
<1>2. \/ UNCHANGED storing
      \/ \E document : BeginWrite(a, document)
  BY DEF MakePatterns
<1>3. StoreOK' /\ StoreGoesOn
  BY <1>1, <1>2, BeginWriteKeeps, StoreRests DEF Inv
<1>4. PICK made : \/ aggregate' = [aggregate EXCEPT !.at = "failed"]
                  \/ aggregate' = [aggregate EXCEPT !.at = "made", !.made = made]
  BY DEF MakePatterns
<1>5. aggregate = [at |-> aggregate.at, todo |-> aggregate.todo, reads |-> aggregate.reads, made |-> aggregate.made]
  BY DEF Inv, AggregateOK
<1>6. \/ aggregate' = [at |-> "failed", todo |-> aggregate.todo, reads |-> aggregate.reads, made |-> aggregate.made]
      \/ aggregate' = [at |-> "made", todo |-> aggregate.todo, reads |-> aggregate.reads, made |-> made]
  BY <1>4, <1>5
<1>7. /\ aggregate' = [at |-> aggregate'.at, todo |-> aggregate'.todo, reads |-> aggregate'.reads, made |-> aggregate'.made]
      /\ aggregate'.todo = aggregate.todo /\ aggregate'.reads = aggregate.reads /\ aggregate'.at # "records"
  BY <1>6
<1>8. \A r : ReadOK(r) => ReadOK(r)'
  BY <1>3, ReadGoesOn DEF Inv
<1>9. AggregateOK'
  BY <1>7, <1>8 DEF Inv, AggregateOK
<1>10. report' = report
  BY DEF MakePatterns
<1> QED BY <1>3, <1>9, <1>10, ReportGoesOn DEF Inv

LEMMA CommandsKeep ==
  ASSUME Inv, Commands
  PROVE  Inv'
<1>1. job.kind = "patterns" /\ job' = job
  BY DEF Commands
<1>2. ASSUME UNCHANGED storing, UNCHANGED aggregate
      PROVE  StoreOK' /\ AggregateOK'
  BY <1>2, StoreRests, AggregateGoesOn DEF Inv
<1>3. ASSUME UNCHANGED storing, UNCHANGED report
      PROVE  StoreOK' /\ ReportOK'
  BY <1>3, StoreRests, ReportGoesOn DEF Inv
<1>4. CASE ExtractCommand
  <2>1. PICK repository \in DOMAIN Trees : \E document : BeginWrite(EvidenceArtifact(repository), document)
    BY <1>4 DEF ExtractCommand
  <2>2. EvidenceArtifact(repository) \in Artifacts
    BY ArtifactsAssumption
  <2>3. StoreOK' /\ StoreGoesOn
    BY <2>1, <2>2, BeginWriteKeeps DEF Inv
  <2>4. aggregate' = aggregate /\ report' = report
    BY <1>4 DEF ExtractCommand
  <2> QED BY <1>1, <2>3, <2>4, AggregateGoesOn, ReportGoesOn DEF Inv
<1>5. CASE \E w \in DOMAIN writes : Process(w)
  <2>1. PICK w \in DOMAIN writes : WriteArtifact(w) \/ CrashWrite(w)
    BY <1>5 DEF Process
  <2>2. StoreOK' /\ StoreGoesOn
    BY <2>1, WriteKeeps DEF Inv
  <2>3. aggregate' = aggregate /\ report' = report
    BY <1>5 DEF Process, commands
  <2> QED BY <1>1, <2>2, <2>3, AggregateGoesOn, ReportGoesOn DEF Inv
<1>6. CASE BeginAggregate
  <2>1. UNCHANGED storing /\ UNCHANGED report
    BY <1>6 DEF BeginAggregate
  <2> QED BY <1>1, <1>3, <1>6, <2>1, BeginAggregateKeeps DEF Inv
<1>7. CASE ReadMeta
  <2>1. UNCHANGED storing /\ UNCHANGED report
    BY <1>7 DEF ReadMeta
  <2> QED BY <1>1, <1>3, <1>7, <2>1, ReadMetaKeeps DEF Inv
<1>8. CASE ReadRecords
  <2>1. UNCHANGED storing /\ UNCHANGED report
    BY <1>8 DEF ReadRecords
  <2> QED BY <1>1, <1>3, <1>8, <2>1, ReadRecordsKeeps DEF Inv
<1>9. CASE MakePatterns
  BY <1>1, <1>9, MakePatternsKeeps DEF Inv
<1>10. CASE BeginReport
  <2>1. UNCHANGED storing /\ UNCHANGED aggregate
    BY <1>10 DEF BeginReport
  <2> QED BY <1>1, <1>2, <1>10, <2>1, BeginReportKeeps DEF Inv
<1>11. CASE ReadPatterns
  <2>1. UNCHANGED storing /\ UNCHANGED aggregate
    BY <1>11 DEF ReadPatterns
  <2> QED BY <1>1, <1>2, <1>11, <2>1, ReadPatternsKeeps DEF Inv
<1> QED BY <1>4, <1>5, <1>6, <1>7, <1>8, <1>9, <1>10, <1>11 DEF Commands

LEMMA NextKeeps ==
  ASSUME Inv, [Next]_vars
  PROVE  Inv'
<1>1. ASSUME job' = job, UNCHANGED storing, UNCHANGED commands
      PROVE  Inv'
  BY <1>1, StoreRests, AggregateGoesOn, ReportGoesOn DEF Inv, commands
<1>2. CASE Edit
  BY <1>1, <1>2 DEF Edit
<1>3. CASE Calls
  BY <1>1, <1>3 DEF Calls
<1>4. CASE Analyse
  BY <1>1, <1>4 DEF Analyse
<1>5. CASE ExtractFromTree
  BY <1>1, <1>5 DEF ExtractFromTree
<1>6. CASE Commands
  BY <1>6, CommandsKeep
<1>7. CASE UNCHANGED vars
  BY <1>1, <1>7 DEF vars
<1> QED BY <1>2, <1>3, <1>4, <1>5, <1>6, <1>7 DEF Next

LEMMA InitHolds ==
  ASSUME Init
  PROVE  Inv
<1> DEFINE s == job.stored
           n == Len(s)
           written == [i \in DOMAIN s |-> Written(EvidenceArtifact(s[i]), CompleteEvidence[s[i]])]
<1>1. job \in Jobs /\ StoreInit(written)
  BY DEF Init
<1>2. /\ s \in Seq(DOMAIN Trees)
      /\ \A i, j \in DOMAIN s : s[i] = s[j] => i = j
      /\ \A r \in DOMAIN Trees : EvidenceArtifact(r) \in Artifacts
  BY <1>1, ArtifactsAssumption DEF IsInjective
<1>3. DOMAIN s = 1..n /\ n \in Nat /\ \A i \in 1..n : s[i] \in DOMAIN Trees
  BY <1>2
<1> DEFINE artifact(i) == EvidenceArtifact(s[i])
<1>4. writes = written
  BY <1>1 DEF StoreInit
<1>5. \A i \in 1..n : written[i] = [artifact |-> artifact(i), document |-> CompleteEvidence[s[i]], at |-> "written"]
  BY <1>3 DEF Written
<1>6. \A i, j \in 1..n : artifact(i) = artifact(j) => i = j
  BY <1>2, <1>3 DEF EvidenceArtifact
<1>7. \A i \in 1..n : artifact(i) \in Artifacts
  BY <1>2, <1>3
<1>8. DOMAIN written = 1..n /\ Len(written) = n /\ IsList(written)
  <2>1. DOMAIN written = 1..n
    BY <1>3
  <2>2. written = [i \in 1..n |-> written[i]]
    BY <2>1
  <2>3. written \in Seq({written[i] : i \in 1..n})
    BY <1>3, <2>2
  <2> HIDE DEF written
  <2>4. Len(written) = n
    BY <1>3, <2>1, <2>3
  <2> QED BY <1>3, <2>1, <2>2, <2>4 DEF IsList
<1> HIDE DEF written, s, artifact
<1>9. /\ Len(writes) = n /\ IsList(writes) /\ DOMAIN writes = 1..n
      /\ \A i \in 1..n : /\ writes[i] = [artifact |-> writes[i].artifact, document |-> writes[i].document, at |-> writes[i].at]
                         /\ writes[i].artifact = artifact(i) /\ writes[i].at = "written"
  BY <1>4, <1>5, <1>8
<1>10. WritesOK
  BY <1>7, <1>9 DEF WritesOK, WriteStates
<1>11. OneWriter
  BY <1>9 DEF OneWriter, Done
<1>12. files = [a \in Artifacts |->
                  LET w == {i \in DOMAIN writes : writes[i].artifact = a}
                      file == IF w = {} THEN Absent ELSE Whole(CHOOSE i \in w : TRUE)
                  IN [records |-> file, meta |-> file]]
  BY <1>1, <1>4 DEF StoreInit
<1>13. ASSUME NEW a \in Artifacts
       PROVE  \/ files[a] = [records |-> Absent, meta |-> Absent] /\ \A i \in 1..n : writes[i].artifact # a
              \/ \E i \in 1..n : files[a] = [records |-> Whole(i), meta |-> Whole(i)] /\ writes[i].artifact = a
  <2> DEFINE w == {i \in DOMAIN writes : writes[i].artifact = a}
  <2>1. CASE w = {}
    BY <1>9, <1>12, <2>1
  <2>2. CASE w # {}
    <3>1. (CHOOSE i \in w : TRUE) \in w
      BY <2>2
    <3>2. files[a] = [records |-> Whole(CHOOSE i \in w : TRUE), meta |-> Whole(CHOOSE i \in w : TRUE)]
      BY <1>12, <2>2
    <3> QED BY <1>9, <3>1, <3>2
  <2> QED BY <2>1, <2>2
<1>14. Absent \in FileStates /\ \A i \in 1..n : Whole(i) \in FileStates
  BY DEF Absent, Whole, FileStates
<1>15. FilesOK
  <2> DEFINE FilePairs == [records : FileStates, meta : FileStates]
  <2>1. \A f \in FileStates : [records |-> f, meta |-> f] \in FilePairs
    OBVIOUS
  <2> HIDE DEF FilePairs
  <2>2. [records |-> Absent, meta |-> Absent] \in FilePairs /\ \A i \in 1..n : [records |-> Whole(i), meta |-> Whole(i)] \in FilePairs
    BY <1>14, <2>1
  <2>3. ASSUME NEW a \in Artifacts PROVE files[a] \in FilePairs
    <3>1. CASE files[a] = [records |-> Absent, meta |-> Absent]
      BY <2>2, <3>1
    <3>2. CASE \E i \in 1..n : files[a] = [records |-> Whole(i), meta |-> Whole(i)]
      BY <2>2, <3>2
    <3> QED BY <1>13, <3>1, <3>2
  <2> QED BY <1>12, <2>3 DEF FilesOK, FilePairs
<1>16. ASSUME NEW a \in Artifacts PROVE PairOK(a)
  <2>1. CASE files[a] = [records |-> Absent, meta |-> Absent]
    <3>1. files[a].meta.of = 0 /\ files[a].records.of = 0 /\ files[a].meta.shape = "absent"
      BY <2>1 DEF Absent
    <3> QED BY <1>3, <1>9, <3>1 DEF PairOK
  <2>2. ASSUME NEW i \in 1..n, files[a] = [records |-> Whole(i), meta |-> Whole(i)], writes[i].artifact = a
        PROVE  PairOK(a)
    <3>1. files[a].meta.of = i /\ files[a].records.of = i /\ files[a].records.shape = "whole"
      BY <2>2 DEF Whole
    <3>2. i <= i /\ ~(i < i) /\ i <= Len(writes) /\ i # 0
      BY <1>3, <1>9
    <3> QED BY <2>2, <3>1, <3>2 DEF PairOK
  <2> QED BY <1>13, <2>1, <2>2
<1>17. ASSUME NEW w \in 1..n PROVE WriteShows(w)
  <2> SUFFICES ASSUME NEW a \in Artifacts, writes[w].artifact = a PROVE w <= files[a].meta.of
    BY <1>9 DEF WriteShows
  <2>1. PICK i \in 1..n : files[a] = [records |-> Whole(i), meta |-> Whole(i)] /\ writes[i].artifact = a
    BY <1>13
  <2>2. i = w
    BY <1>6, <1>9, <2>1
  <2>3. files[a].meta.of = w /\ w \in Nat
    BY <2>1, <2>2 DEF Whole
  <2> QED BY <2>3
<1>18. StoreOK
  BY <1>9, <1>10, <1>11, <1>15, <1>16, <1>17 DEF StoreOK
<1>19. AggregateOK
  <2>1. aggregate = [at |-> "none", todo |-> <<>>, reads |-> <<>>, made |-> None]
    BY DEF Init
  <2> QED BY <2>1 DEF AggregateOK, IsList
<1>20. ReportOK
  <2>1. report = [at |-> "none", read |-> None]
    BY DEF Init
  <2> QED BY <2>1 DEF ReportOK
<1> QED BY <1>1, <1>18, <1>19, <1>20 DEF Inv

\* evidence/persistence.py:75-80, 98-124, aggregation/persistence.py: for any
\* repositories, extractions, crashes and readings, an evidence or pattern set
\* that is accepted is one write's, all of it, or its records are those of a
\* later write that crashed or had not finished when the reading began.
THEOREM ReadersSeeOneWrite == Spec => []PairsAgreeUnlessInterrupted
<1>1. Init => Inv
  BY InitHolds
<1>2. Inv /\ [Next]_vars => Inv'
  BY NextKeeps
<1>3. Inv => PairsAgreeUnlessInterrupted
  <2> SUFFICES ASSUME Inv, NEW read \in AllReads PROVE AgreesUnlessInterrupted(read)
    BY DEF PairsAgreeUnlessInterrupted
  <2>1. ReadOK(read)
    <3>1. CASE read \in ToSet(aggregate.reads)
      <4>1. PICK i \in DOMAIN aggregate.reads : read = aggregate.reads[i]
        BY <3>1 DEF ToSet
      <4>2. DOMAIN aggregate.reads = 1..Len(aggregate.reads)
        BY DEF Inv, AggregateOK, IsList
      <4> QED BY <4>1, <4>2 DEF Inv, AggregateOK
    <3>2. CASE read = report.read /\ report.at # "none"
      BY <3>2 DEF Inv, ReportOK
    <3> QED BY <3>1, <3>2 DEF AllReads
  <2> QED BY <2>1 DEF ReadOK, AgreesUnlessInterrupted
<1> QED BY <1>1, <1>2, <1>3, PTL DEF Spec

LEMMA LeastNumber ==
  ASSUME NEW T \in SUBSET Nat, T # {}
  PROVE  \E x \in T : \A y \in T : x <= y
<1> DEFINE R == OpToRel(<, Nat)
<1>1. \A x, y \in Nat : x < y => <<x, y>> \in R
  BY DEF OpToRel
<1>2. \E x \in T : \A y \in T : <<y, x>> \notin R
  <2>1. IsWellFoundedOn(R, Nat)
    BY NatLessThanWellFounded
  <2> HIDE DEF R
  <2> QED BY <2>1, WFMin
<1> HIDE DEF R
<1>3. PICK x \in T : \A y \in T : <<y, x>> \notin R
  BY <1>2
<1>4. \A y \in T : ~(y < x)
  BY <1>1, <1>3
<1> QED BY <1>4

------------------------------------------------------------------------------
(* The connectors.                                                         *)

CallFields == {"at", "request", "id", "made", "response", "steady"}

\* What the invoker goes by: connectors are listed, no two provide one thing.
RegistryOK ==
  /\ IsList(registered)
  /\ integration = "ready" => ~Ambiguous

\* Instances are cached once connected; there is none of what is not cached.
InstancesOK ==
  /\ \A id \in DOMAIN cache : <<cache[id], id>> \in connected
  /\ \A c, id : <<c, id>> \in connected => id \in DOMAIN cache

AnswerOK(call) ==
  /\ call.response.status # "raised"
  /\ (/\ call.steady /\ call.request.capability = "filesystem.exists"
      /\ \E i \in Providers("filesystem.exists") : registered[i].loads)
     => call.response.status = "success"

Writing == {"truncate", "write"}
Using == {"perform"} \cup Writing
Making == {"instantiate", "connect"}

CallOK(c) ==
  LET call == calls[c] IN
  /\ call = [f \in CallFields |-> call[f]]
  /\ call.at \in {"none", "lookup", "answered"} \cup Making \cup Using
  /\ call.at # "none" => integration = "ready" /\ call.request \in Requests
  /\ call.at \in Making \cup Using =>
       /\ Providers(call.request.capability) # {}
       /\ call.id = FirstProvider(call.request.capability).id
  /\ call.at \in Making => <<c, call.id>> \notin connected
  /\ call.at = "connect" => call.made = c
  /\ call.at \in Using => <<call.made, call.id>> \in connected
  /\ call.at \in Writing => call.request.capability = "filesystem.write_text"
  /\ call.at \notin {"none", "answered"} /\ call.steady => call.request \in SteadyRequests
  /\ call.at = "answered" => AnswerOK(call)

CallsOK == calls = [c \in Callers |-> calls[c]] /\ \A c \in Callers : CallOK(c)

InvokerOK == RegistryOK /\ InstancesOK /\ CallsOK

\* Who is first among the providers is one of them.
LEMMA FirstProvides ==
  ASSUME IsList(registered), NEW capability, Providers(capability) # {}
  PROVE  \E i \in Providers(capability) : FirstProvider(capability) = registered[i]
<1>1. Providers(capability) \in SUBSET Nat
  BY DEF Providers, IsList
<1>2. \E i \in Providers(capability) : \A j \in Providers(capability) : i <= j
  BY <1>1, LeastNumber
<1> QED BY <1>2 DEF FirstProvider

\* An unambiguous provider is the only one.
LEMMA OneProvider ==
  ASSUME ~Ambiguous, NEW capability, NEW i \in Providers(capability), NEW j \in Providers(capability)
  PROVE  i = j
BY DEF Ambiguous, Providers

\* What other calls write neither removes the root nor leads out of it.
DiskKept ==
  /\ IsDir(Root) => IsDir(Root)'
  /\ \A p \in DOMAIN disk' : disk'[p] = Outside => p \in DOMAIN disk /\ disk[p] = Outside

LEMMA SteadyKept ==
  ASSUME DiskKept
  PROVE  SteadyRequests \subseteq SteadyRequests'
<1> SUFFICES ASSUME NEW CONSTANT request \in Requests, request \in SteadyRequests
             PROVE  request \in SteadyRequests'
  BY DEF SteadyRequests
<1>1. IsDir(Root)'
  BY DEF SteadyRequests, DiskKept
<1> DEFINE q == Resolved(request.path)
<1>2. ~Escapes(request.path)'
  <2>1. ~Escapes(request.path)
    BY DEF SteadyRequests
  <2>2. ".." \notin ToSet(q)
    BY <2>1 DEF Escapes
  <2>3. \A i \in 0..Len(q) : ~(SubSeq(q, 1, i) \in DOMAIN disk /\ disk[SubSeq(q, 1, i)] = Outside)
    BY <2>1 DEF Escapes
  <2> HIDE DEF q
  <2>4. \A i \in 0..Len(q) : ~(SubSeq(q, 1, i) \in DOMAIN disk' /\ disk'[SubSeq(q, 1, i)] = Outside)
    BY <2>3 DEF DiskKept
  <2> QED BY <2>2, <2>4 DEF Escapes, q
<1> QED BY <1>1, <1>2 DEF SteadyRequests

LEMMA DiskRests ==
  ASSUME UNCHANGED disk
  PROVE  DiskKept
BY DEF DiskKept, IsDir

\* One call goes on; the connectors stay registered, and the others go by what
\* they went by.
LEMMA OneCallGoesOn ==
  ASSUME InvokerOK, NEW c \in Callers, UNCHANGED registry, DiskKept, InstancesOK',
         connected \subseteq connected', \A d, id : <<d, id>> \in connected' /\ d # c => <<d, id>> \in connected,
         calls' = [calls EXCEPT ![c] = calls'[c]], CallOK(c)'
  PROVE  InvokerOK'
<1>1. registered' = registered /\ integration' = integration
  BY DEF registry
<1>2. RegistryOK'
  BY <1>1 DEF InvokerOK, RegistryOK, Ambiguous
<1>3. ASSUME NEW d \in Callers, d # c PROVE CallOK(d)'
  <2>1. calls'[d] = calls[d] /\ CallOK(d)
    BY <1>3 DEF InvokerOK, CallsOK
  <2>2. \A capability : Providers(capability)' = Providers(capability)
    BY <1>1 DEF Providers
  <2>3. \A capability : FirstProvider(capability)' = FirstProvider(capability)
    BY <1>1, <2>2 DEF FirstProvider
  <2>4. SteadyRequests \subseteq SteadyRequests'
    BY SteadyKept
  <2> DEFINE call == calls[d]
  <2>5. AnswerOK(call) => AnswerOK(call)'
    BY <1>1, <2>1, <2>2 DEF AnswerOK
  <2> QED BY <1>1, <1>3, <2>1, <2>2, <2>3, <2>4, <2>5 DEF CallOK
<1>4. calls' = [d \in Callers |-> calls'[d]]
  BY DEF InvokerOK, CallsOK
<1> QED BY <1>2, <1>3, <1>4 DEF InvokerOK, CallsOK

\* A step of a call that leaves the connectors and their instances alone.
LEMMA CallKeeps ==
  ASSUME InvokerOK, NEW c \in Callers, UNCHANGED <<registry, connected, cache>>, DiskKept,
         calls' = [calls EXCEPT ![c] = calls'[c]], CallOK(c)'
  PROVE  InvokerOK'
<1>1. InstancesOK'
  BY DEF InvokerOK, InstancesOK
<1> QED BY <1>1, OneCallGoesOn

\* A call is answered.
LEMMA RespondsWith ==
  ASSUME InvokerOK, NEW c \in Callers, calls[c].at # "none", NEW response, Respond(c, response),
         response.status # "raised", UNCHANGED <<registry, connected, cache>>, DiskKept,
         (/\ calls[c].steady /\ calls[c].request.capability = "filesystem.exists"
          /\ \E i \in Providers("filesystem.exists") : registered[i].loads)
           => response.status = "success"
  PROVE  InvokerOK'
<1> DEFINE k == calls[c]
           new == [k EXCEPT !.at = "answered", !.response = response]
<1>1. CallOK(c) /\ calls = [d \in Callers |-> calls[d]]
  BY DEF InvokerOK, CallsOK
<1>2. k = [f \in CallFields |-> k[f]]
  BY <1>1 DEF CallOK
<1>3. calls' = [calls EXCEPT ![c] = new]
  BY <1>1 DEF Respond
<1>4. /\ new = [f \in CallFields |-> new[f]]
      /\ new.at = "answered" /\ new.response = response
      /\ new.request = k.request /\ new.steady = k.steady
  <2> HIDE DEF k
  <2> QED BY <1>2 DEF CallFields
<1>5. calls'[c] = new
  BY <1>1, <1>3
<1>6. k.at # "none" => integration = "ready" /\ k.request \in Requests
  BY <1>1 DEF CallOK
<1>7. registered' = registered /\ integration' = integration
  BY DEF registry
<1>8. \A capability : Providers(capability)' = Providers(capability)
  BY <1>7 DEF Providers
<1>9. AnswerOK(calls[c])'
  <2>1. calls'[c].response = response /\ calls'[c].steady = k.steady /\ calls'[c].request = k.request
    BY <1>4, <1>5
  <2>2. Providers("filesystem.exists")' = Providers("filesystem.exists")
    BY <1>8
  <2>3. (\E i \in Providers("filesystem.exists") : registered[i].loads)'
          <=> \E i \in Providers("filesystem.exists") : registered[i].loads
    BY <1>7, <2>2
  <2> QED BY <2>1, <2>3 DEF AnswerOK
<1>10. CallOK(c)'
  <2> DEFINE r == calls'[c]
  <2>1. r = [f \in CallFields |-> r[f]] /\ r.at = "answered" /\ r.request \in Requests
    BY <1>4, <1>5, <1>6
  <2> QED BY <1>6, <1>7, <1>9, <2>1 DEF CallOK, Making, Using, Writing
<1> QED BY <1>3, <1>5, <1>10, CallKeeps

\* A call moves on, to where it knows its connector.
LEMMA MovesTo ==
  ASSUME InvokerOK, NEW c \in Callers, calls[c].at \notin {"none", "answered"}, UNCHANGED registry, DiskKept,
         NEW new, calls' = [calls EXCEPT ![c] = new], new = [f \in CallFields |-> new[f]],
         new.request = calls[c].request, new.steady = calls[c].steady, new.at \in Making \cup Using,
         Providers(new.request.capability) # {}, new.id = FirstProvider(new.request.capability).id,
         new.at \in Making => <<c, new.id>> \notin connected',
         new.at = "connect" => new.made = c,
         new.at \in Using => <<new.made, new.id>> \in connected',
         new.at \in Writing => new.request.capability = "filesystem.write_text"
  PROVE  CallOK(c)' /\ calls' = [calls EXCEPT ![c] = calls'[c]]
<1>1. CallOK(c) /\ calls = [d \in Callers |-> calls[d]]
  BY DEF InvokerOK, CallsOK
<1>2. calls'[c] = new
  BY <1>1
<1>3. integration = "ready" /\ new.request \in Requests
  BY <1>1 DEF CallOK
<1>4. registered' = registered /\ integration' = integration
  BY DEF registry
<1>5. \A capability : Providers(capability)' = Providers(capability)
  BY <1>4 DEF Providers
<1>6. \A capability : FirstProvider(capability)' = FirstProvider(capability)
  BY <1>4, <1>5 DEF FirstProvider
<1>7. new.steady => new.request \in SteadyRequests'
  BY <1>1, SteadyKept DEF CallOK
<1>8. new.at \notin {"none", "answered", "lookup"}
  BY DEF Making, Using, Writing
<1>9. CallOK(c)'
  BY <1>2, <1>3, <1>4, <1>5, <1>6, <1>7, <1>8 DEF CallOK
<1> QED BY <1>2, <1>9

LEMMA BeginCallKeeps ==
  ASSUME InvokerOK, NEW c \in Callers, NEW request \in Requests, BeginCall(c, request)
  PROVE  InvokerOK'
<1> DEFINE new == [NoCall EXCEPT !.at = "lookup", !.request = request, !.steady = request \in SteadyRequests]
<1>1. calls' = [calls EXCEPT ![c] = new] /\ integration = "ready" /\ UNCHANGED <<registry, connected, cache, disk>>
  BY DEF BeginCall
<1>2. /\ new = [f \in CallFields |-> new[f]]
      /\ new.at = "lookup" /\ new.request = request /\ new.steady = (request \in SteadyRequests)
  BY DEF NoCall, CallFields
<1> HIDE DEF new
<1>3. calls'[c] = new
  BY <1>1 DEF InvokerOK, CallsOK
<1>4. DiskKept
  BY <1>1, DiskRests
<1>5. request \in SteadyRequests => request \in SteadyRequests'
  BY <1>4, SteadyKept
<1>6. integration' = integration
  BY <1>1 DEF registry
<1>7. CallOK(c)'
  BY <1>1, <1>2, <1>3, <1>5, <1>6 DEF CallOK, Making, Using, Writing
<1> QED BY <1>1, <1>3, <1>4, <1>7, CallKeeps

LEMMA LookupKeeps ==
  ASSUME InvokerOK, NEW c \in Callers, Lookup(c)
  PROVE  InvokerOK'
<1> DEFINE k == calls[c]
           manifest == FirstProvider(k.request.capability)
           known == manifest.id \in DOMAIN cache
           new == [k EXCEPT !.id = manifest.id, !.made = IF known THEN cache[manifest.id] ELSE None,
                            !.at = IF known THEN "perform" ELSE "instantiate"]
<1>1. CallOK(c) /\ calls = [d \in Callers |-> calls[d]]
  BY DEF InvokerOK, CallsOK
<1>2. /\ k.at = "lookup" /\ Providers(k.request.capability) # {}
      /\ UNCHANGED <<registry, connected, cache, disk>>
  BY DEF Lookup
<1>3. calls' = [calls EXCEPT ![c] = new]
  BY <1>1 DEF Lookup
<1>4. k = [f \in CallFields |-> k[f]]
  BY <1>1 DEF CallOK
<1>5. /\ new = [f \in CallFields |-> new[f]]
      /\ new.request = k.request /\ new.steady = k.steady /\ new.id = manifest.id
      /\ new.made = (IF known THEN cache[manifest.id] ELSE None)
      /\ new.at = (IF known THEN "perform" ELSE "instantiate")
  <2> HIDE DEF k, manifest, known
  <2> QED BY <1>4 DEF CallFields
<1> HIDE DEF new
<1>6. DiskKept
  BY <1>2, DiskRests
<1>7. known => <<cache[manifest.id], manifest.id>> \in connected
  BY DEF InvokerOK, InstancesOK
<1>8. ~known => <<c, manifest.id>> \notin connected
  BY DEF InvokerOK, InstancesOK
<1>9. new.at \in Making \cup Using /\ new.at \notin Writing /\ new.at # "connect" /\ (new.at \in Making <=> ~known) /\ (new.at \in Using <=> known)
  BY <1>5 DEF Making, Using, Writing
<1>10. new.id = FirstProvider(new.request.capability).id /\ Providers(new.request.capability) # {}
  BY <1>2, <1>5
<1>11. /\ new.at \in Making => <<c, new.id>> \notin connected'
       /\ new.at \in Using => <<new.made, new.id>> \in connected'
  BY <1>2, <1>5, <1>7, <1>8, <1>9
<1>12. CallOK(c)' /\ calls' = [calls EXCEPT ![c] = calls'[c]]
  BY <1>2, <1>3, <1>5, <1>6, <1>9, <1>10, <1>11, MovesTo
<1> QED BY <1>2, <1>6, <1>12, CallKeeps

LEMMA NoProviderKeeps ==
  ASSUME InvokerOK, NEW c \in Callers, NoProvider(c)
  PROVE  InvokerOK'
<1>1. /\ calls[c].at = "lookup" /\ Providers(calls[c].request.capability) = {} /\ Respond(c, Failure)
      /\ UNCHANGED <<registry, connected, cache, disk>>
  BY DEF NoProvider
<1>2. Failure.status = "failure"
  BY DEF Failure
<1>3. DiskKept
  BY <1>1, DiskRests
<1> QED BY <1>1, <1>2, <1>3, RespondsWith

\* The one connector that provides it is the one that loads.
LEMMA ProviderLoads ==
  ASSUME InvokerOK, NEW c \in Callers, calls[c].at \in Making,
         calls[c].request.capability = "filesystem.exists",
         \E i \in Providers("filesystem.exists") : registered[i].loads
  PROVE  \E m \in ToSet(registered) : m.id = calls[c].id /\ m.loads
<1>1. CallOK(c) /\ IsList(registered) /\ (integration = "ready" => ~Ambiguous)
  BY DEF InvokerOK, CallsOK, RegistryOK
<1>2. ~Ambiguous /\ calls[c].id = FirstProvider("filesystem.exists").id
  BY <1>1 DEF CallOK, Making
<1>3. PICK i \in Providers("filesystem.exists") : registered[i].loads
  OBVIOUS
<1>4. PICK j \in Providers("filesystem.exists") : FirstProvider("filesystem.exists") = registered[j]
  BY <1>1, <1>3, FirstProvides
<1>5. i = j
  BY <1>2, OneProvider
<1>6. registered[i] \in ToSet(registered)
  BY <1>1 DEF Providers, ToSet, IsList
<1> QED BY <1>2, <1>3, <1>4, <1>5, <1>6

LEMMA InstantiateKeeps ==
  ASSUME InvokerOK, NEW c \in Callers, Instantiate(c)
  PROVE  InvokerOK'
<1> DEFINE k == calls[c]
           loads == \E m \in ToSet(registered) : m.id = k.id /\ m.loads
           new == [k EXCEPT !.at = "connect", !.made = c]
<1>1. CallOK(c) /\ calls = [d \in Callers |-> calls[d]]
  BY DEF InvokerOK, CallsOK
<1>2. k.at = "instantiate" /\ UNCHANGED <<registry, cache, disk>> /\ connected' = connected \ {<<c, k.id>>}
  BY DEF Instantiate
<1>3. k.at \in Making /\ k.at # "none"
  BY <1>2 DEF Making
<1>4. <<c, k.id>> \notin connected
  BY <1>1, <1>3 DEF CallOK
<1>5. connected' = connected
  BY <1>2, <1>4
<1>6. DiskKept
  BY <1>2, DiskRests
<1>7. CASE loads
  <2>1. calls' = [calls EXCEPT ![c] = new]
    BY <1>1, <1>7 DEF Instantiate
  <2>2. k = [f \in CallFields |-> k[f]]
    BY <1>1 DEF CallOK
  <2>3. /\ new = [f \in CallFields |-> new[f]]
        /\ new.request = k.request /\ new.steady = k.steady /\ new.id = k.id /\ new.at = "connect" /\ new.made = c
    <3> HIDE DEF k
    <3> QED BY <2>2 DEF CallFields
  <2> HIDE DEF new
  <2>4. Providers(k.request.capability) # {} /\ k.id = FirstProvider(k.request.capability).id
    BY <1>1, <1>3 DEF CallOK
  <2>5. new.at \in Making /\ new.at \notin Using /\ new.at \notin Writing
    BY <2>3 DEF Making, Using, Writing
  <2>6. <<c, new.id>> \notin connected'
    BY <1>4, <1>5, <2>3
  <2>7. CallOK(c)' /\ calls' = [calls EXCEPT ![c] = calls'[c]]
    BY <1>2, <1>6, <2>1, <2>3, <2>4, <2>5, <2>6, MovesTo
  <2> QED BY <1>2, <1>5, <1>6, <2>7, CallKeeps
<1>8. CASE ~loads
  <2>1. Respond(c, Failure)
    BY <1>8 DEF Instantiate
  <2>2. Failure.status = "failure"
    BY DEF Failure
  <2>3. ~(k.request.capability = "filesystem.exists" /\ \E i \in Providers("filesystem.exists") : registered[i].loads)
    BY <1>3, <1>8, ProviderLoads
  <2> QED BY <1>2, <1>3, <1>5, <1>6, <2>1, <2>2, <2>3, RespondsWith
<1> QED BY <1>7, <1>8

LEMMA ConnectKeeps ==
  ASSUME InvokerOK, NEW c \in Callers, Connect(c)
  PROVE  InvokerOK'
<1> DEFINE k == calls[c]
           new == [k EXCEPT !.at = "perform"]
<1>1. CallOK(c) /\ calls = [d \in Callers |-> calls[d]]
  BY DEF InvokerOK, CallsOK
<1>2. k.at = "connect" /\ UNCHANGED <<registry, disk>>
  BY DEF Connect
<1>3. DiskKept
  BY <1>2, DiskRests
<1>4. CASE ConnectError = None
  <2>1. /\ calls' = [calls EXCEPT ![c] = new]
        /\ cache' = Cached(c) /\ connected' = connected \cup {<<c, k.id>>}
    BY <1>1, <1>4 DEF Connect, Goto
  <2>2. InstancesOK'
    BY <2>1 DEF InvokerOK, InstancesOK, Cached
  <2>3. k = [f \in CallFields |-> k[f]]
    BY <1>1 DEF CallOK
  <2>4. /\ new = [f \in CallFields |-> new[f]]
        /\ new.request = k.request /\ new.steady = k.steady /\ new.id = k.id /\ new.made = k.made /\ new.at = "perform"
    <3> HIDE DEF k
    <3> QED BY <2>3 DEF CallFields
  <2> HIDE DEF new
  <2>5. Providers(k.request.capability) # {} /\ k.id = FirstProvider(k.request.capability).id
    BY <1>1, <1>2 DEF CallOK, Making
  <2>6. new.at \notin Making /\ new.at \in Using /\ new.at \notin Writing /\ new.at # "connect"
    BY <2>4 DEF Making, Using, Writing
  <2>7. <<new.made, new.id>> \in connected'
    BY <1>1, <1>2, <2>1, <2>4 DEF CallOK
  <2>8. CallOK(c)' /\ calls' = [calls EXCEPT ![c] = calls'[c]]
    BY <1>2, <1>3, <2>1, <2>4, <2>5, <2>6, <2>7, MovesTo
  <2>9. connected \subseteq connected' /\ \A d, id : <<d, id>> \in connected' /\ d # c => <<d, id>> \in connected
    BY <2>1
  <2> QED BY <1>2, <1>3, <2>2, <2>8, <2>9, OneCallGoesOn
<1>5. CASE ConnectError # None
  <2>1. Respond(c, Failure) /\ UNCHANGED <<cache, connected>>
    BY <1>5 DEF Connect
  <2>2. Failure.status = "failure"
    BY DEF Failure
  <2>3. ~IsDir(Root)
    BY <1>5 DEF ConnectError
  <2>4. ~k.steady
    BY <1>1, <1>2, <2>3 DEF CallOK, SteadyRequests
  <2> QED BY <1>2, <1>3, <2>1, <2>2, <2>4, RespondsWith
<1> QED BY <1>4, <1>5

\* What a connected connector answers is an answer.
LEMMA ReadAnswers ==
  ASSUME NEW operation \in Operations \ {"filesystem.write_text"}, NEW path
  PROVE  Read(TRUE, operation, path).error # "ConnectorLifecycleError"
<1>1. None # "ConnectorLifecycleError"
  BY NoneAssumption DEF Errors
<1>2. operation \in {"filesystem.read_text", "filesystem.exists", "filesystem.list_directory"}
  BY DEF Operations
<1>3. ResolveError(TRUE, path) \in {None, "ValueError"}
  BY DEF ResolveError
<1>4. ReadText(path).error # "ConnectorLifecycleError"
  BY <1>1 DEF ReadText, Raise, Ok
<1>5. Exists(path).error # "ConnectorLifecycleError"
  BY <1>1 DEF Exists, Ok
<1>6. ListDirectory(path).error # "ConnectorLifecycleError"
  BY <1>1 DEF ListDirectory, Raise, Ok
<1> QED BY <1>2, <1>3, <1>4, <1>5, <1>6 DEF Read, Raise

LEMMA Responds ==
  ASSUME NEW answer, answer.error # "ConnectorLifecycleError"
  PROVE  Response(answer).status # "raised" /\ (answer.error = None => Response(answer).status = "success")
BY DEF Response

LEMMA PerformKeeps ==
  ASSUME InvokerOK, NEW c \in Callers, Perform(c)
  PROVE  InvokerOK'
<1> DEFINE k == calls[c]
           capability == k.request.capability
           answer == IF capability \in Operations THEN Read(IsConnected(c), capability, k.request.path)
                     ELSE Raise("unknown operation")
<1>1. CallOK(c)
  BY DEF InvokerOK, CallsOK
<1>2. /\ k.at = "perform" /\ capability # "filesystem.write_text" /\ Respond(c, Response(answer))
      /\ UNCHANGED <<registry, connected, cache, disk>>
  BY DEF Perform
<1>3. IsConnected(c) /\ (k.steady => k.request \in SteadyRequests)
  BY <1>1, <1>2 DEF CallOK, Using, IsConnected
<1>4. answer.error # "ConnectorLifecycleError"
  <2>1. CASE capability \in Operations
    <3>1. answer = Read(TRUE, capability, k.request.path)
      BY <1>3, <2>1
    <3>2. Read(TRUE, capability, k.request.path).error # "ConnectorLifecycleError"
      BY <1>2, <2>1, ReadAnswers
    <3> QED BY <3>1, <3>2
  <2>2. CASE capability \notin Operations
    BY <2>2 DEF Raise
  <2> QED BY <2>1, <2>2
<1>5. ASSUME k.steady, capability = "filesystem.exists" PROVE answer.error = None
  <2>1. ~Escapes(k.request.path)
    BY <1>3, <1>5 DEF SteadyRequests
  <2>2. answer = Exists(k.request.path)
    <3>1. answer = Read(TRUE, "filesystem.exists", k.request.path)
      BY <1>3, <1>5 DEF Operations
    <3>2. ResolveError(TRUE, k.request.path) = None
      BY <2>1 DEF ResolveError
    <3> QED BY <3>1, <3>2 DEF Read
  <2>3. Exists(k.request.path).error = None
    BY DEF Exists, Ok
  <2> HIDE DEF answer
  <2> QED BY <2>2, <2>3
<1> HIDE DEF answer
<1>6. Response(answer).status # "raised" /\ (answer.error = None => Response(answer).status = "success")
  BY <1>4, Responds
<1>7. DiskKept
  BY <1>2, DiskRests
<1> QED BY <1>2, <1>5, <1>6, <1>7, RespondsWith

\* A write that fails is answered.
LEMMA WriteFails ==
  ASSUME InvokerOK, NEW c \in Callers, calls[c].at # "none", calls[c].request.capability = "filesystem.write_text",
         NEW answer, answer.error # "ConnectorLifecycleError", Respond(c, Response(answer)),
         UNCHANGED <<registry, connected, cache>>, DiskKept
  PROVE  InvokerOK'
<1>1. Response(answer).status # "raised"
  BY Responds
<1> QED BY <1>1, RespondsWith

\* A write goes on.
LEMMA WriteGoesOn ==
  ASSUME InvokerOK, NEW c \in Callers, calls[c].at \in Using, calls[c].request.capability = "filesystem.write_text",
         NEW place \in Writing, Goto(c, place), UNCHANGED <<registry, connected, cache>>, DiskKept
  PROVE  InvokerOK'
<1> DEFINE k == calls[c]
           new == [k EXCEPT !.at = place]
<1>1. CallOK(c) /\ calls = [d \in Callers |-> calls[d]]
  BY DEF InvokerOK, CallsOK
<1>2. calls' = [calls EXCEPT ![c] = new]
  BY <1>1 DEF Goto
<1>3. k = [f \in CallFields |-> k[f]]
  BY <1>1 DEF CallOK
<1>4. /\ new = [f \in CallFields |-> new[f]]
      /\ new.request = k.request /\ new.steady = k.steady /\ new.id = k.id /\ new.made = k.made /\ new.at = place
  <2> HIDE DEF k
  <2> QED BY <1>3 DEF CallFields
<1> HIDE DEF new
<1>5. Providers(k.request.capability) # {} /\ k.id = FirstProvider(k.request.capability).id
  BY <1>1 DEF CallOK
<1>6. new.at \notin Making /\ new.at \in Using /\ new.at # "connect"
  BY <1>4 DEF Making, Using, Writing
<1>7. <<new.made, new.id>> \in connected'
  BY <1>1, <1>4 DEF CallOK
<1>8. k.at \notin {"none", "answered"}
  BY DEF Using, Writing
<1>9. CallOK(c)' /\ calls' = [calls EXCEPT ![c] = calls'[c]]
  BY <1>2, <1>4, <1>5, <1>6, <1>7, <1>8, MovesTo
<1> QED BY <1>9, CallKeeps

LEMMA PerformMkdirKeeps ==
  ASSUME InvokerOK, NEW c \in Callers, PerformMkdir(c)
  PROVE  InvokerOK'
<1> DEFINE path == calls[c].request.path
           error == ResolveError(IsConnected(c), path)
<1>1. CallOK(c)
  BY DEF InvokerOK, CallsOK
<1>2. /\ calls[c].at = "perform" /\ calls[c].request.capability = "filesystem.write_text"
      /\ UNCHANGED <<registry, connected, cache>>
  BY DEF PerformMkdir
<1>3. calls[c].at \in Using /\ calls[c].at # "none"
  BY <1>2 DEF Using
<1>4. IsConnected(c)
  BY <1>1, <1>3 DEF CallOK, IsConnected
<1>5. CASE error # None
  <2>1. Respond(c, Response(Raise(error))) /\ UNCHANGED disk
    BY <1>5 DEF PerformMkdir
  <2>2. Raise(error).error # "ConnectorLifecycleError"
    BY <1>4, <1>5 DEF ResolveError, Raise
  <2> QED BY <1>2, <1>3, <2>1, <2>2, DiskRests, WriteFails
<1>6. CASE error = None /\ MkdirError(Target(c)) # None
  <2>1. Respond(c, Response(Raise(MkdirError(Target(c))))) /\ UNCHANGED disk
    BY <1>6 DEF PerformMkdir
  <2>2. Raise(MkdirError(Target(c))).error # "ConnectorLifecycleError"
    BY <1>6 DEF MkdirError, Raise
  <2> QED BY <1>2, <1>3, <2>1, <2>2, DiskRests, WriteFails
<1>7. CASE error = None /\ MkdirError(Target(c)) = None
  <2>1. disk' = WithParents(Target(c)) /\ Goto(c, "truncate")
    BY <1>7 DEF PerformMkdir
  <2>2. DiskKept
    BY <2>1 DEF DiskKept, WithParents, IsDir, Dir, Outside
  <2>3. "truncate" \in Writing
    BY DEF Writing
  <2> QED BY <1>2, <1>3, <2>1, <2>2, <2>3, WriteGoesOn
<1> QED BY <1>5, <1>6, <1>7

\* Text goes where there is no directory.
LEMMA TextKeepsDisk ==
  ASSUME NEW path, NEW text, ~IsDir(path), text # Outside, disk' = WithText(path, text)
  PROVE  DiskKept
BY DEF DiskKept, WithText, IsDir

LEMMA PerformTruncateKeeps ==
  ASSUME InvokerOK, NEW c \in Callers, PerformTruncate(c)
  PROVE  InvokerOK'
<1>1. CallOK(c)
  BY DEF InvokerOK, CallsOK
<1>2. calls[c].at = "truncate" /\ UNCHANGED <<registry, connected, cache>>
  BY DEF PerformTruncate
<1>3. calls[c].at \in Using /\ calls[c].at # "none" /\ calls[c].at \in Writing
  BY <1>2 DEF Using, Writing
<1>4. calls[c].request.capability = "filesystem.write_text"
  BY <1>1, <1>3 DEF CallOK
<1>5. CASE WriteError(Target(c)) # None
  <2>1. Respond(c, Response(Raise(WriteError(Target(c))))) /\ UNCHANGED disk
    BY <1>5 DEF PerformTruncate
  <2>2. Raise(WriteError(Target(c))).error # "ConnectorLifecycleError"
    BY <1>5 DEF WriteError, Raise
  <2> QED BY <1>2, <1>3, <1>4, <2>1, <2>2, DiskRests, WriteFails
<1>6. CASE WriteError(Target(c)) = None
  <2>1. disk' = WithText(Target(c), Empty) /\ Goto(c, "write")
    BY <1>6 DEF PerformTruncate
  <2>2. ~IsDir(Target(c))
    BY <1>6, NoneAssumption DEF WriteError, Errors, OSErrors
  <2>3. Empty # Outside
    BY DEF Empty, Outside
  <2>4. DiskKept
    BY <2>1, <2>2, <2>3, TextKeepsDisk
  <2>5. "write" \in Writing
    BY DEF Writing
  <2> QED BY <1>2, <1>3, <1>4, <2>1, <2>4, <2>5, WriteGoesOn
<1> QED BY <1>5, <1>6

LEMMA PerformWriteKeeps ==
  ASSUME InvokerOK, NEW c \in Callers, PerformWrite(c)
  PROVE  InvokerOK'
<1> DEFINE request == calls[c].request
<1>1. CallOK(c)
  BY DEF InvokerOK, CallsOK
<1>2. calls[c].at = "write" /\ Respond(c, Response(Ok(None))) /\ UNCHANGED <<registry, connected, cache>>
  BY DEF PerformWrite
<1>3. calls[c].at # "none" /\ calls[c].at \in Writing
  BY <1>2 DEF Writing
<1>4. request.capability = "filesystem.write_text" /\ request \in Requests
  BY <1>1, <1>3 DEF CallOK
<1>5. Ok(None).error # "ConnectorLifecycleError"
  BY NoneAssumption DEF Ok, Errors
<1>6. DiskKept
  <2>1. CASE UNCHANGED disk
    BY <2>1, DiskRests
  <2>2. ASSUME NEW text \in {request.text, Torn}, IsFile(Target(c)), disk' = WithText(Target(c), text)
        PROVE  DiskKept
    <3>1. text # Outside
      BY <1>4, <2>2, RequestsAssumption DEF Torn, Outside
    <3>2. ~IsDir(Target(c))
      BY <2>2 DEF IsFile, IsDir
    <3> QED BY <2>2, <3>1, <3>2, TextKeepsDisk
  <2>3. UNCHANGED disk \/ \E text \in {request.text, Torn} : IsFile(Target(c)) /\ disk' = WithText(Target(c), text)
    BY DEF PerformWrite
  <2> QED BY <2>1, <2>2, <2>3
<1> QED BY <1>2, <1>3, <1>4, <1>5, <1>6, WriteFails

(* Registering.                                                            *)

\* Nobody calls before the connectors are validated.
LEMMA NoCallsYet ==
  ASSUME InvokerOK, integration # "ready", UNCHANGED <<calls, connected, cache, disk>>, RegistryOK'
  PROVE  InvokerOK'
<1>1. InstancesOK' /\ calls' = [c \in Callers |-> calls'[c]]
  BY DEF InvokerOK, InstancesOK, CallsOK
<1>2. ASSUME NEW c \in Callers PROVE CallOK(c)'
  <2>1. CallOK(c) /\ calls[c].at = "none" /\ calls'[c] = calls[c]
    BY DEF InvokerOK, CallsOK, CallOK
  <2> QED BY <2>1 DEF CallOK, Making, Using, Writing
<1> QED BY <1>1, <1>2 DEF InvokerOK, CallsOK

LEMMA RegisterKeeps ==
  ASSUME InvokerOK, Register
  PROVE  InvokerOK'
<1>1. integration = "registering" /\ UNCHANGED <<connected, cache, calls, disk>>
  BY DEF Register
<1>2. RegistryOK'
  <2>1. IsList(registered) /\ integration' # "ready"
    BY <1>1 DEF Register, InvokerOK, RegistryOK
  <2>2. registered' = registered \/ \E m : registered' = Append(registered, m)
    BY DEF Register
  <2>3. IsList(registered')
    BY <2>1, <2>2, ListAppended, ZenonT(60)
  <2> QED BY <2>1, <2>3 DEF RegistryOK, IsList
<1> QED BY <1>1, <1>2, NoCallsYet

LEMMA ValidateKeeps ==
  ASSUME InvokerOK, Validate
  PROVE  InvokerOK'
<1>1. /\ integration = "registering" /\ UNCHANGED <<registered, connected, cache, calls, disk>>
      /\ integration' = IF Ambiguous THEN "failed" ELSE "ready"
  BY DEF Validate
<1>2. Ambiguous' <=> Ambiguous
  BY <1>1 DEF Ambiguous
<1>3. RegistryOK'
  BY <1>1, <1>2 DEF InvokerOK, RegistryOK, IsList
<1> QED BY <1>1, <1>3, NoCallsYet

LEMMA InvokeKeeps ==
  ASSUME InvokerOK, NEW c \in Callers, Invoke(c)
  PROVE  InvokerOK'
BY BeginCallKeeps, NoProviderKeeps, LookupKeeps, InstantiateKeeps, ConnectKeeps, PerformKeeps,
   PerformMkdirKeeps, PerformTruncateKeeps, PerformWriteKeeps DEF Invoke

\* Somebody else changes the disk: who called goes on, knowing if the root went
\* or a link came.
LEMMA DiskBecomesKeeps ==
  ASSUME InvokerOK, NEW d, DiskBecomes(d)
  PROVE  InvokerOK'
<1>1. UNCHANGED <<registry, connected, cache>>
  BY DEF DiskBecomes
<1>2. registered' = registered /\ integration' = integration
  BY <1>1 DEF registry
<1>3. RegistryOK' /\ InstancesOK'
  BY <1>1, <1>2 DEF InvokerOK, RegistryOK, InstancesOK, Ambiguous
<1>4. \A capability : Providers(capability)' = Providers(capability)
  BY <1>2 DEF Providers
<1>5. \A capability : FirstProvider(capability)' = FirstProvider(capability)
  BY <1>2, <1>4 DEF FirstProvider
<1>6. ASSUME NEW c \in Callers PROVE CallOK(c)'
  <2> DEFINE k == calls[c]
             steady == k.request \in SteadyRequests'
             new == [k EXCEPT !.steady = @ /\ steady]
  <2>1. CallOK(c)
    BY DEF InvokerOK, CallsOK
  <2>2. calls'[c] = new
    BY DEF DiskBecomes
  <2>3. k = [f \in CallFields |-> k[f]]
    BY <2>1 DEF CallOK
  <2>4. /\ new = [f \in CallFields |-> new[f]]
        /\ new.at = k.at /\ new.request = k.request /\ new.id = k.id /\ new.made = k.made
        /\ new.response = k.response /\ new.steady = (k.steady /\ steady)
    <3> HIDE DEF k, steady
    <3> QED BY <2>3 DEF CallFields
  <2> HIDE DEF new
  <2>5. AnswerOK(calls[c]) => AnswerOK(calls[c])'
    <3>1. /\ calls'[c].response = calls[c].response /\ calls'[c].request = calls[c].request
          /\ calls'[c].steady => calls[c].steady
      BY <2>2, <2>4
    <3>2. (\E i \in Providers("filesystem.exists") : registered[i].loads)'
            <=> \E i \in Providers("filesystem.exists") : registered[i].loads
      BY <1>2, <1>4
    <3> QED BY <3>1, <3>2 DEF AnswerOK
  <2> QED BY <1>1, <1>2, <1>4, <1>5, <2>1, <2>2, <2>4, <2>5 DEF CallOK
<1>7. calls' = [c \in Callers |-> calls'[c]]
  BY DEF DiskBecomes
<1> QED BY <1>3, <1>6, <1>7 DEF InvokerOK, CallsOK

LEMMA InvokerRests ==
  ASSUME InvokerOK, UNCHANGED <<invoker, disk>>
  PROVE  InvokerOK'
<1>1. UNCHANGED <<registered, integration, connected, cache, calls, disk>>
  BY DEF invoker, registry
<1> QED BY <1>1, SMTT(30) DEF InvokerOK, RegistryOK, IsList, Ambiguous, InstancesOK, CallsOK, CallOK, AnswerOK, Providers,
                    FirstProvider, SteadyRequests, IsDir, Escapes

LEMMA NextKeepsInvoker ==
  ASSUME InvokerOK, [Next]_vars
  PROVE  InvokerOK'
<1>1. CASE Edit
  BY <1>1, DiskBecomesKeeps DEF Edit
<1>2. CASE Calls
  BY <1>2, RegisterKeeps, ValidateKeeps, InvokeKeeps DEF Calls, InvokerNext
<1>3. CASE Analyse
  BY <1>3, InvokerRests DEF Analyse
<1>4. CASE ExtractFromTree
  BY <1>4, InvokerRests DEF ExtractFromTree
<1>5. CASE Commands
  BY <1>5, InvokerRests DEF Commands
<1>6. CASE UNCHANGED vars
  BY <1>6, InvokerRests DEF vars
<1> QED BY <1>1, <1>2, <1>3, <1>4, <1>5, <1>6 DEF Next

LEMMA InvokerBegins ==
  ASSUME Init
  PROVE  InvokerOK
<1>1. InvokerInit(job.manifests)
  BY DEF Init
<1>2. RegistryOK /\ InstancesOK
  BY <1>1 DEF InvokerInit, RegistryOK, InstancesOK, IsList
<1>3. \A c \in Callers : calls[c] = NoCall
  BY <1>1 DEF InvokerInit
<1>4. NoCall = [f \in CallFields |-> NoCall[f]] /\ NoCall.at = "none"
  BY DEF NoCall, CallFields
<1>5. \A c \in Callers : CallOK(c)
  BY <1>3, <1>4 DEF CallOK, Making, Using, Writing
<1>6. calls = [c \in Callers |-> calls[c]]
  BY <1>1 DEF InvokerInit
<1> QED BY <1>2, <1>5, <1>6 DEF InvokerOK, CallsOK

\* connector_invoker.py:98: for any callers, connectors, requests and edits of the
\* disk, a call is answered and never raises, and it succeeds where the root and
\* its connector are there and nothing it asks for can fail.
THEOREM CallsAlwaysAnswered == Spec => []CallsAreAnswered
<1>1. Init => InvokerOK
  BY InvokerBegins
<1>2. InvokerOK /\ [Next]_vars => InvokerOK'
  BY NextKeepsInvoker
<1>3. InvokerOK => CallsAreAnswered
  BY DEF InvokerOK, CallsOK, CallOK, AnswerOK, CallsAreAnswered
<1> QED BY <1>1, <1>2, <1>3, PTL DEF Spec

\* The path of a listing is resolved already.
LEMMA ResolvedPath ==
  ASSUME NEW path \in Paths
  PROVE  Resolved(path) = path
<1> DEFINE n == Len(path)
           upTo[i \in 0..n] == IF i = 0 THEN Root ELSE Enter(upTo[i - 1], path[i])
           prefix == [i \in 0..n |-> SubSeq(path, 1, i)]
<1>1. Resolved(path) = upTo[n]
  BY DEF Resolved
<1>2. \A i \in 1..n : path[i] # ".."
  BY NameAssumption DEF Paths
<1>3. path \in Seq(DOMAIN NameOrder)
  BY DEF Paths
<1>4. \A i \in 1..n : Enter(SubSeq(path, 1, i - 1), path[i]) = SubSeq(path, 1, i)
  BY <1>2, <1>3 DEF Enter
<1>5. prefix = [i \in 0..n |-> IF i = 0 THEN Root ELSE Enter(prefix[i - 1], path[i])]
  BY <1>3, <1>4 DEF Root
<1>6. upTo = [i \in 0..n |-> IF i = 0 THEN Root ELSE Enter(upTo[i - 1], path[i])]
  <2> HIDE DEF prefix
  <2> QED BY <1>5
<1>7. /\ upTo[0] = Root
      /\ \A i \in 1..n : upTo[i] = Enter(upTo[i - 1], path[i])
  <2>1. n \in Nat
    BY <1>3
  <2> HIDE DEF upTo, n
  <2> QED BY <1>6, <2>1
<1> HIDE DEF upTo
<1>8. \A i \in 0..n : upTo[i] = SubSeq(path, 1, i)
  <2> SUFFICES ASSUME {i \in 0..n : upTo[i] # SubSeq(path, 1, i)} # {}
               PROVE  FALSE
    OBVIOUS
  <2>1. {i \in 0..n : upTo[i] # SubSeq(path, 1, i)} \in SUBSET Nat
    BY <1>3
  <2>2. PICK i \in 0..n : upTo[i] # SubSeq(path, 1, i) /\ \A j \in 0..n : upTo[j] # SubSeq(path, 1, j) => i <= j
    BY <2>1, LeastNumber
  <2>3. i # 0
    <3>1. SubSeq(path, 1, 0) = Root
      BY <1>3 DEF Root
    <3> QED BY <1>7, <2>2, <3>1
  <2>4. i - 1 \in 0..n /\ ~(i <= i - 1) /\ i \in 1..n
    BY <1>3, <2>3
  <2>5. upTo[i - 1] = SubSeq(path, 1, i - 1)
    BY <2>2, <2>4
  <2> QED BY <1>4, <1>7, <2>2, <2>4, <2>5
<1> QED BY <1>1, <1>3, <1>8

LEMMA EscapesThroughLinks ==
  ASSUME NEW path \in Paths
  PROVE  Escapes(path) <=> \E i \in 0..Len(path) : SubSeq(path, 1, i) \in DOMAIN disk /\ disk[SubSeq(path, 1, i)] = Outside
<1>1. ".." \notin ToSet(path)
  BY NameAssumption DEF Paths, ToSet
<1> QED BY <1>1, ResolvedPath DEF Escapes

Listing(dir) == Read(TRUE, "filesystem.list_directory", dir)

\* What listing a path tells of it.
LEMMA ListingTells ==
  ASSUME NEW dir \in Paths
  PROVE  /\ \/ Listing(dir).error = "ValueError" /\ Escapes(dir)
            \/ Listing(dir).error = "NotADirectoryError" /\ ~IsDir(dir)
            \/ Listing(dir).error = "PermissionError" /\ IsDir(dir) /\ disk[dir] = Locked
            \/ Listing(dir).error = None /\ IsDir(dir) /\ disk[dir] # Locked /\ ~Escapes(dir)
         /\ Listing(dir).error = None => Listing(dir).value = {Last(p) : p \in Children(dir)}
<1>1. Resolved(dir) = dir
  BY ResolvedPath
<1>2. CASE Escapes(dir)
  <2>1. Listing(dir) = Raise("ValueError") /\ "ValueError" # None
    BY <1>2, NoneAssumption DEF Listing, Read, ResolveError, Errors
  <2>2. Listing(dir).error = "ValueError"
    BY <2>1 DEF Raise
  <2> QED BY <1>2, <2>1, <2>2
<1>3. CASE ~Escapes(dir)
  <2>1. Listing(dir) = ListDirectory(dir)
    BY <1>3 DEF Listing, Read, ResolveError
  <2>2. ~IsDir(dir) => Listing(dir) = Raise("NotADirectoryError")
    BY <1>1, <2>1 DEF ListDirectory
  <2>3. IsDir(dir) /\ disk[dir] = Locked => Listing(dir) = Raise("PermissionError")
    BY <1>1, <2>1 DEF ListDirectory
  <2>4. IsDir(dir) /\ disk[dir] # Locked => Listing(dir) = Ok({Last(p) : p \in Children(dir)})
    BY <1>1, <2>1 DEF ListDirectory
  <2>5. "NotADirectoryError" # None /\ "PermissionError" # None
    BY NoneAssumption DEF Errors, OSErrors
  <2>6. \A e : Raise(e).error = e
    BY DEF Raise
  <2>7. Ok({Last(p) : p \in Children(dir)}).error = None /\ Ok({Last(p) : p \in Children(dir)}).value = {Last(p) : p \in Children(dir)}
    BY DEF Ok
  <2> QED BY <1>3, <2>2, <2>3, <2>4, <2>5, <2>6, <2>7
<1> QED BY <1>2, <1>3

LEMMA ChildIsNamed ==
  ASSUME IsTree(disk), NEW dir \in Paths, NEW p \in Children(dir)
  PROVE  /\ Last(p) \in DOMAIN NameOrder /\ Append(dir, Last(p)) = p /\ p \in DOMAIN disk
<1>1. p \in Paths /\ Len(p) = Len(dir) + 1 /\ SubSeq(p, 1, Len(dir)) = dir /\ p \in DOMAIN disk
  BY DEF IsTree, Children
<1>2. p \in Seq(DOMAIN NameOrder) /\ dir \in Seq(DOMAIN NameOrder)
  BY <1>1 DEF Paths
<1>3. Last(p) = p[Len(dir) + 1] /\ Last(p) \in DOMAIN NameOrder
  BY <1>1, <1>2 DEF Last
<1>4. \A k \in 1..Len(dir) : p[k] = dir[k]
  <2>1. \A k \in 1..Len(dir) : SubSeq(p, 1, Len(dir))[k] = p[k]
    BY <1>1, <1>2
  <2> QED BY <1>1, <2>1
<1>5. Append(dir, Last(p)) = p
  BY <1>1, <1>2, <1>3, <1>4
<1> QED BY <1>1, <1>3, <1>5

------------------------------------------------------------------------------
(* The walk.                                                               *)

WalkFields == {"at", "request", "frames", "files", "errors", "directories", "top", "truncated", "expired"}

Frames == [dir : Paths, names : SUBSET DOMAIN NameOrder]

Walking == {"visit", "names"}
Over == {"walked", "classified", "done"}

\* What others do to the disk leaves a tree, and the history is of this disk.
DiskOK == IsTree(disk) /\ DOMAIN disk \subseteq ever /\ lasting \subseteq DOMAIN disk

\* The walk w has this shape; there is a frame as long as it goes on.
Shaped(w) ==
  /\ w = [f \in WalkFields |-> w[f]]
  /\ w.at \in {"none", "failed"} \cup Walking \cup Over
  /\ w.at # "none" => w.request.maxFiles \in Nat
  /\ w.frames \in Seq(Frames) /\ w.files \in Seq(Paths)
  /\ w.at \in Walking => w.frames # <<>>
  /\ w.at \in Over => w.frames = <<>>

Below(dir, p) == Len(dir) < Len(p) /\ \A k \in 1..Len(dir) : p[k] = dir[k]

\* Every frame is below those before it, which have gone through its name; what a
\* frame has still to go through was there.
FramesOK(frames) ==
  \A i \in 1..Len(frames) :
    /\ Len(frames[i].dir) = i - 1
    /\ \A name \in frames[i].names : Append(frames[i].dir, name) \in ever
    /\ \A j \in (i + 1)..Len(frames) : Below(frames[i].dir, frames[j].dir) /\ frames[j].dir[i] \notin frames[i].names

\* No frame is still to come to p.
PassedBy(frames, p) ==
  \A i \in 1..Len(frames) : Below(frames[i].dir, p) => p[i] \notin frames[i].names

\* Files are listed once, and were there; none is still to come.
ListedOK(w) ==
  /\ IsInjective(w.files) /\ Len(w.files) <= w.request.maxFiles
  /\ \A i \in 1..Len(w.files) :
       /\ w.files[i] \in ever /\ PassedBy(w.frames, w.files[i])
       /\ w.at = "visit" => ~Below(Last(w.frames).dir, w.files[i])

\* What a walk must tell of: what has been there all the time, within its reach.
Reachable(w, p) ==
  /\ p \in lasting /\ Prefixes(p) \subseteq lasting /\ ~Hidden(p) /\ ToSet(p) \cap w.request.exclude = {}

Told(w, p) ==
  /\ IsFile(p) => p \in ToSet(w.files)
  /\ disk[p] = Locked /\ w.request.purpose = "discovery" => p \in w.errors

ToCome(frames, p) == \E i \in 1..Len(frames) : Below(frames[i].dir, p) /\ p[i] \in frames[i].names

ToVisit(w, p) ==
  /\ w.at = "visit"
  /\ Below(Last(w.frames).dir, p) \/ (p = Last(w.frames).dir /\ disk[p] = Locked)

Complete(w) ==
  ~w.truncated => \A p \in lasting : Reachable(w, p) => Told(w, p) \/ ToCome(w.frames, p) \/ ToVisit(w, p)

GoingOn(w) ==
  /\ FramesOK(w.frames) /\ ListedOK(w) /\ Complete(w)
  /\ w.truncated => w.expired \/ Len(w.files) >= w.request.maxFiles
  /\ w.at = "visit" => Last(w.frames).names = {}

WalkIs(w) == Shaped(w) /\ (w.at \in Walking \cup Over => GoingOn(w))

WalkOK ==
  /\ job \in Jobs
  /\ IF job.kind = "calls" THEN walk = NotStarted ELSE DiskOK /\ WalkIs(walk)

\* A step that leaves the disk and its history alone.
LEMMA WalkBecomes ==
  ASSUME WalkOK, job.kind # "calls", UNCHANGED <<job, disk, lasting, ever>>, NEW w, walk' = w, WalkIs(w)
  PROVE  WalkOK'
<1>1. \A p : (Hidden(p)' <=> Hidden(p)) /\ (IsFile(p)' <=> IsFile(p))
  BY DEF Hidden, IsFile
<1>2. \A v, p : (Reachable(v, p)' <=> Reachable(v, p)) /\ (Told(v, p)' <=> Told(v, p)) /\ (ToVisit(v, p)' <=> ToVisit(v, p))
  BY <1>1 DEF Reachable, Told, ToVisit
<1>3. \A v : Complete(v)' <=> Complete(v)
  BY <1>2 DEF Complete
<1>4. \A v : (FramesOK(v.frames)' <=> FramesOK(v.frames)) /\ (ListedOK(v)' <=> ListedOK(v))
  BY DEF FramesOK, ListedOK
<1>5. Shaped(w) /\ (w.at \in Walking \cup Over => GoingOn(w)')
  BY <1>3, <1>4 DEF WalkIs, GoingOn
<1>6. WalkIs(walk)'
  BY <1>5 DEF WalkIs
<1>7. DiskOK'
  BY DEF WalkOK, DiskOK, IsTree
<1> QED BY <1>6, <1>7 DEF WalkOK

LEMMA FrontOf ==
  ASSUME NEW S, NEW s \in Seq(S), s # <<>>
  PROVE  /\ Front(s) \in Seq(S) /\ Len(Front(s)) = Len(s) - 1 /\ Len(s) \in Nat \ {0}
         /\ \A i \in 1..(Len(s) - 1) : Front(s)[i] = s[i]
         /\ Last(s) = s[Len(s)] /\ Last(s) \in S
<1>1. Len(s) \in Nat \ {0} /\ s = [i \in 1..Len(s) |-> s[i]] /\ \A i \in 1..Len(s) : s[i] \in S
  OBVIOUS
<1>2. Last(s) = s[Len(s)] /\ Last(s) \in S
  BY <1>1 DEF Last
<1>3. Front(s) = SubSeq(s, 1, Len(s) - 1)
  BY DEF Front
<1>4. Front(s) \in Seq(S) /\ Len(Front(s)) = Len(s) - 1
  BY <1>1, <1>3
<1>5. \A i \in 1..(Len(s) - 1) : Front(s)[i] = s[i]
  BY <1>1, <1>3
<1> QED BY <1>1, <1>2, <1>4, <1>5

\* A visit is over.
LEMMA Returns ==
  ASSUME NEW w, Shaped(w), w.at \in Walking, FramesOK(w.frames), ListedOK(w),
         w.truncated => w.expired \/ Len(w.files) >= w.request.maxFiles,
         ~w.truncated => \A p \in lasting : Reachable(w, p) => Told(w, p) \/ ToCome(Front(w.frames), p)
  PROVE  WalkIs(AfterReturn(w))
<1> DEFINE frames == Front(w.frames)
           at == IF frames = <<>> THEN "walked" ELSE "names"
<1>1. PICK v : v = AfterReturn(w)
  OBVIOUS
<1>2. w = [f \in WalkFields |-> w[f]]
  BY DEF Shaped
<1>3. /\ v = [f \in WalkFields |-> v[f]] /\ v.frames = frames /\ v.at = at
      /\ v.request = w.request /\ v.files = w.files /\ v.errors = w.errors
      /\ v.truncated = w.truncated /\ v.expired = w.expired
  <2>1. v = [w EXCEPT !.frames = frames, !.at = at]
    BY <1>1 DEF AfterReturn
  <2> HIDE DEF frames, at
  <2> QED BY <1>2, <2>1 DEF WalkFields
<1>4. /\ frames \in Seq(Frames) /\ Len(frames) = Len(w.frames) - 1 /\ Len(w.frames) \in Nat \ {0}
      /\ \A i \in 1..(Len(w.frames) - 1) : frames[i] = w.frames[i]
  <2>1. w.frames \in Seq(Frames) /\ w.frames # <<>>
    BY DEF Shaped
  <2> QED BY <2>1, FrontOf
<1>5. at \in {"names", "walked"} /\ (at = "names" => frames # <<>>) /\ (at = "walked" => frames = <<>>)
  OBVIOUS
<1> HIDE DEF frames, at
<1>6. Shaped(v)
  BY <1>3, <1>4, <1>5 DEF Shaped, Walking, Over
<1>7. FramesOK(v.frames)
  <2>1. \A i \in 1..Len(v.frames) :
          i \in 1..Len(w.frames) /\ v.frames[i] = w.frames[i]
    BY <1>3, <1>4
  <2>2. \A i, j : j \in (i + 1)..Len(v.frames) => j \in (i + 1)..Len(w.frames)
    BY <1>3, <1>4
  <2>3. ASSUME NEW i \in 1..Len(v.frames), NEW j \in (i + 1)..Len(v.frames)
        PROVE  Below(v.frames[i].dir, v.frames[j].dir) /\ v.frames[j].dir[i] \notin v.frames[i].names
    <3>1. j \in 1..Len(v.frames)
      BY <1>3, <1>4
    <3> QED BY <2>1, <2>2, <3>1 DEF FramesOK
  <2> QED BY <2>1, <2>3 DEF FramesOK
<1>8. ListedOK(v)
  <2>1. \A p : PassedBy(w.frames, p) => PassedBy(v.frames, p)
    BY <1>3, <1>4, SMTT(30) DEF PassedBy
  <2> QED BY <1>3, <1>5, <2>1 DEF ListedOK
<1>9. Complete(v)
  <2>1. \A p : (Reachable(v, p) <=> Reachable(w, p)) /\ (Told(v, p) <=> Told(w, p))
    BY <1>3 DEF Reachable, Told
  <2> QED BY <1>3, <2>1 DEF Complete, frames
<1>10. v.at # "visit"
  BY <1>3, <1>5
<1> QED BY <1>1, <1>3, <1>6, <1>7, <1>8, <1>9, <1>10 DEF WalkIs, GoingOn

\* What is to come is to come above, or is what the last frame has next.
LEMMA ToComeAbove ==
  ASSUME NEW frames \in Seq(Frames), frames # <<>>, NEW p, ToCome(frames, p)
  PROVE  \/ ToCome(Front(frames), p)
         \/ Below(Last(frames).dir, p) /\ p[Len(frames)] \in Last(frames).names
<1>1. PICK i \in 1..Len(frames) : Below(frames[i].dir, p) /\ p[i] \in frames[i].names
  BY DEF ToCome
<1>2. /\ Len(Front(frames)) = Len(frames) - 1 /\ Last(frames) = frames[Len(frames)] /\ Len(frames) \in Nat \ {0}
      /\ \A j \in 1..(Len(frames) - 1) : Front(frames)[j] = frames[j]
  BY FrontOf
<1>3. CASE i = Len(frames)
  BY <1>1, <1>2, <1>3
<1>4. CASE i \in 1..(Len(frames) - 1)
  BY <1>1, <1>2, <1>4 DEF ToCome
<1> QED BY <1>2, <1>3, <1>4

LEMMA LeaveDirectoryKeeps ==
  ASSUME WalkOK, job.kind # "calls", UNCHANGED <<job, disk, lasting, ever>>, LeaveDirectory
  PROVE  WalkOK'
<1>1. PICK w : w = walk
  OBVIOUS
<1>2. w.at = "names" /\ Last(w.frames).names = {} /\ walk' = AfterReturn(w)
  BY <1>1 DEF LeaveDirectory, Frame
<1>3. Shaped(w) /\ w.at \in Walking /\ GoingOn(w)
  BY <1>1, <1>2 DEF WalkOK, WalkIs, Walking
<1>4. w.frames \in Seq(Frames) /\ w.frames # <<>>
  BY <1>3 DEF Shaped
<1>5. ~w.truncated => \A p \in lasting : Reachable(w, p) => Told(w, p) \/ ToCome(Front(w.frames), p)
  BY <1>2, <1>3, <1>4, ToComeAbove DEF GoingOn, Complete, ToVisit
<1>6. WalkIs(AfterReturn(w))
  BY <1>3, <1>5, Returns DEF GoingOn
<1>7. PICK v : v = AfterReturn(w)
  OBVIOUS
<1> QED BY <1>2, <1>6, <1>7, WalkBecomes

LEMMA TruncateKeeps ==
  ASSUME WalkOK, job.kind # "calls", UNCHANGED <<job, disk, lasting, ever>>, Truncate
  PROVE  WalkOK'
<1>1. PICK w : w = walk
  OBVIOUS
<1>2. PICK u : u = [w EXCEPT !.truncated = TRUE]
  OBVIOUS
<1>3. w.at = "names" /\ (w.expired \/ Len(w.files) >= w.request.maxFiles) /\ walk' = AfterReturn(u)
  BY <1>1, <1>2 DEF Truncate, MayLook, BudgetSpent
<1>4. Shaped(w) /\ GoingOn(w)
  BY <1>1, <1>3 DEF WalkOK, WalkIs, Walking
<1>5. /\ u = [f \in WalkFields |-> u[f]] /\ u.truncated = TRUE
      /\ u.at = w.at /\ u.request = w.request /\ u.frames = w.frames /\ u.files = w.files /\ u.expired = w.expired
  <2>1. w = [f \in WalkFields |-> w[f]]
    BY <1>4 DEF Shaped
  <2> QED BY <1>2, <2>1 DEF WalkFields
<1>6. Shaped(u) /\ u.at \in Walking /\ u.at # "visit"
  BY <1>3, <1>4, <1>5 DEF Shaped, Walking
<1>7. FramesOK(u.frames) /\ ListedOK(u)
  BY <1>4, <1>5 DEF GoingOn, ListedOK
<1>8. WalkIs(AfterReturn(u))
  BY <1>3, <1>5, <1>6, <1>7, Returns
<1>9. PICK v : v = AfterReturn(u)
  OBVIOUS
<1> QED BY <1>3, <1>8, <1>9, WalkBecomes

\* Frames that differ in what the last has still to go through.
SameWay(f, frames) ==
  /\ Len(f) = Len(frames) /\ Len(f) \in Nat \ {0}
  /\ \A i \in 1..(Len(f) - 1) : f[i] = frames[i]
  /\ Last(f) = f[Len(f)] /\ Last(frames) = frames[Len(f)] /\ Last(f).dir = Last(frames).dir

\* The last frame has other names to go through.
LEMMA LastNamesBecome ==
  ASSUME NEW frames \in Seq(Frames), frames # <<>>, NEW names \in SUBSET DOMAIN NameOrder,
         NEW f, f = [frames EXCEPT ![Len(frames)].names = names]
  PROVE  f \in Seq(Frames) /\ f # <<>> /\ SameWay(f, frames) /\ Last(f).names = names
<1> DEFINE n == Len(frames)
<1>1. n \in Nat \ {0} /\ frames = [i \in 1..n |-> frames[i]] /\ \A i \in 1..n : frames[i] \in Frames
  OBVIOUS
<1>2. PICK last : last = [frames[n] EXCEPT !.names = names]
  OBVIOUS
<1>3. last \in Frames /\ last.dir = frames[n].dir /\ last.names = names
  BY <1>1, <1>2 DEF Frames
<1>4. f = [frames EXCEPT ![n] = last]
  BY <1>1, <1>2
<1> HIDE DEF n
<1>5. f \in Seq(Frames) /\ Len(f) = n
  <2>1. f = [i \in 1..n |-> IF i = n THEN last ELSE frames[i]]
    BY <1>1, <1>4
  <2>2. f \in [1..n -> Frames]
    BY <1>1, <1>3, <2>1
  <2> QED BY <1>1, <2>2
<1>6. f[n] = last /\ \A i \in 1..(n - 1) : f[i] = frames[i]
  BY <1>1, <1>4
<1>7. Last(f) = f[n] /\ Last(frames) = frames[n]
  BY <1>5 DEF Last, n
<1> QED BY <1>1, <1>3, <1>5, <1>6, <1>7 DEF SameWay, n

LEMMA LastOf ==
  ASSUME NEW frames \in Seq(Frames), frames # <<>>
  PROVE  /\ Last(frames) = frames[Len(frames)] /\ Len(frames) \in Nat \ {0}
         /\ Last(frames) \in Frames /\ Last(frames).dir \in Paths /\ Last(frames).names \in SUBSET DOMAIN NameOrder
<1>1. Last(frames) = frames[Len(frames)] /\ Len(frames) \in Nat \ {0} /\ Last(frames) \in Frames
  BY FrontOf
<1> QED BY <1>1 DEF Frames

\* Frames whose last has the names of what was there are in order.
LEMMA FramesNamed ==
  ASSUME NEW f, NEW frames, SameWay(f, frames), FramesOK(frames),
         \A name \in Last(f).names : Append(Last(frames).dir, name) \in ever
  PROVE  FramesOK(f)
<1>1. \A i \in 1..Len(f) : f[i].dir = frames[i].dir
  BY DEF SameWay
<1>2. ASSUME NEW i \in 1..Len(f), NEW j \in (i + 1)..Len(f)
      PROVE  Below(f[i].dir, f[j].dir) /\ f[j].dir[i] \notin f[i].names
  <2>1. i \in 1..(Len(f) - 1) /\ j \in 1..Len(f)
    BY DEF SameWay
  <2>2. Below(frames[i].dir, frames[j].dir) /\ frames[j].dir[i] \notin frames[i].names
    BY DEF FramesOK, SameWay
  <2>3. f[i] = frames[i]
    BY <2>1 DEF SameWay
  <2> QED BY <1>1, <2>1, <2>2, <2>3
<1>3. ASSUME NEW i \in 1..Len(f), NEW name \in f[i].names
      PROVE  Append(f[i].dir, name) \in ever
  <2>1. CASE i = Len(f)
    BY <1>3, <2>1 DEF SameWay
  <2>2. CASE i \in 1..(Len(f) - 1)
    BY <1>3, <2>2 DEF FramesOK, SameWay
  <2> QED BY <2>1, <2>2 DEF SameWay
<1>4. \A i \in 1..Len(f) : Len(f[i].dir) = i - 1
  BY <1>1 DEF FramesOK, SameWay
<1> QED BY <1>2, <1>3, <1>4 DEF FramesOK

\* What no frame was still to come to is not come to when the last has new names
\* that are not its own.
LEMMA PassedStill ==
  ASSUME NEW f, NEW frames, SameWay(f, frames), NEW p, PassedBy(frames, p),
         Below(Last(frames).dir, p) => p[Len(frames)] \notin Last(f).names
  PROVE  PassedBy(f, p)
<1> SUFFICES ASSUME NEW i \in 1..Len(f), Below(f[i].dir, p) PROVE p[i] \notin f[i].names
  BY DEF PassedBy
<1>1. CASE i = Len(f)
  BY <1>1 DEF SameWay
<1>2. CASE i \in 1..(Len(f) - 1)
  BY <1>2 DEF PassedBy, SameWay
<1> QED BY <1>1, <1>2 DEF SameWay

\* What was to come above, or is next in the last frame, is to come.
LEMMA ToComeStill ==
  ASSUME NEW frames \in Seq(Frames), frames # <<>>, NEW f, SameWay(f, frames), NEW p,
         ToCome(Front(frames), p) \/ (Below(Last(frames).dir, p) /\ p[Len(frames)] \in Last(f).names)
  PROVE  ToCome(f, p)
<1>1. /\ Len(Front(frames)) = Len(frames) - 1
      /\ \A j \in 1..(Len(frames) - 1) : Front(frames)[j] = frames[j]
  BY FrontOf
<1>2. CASE Below(Last(frames).dir, p) /\ p[Len(frames)] \in Last(f).names
  <2>1. Len(f) \in 1..Len(f)
    BY DEF SameWay
  <2> QED BY <1>2, <2>1 DEF ToCome, SameWay
<1>3. CASE ToCome(Front(frames), p)
  <2>1. PICK i \in 1..(Len(frames) - 1) : Below(frames[i].dir, p) /\ p[i] \in frames[i].names
    BY <1>1, <1>3 DEF ToCome
  <2>2. i \in 1..Len(f) /\ f[i] = frames[i]
    BY DEF SameWay
  <2> QED BY <2>1, <2>2 DEF ToCome
<1> QED BY <1>2, <1>3

\* What there is above a path that has been there all the time can be listed, and
\* tells the way to it.
LEMMA WayIsListed ==
  ASSUME DiskOK, NEW w, NEW p, Reachable(w, p), NEW dir \in Paths, Below(dir, p)
  PROVE  /\ Listing(dir).error = None /\ p[Len(dir) + 1] \in Listing(dir).value
         /\ Append(dir, p[Len(dir) + 1]) = SubSeq(p, 1, Len(dir) + 1) /\ p \in Paths
<1> DEFINE n == Len(p)
           m == Len(dir)
<1>1. p \in DOMAIN disk /\ Prefixes(p) \subseteq DOMAIN disk /\ p \in Paths
  BY DEF Reachable, DiskOK, IsTree
<1>2. p \in Seq(DOMAIN NameOrder) /\ dir \in Seq(DOMAIN NameOrder) /\ n \in Nat /\ m \in Nat /\ m < n
  BY <1>1 DEF Paths, Below
<1>3. \A i \in 0..n : SubSeq(p, 1, i) \in DOMAIN disk
  BY <1>1 DEF Prefixes
<1>4. ASSUME NEW i \in 0..(n - 1)
      PROVE  SubSeq(p, 1, i) \in DOMAIN disk /\ disk[SubSeq(p, 1, i)] = Dir
  <2>1. SubSeq(p, 1, i) \in DOMAIN disk /\ SubSeq(p, 1, i + 1) \in DOMAIN disk
    <3>1. i \in 0..n /\ i + 1 \in 0..n
      BY <1>2
    <3> QED BY <1>3, <3>1
  <2>2. disk[SubSeq(p, 1, i)] # Locked
    BY <1>2 DEF Reachable, Hidden, Parents
  <2>3. SubSeq(p, 1, i + 1) # Root /\ Front(SubSeq(p, 1, i + 1)) = SubSeq(p, 1, i)
    BY <1>2 DEF Front, Root
  <2>4. disk[SubSeq(p, 1, i)] \in {Dir, Locked}
    BY <2>1, <2>3 DEF DiskOK, IsTree
  <2> QED BY <2>1, <2>2, <2>4
<1>5. \A i \in 0..m : SubSeq(dir, 1, i) = SubSeq(p, 1, i)
  BY <1>2 DEF Below
<1>6. dir = SubSeq(dir, 1, m)
  BY <1>2
<1>7. \A i \in 0..m : i \in 0..(n - 1)
  BY <1>2
<1>8. dir = SubSeq(p, 1, m) /\ m \in 0..(n - 1)
  BY <1>2, <1>5, <1>6, <1>7
<1>9. dir \in DOMAIN disk /\ disk[dir] = Dir
  BY <1>4, <1>8
<1>10. ~Escapes(dir)
  <2>1. \A i \in 0..m : disk[SubSeq(dir, 1, i)] # Outside
    BY <1>4, <1>5, <1>7 DEF Dir, Outside
  <2> QED BY <2>1, EscapesThroughLinks
<1>11. IsDir(dir) /\ disk[dir] # Locked
  BY <1>9 DEF IsDir, Dir, Locked
<1>12. Listing(dir).error = None /\ Listing(dir).value = {Last(q) : q \in Children(dir)}
  BY <1>10, <1>11, ListingTells
<1> DEFINE child == SubSeq(p, 1, m + 1)
<1>13. child \in DOMAIN disk
  <2>1. m + 1 \in 0..n
    BY <1>2
  <2> QED BY <1>3, <2>1
<1>14. Len(child) = m + 1 /\ SubSeq(child, 1, m) = SubSeq(p, 1, m) /\ Last(child) = p[m + 1]
  BY <1>2 DEF Last
<1>15. child \in Children(dir)
  BY <1>13, <1>14, <1>8 DEF Children
<1>16. Append(dir, p[m + 1]) = child
  BY <1>14, <1>15, ChildIsNamed DEF DiskOK
<1> QED BY <1>1, <1>12, <1>14, <1>15, <1>16

LEMMA VisitFinds ==
  ASSUME DiskOK, NEW w, Shaped(w), GoingOn(w), w.at = "visit", NEW dir, dir = Last(w.frames).dir,
         Listing(dir).error = None, NEW u,
         u = [w EXCEPT !.at = "names", !.frames[Len(w.frames)].names = Listing(dir).value]
  PROVE  WalkIs(u)
<1> DEFINE n == Len(w.frames)
<1>1. w.frames \in Seq(Frames) /\ w.frames # <<>> /\ w = [f \in WalkFields |-> w[f]]
  BY DEF Shaped, Walking
<1>2. dir \in Paths /\ Last(w.frames) = w.frames[n] /\ n \in Nat \ {0}
  BY <1>1, LastOf
<1>3. PICK names : names = Listing(dir).value
  OBVIOUS
<1>4. names = {Last(p) : p \in Children(dir)} /\ disk[dir] # Locked
  BY <1>2, <1>3, ListingTells, NoneAssumption DEF Errors, OSErrors
<1>5. names \in SUBSET DOMAIN NameOrder /\ \A name \in names : Append(dir, name) \in ever
  <2>1. ASSUME NEW q \in Children(dir) PROVE Last(q) \in DOMAIN NameOrder /\ Append(dir, Last(q)) \in ever
    BY <1>2, ChildIsNamed DEF DiskOK
  <2> QED BY <1>4, <2>1
<1>6. PICK f : f = [w.frames EXCEPT ![n].names = names]
  OBVIOUS
<1>7. /\ u = [g \in WalkFields |-> u[g]] /\ u.at = "names" /\ u.frames = f
      /\ u.request = w.request /\ u.files = w.files /\ u.errors = w.errors
      /\ u.truncated = w.truncated /\ u.expired = w.expired
  <2>1. u = [w EXCEPT !.at = "names", !.frames = f]
    BY <1>1, <1>3, <1>6 DEF WalkFields
  <2> HIDE DEF n
  <2> QED BY <1>1, <2>1 DEF WalkFields
<1>8. f \in Seq(Frames) /\ f # <<>> /\ SameWay(f, w.frames) /\ Last(f).names = names
  <2>1. PICK frames : frames = w.frames
    OBVIOUS
  <2>2. frames \in Seq(Frames) /\ frames # <<>> /\ names \in SUBSET DOMAIN NameOrder
    BY <1>1, <1>5, <2>1
  <2>3. f = [frames EXCEPT ![Len(frames)].names = names]
    BY <1>6, <2>1
  <2>4. f \in Seq(Frames) /\ f # <<>> /\ SameWay(f, frames) /\ Last(f).names = names
    BY <2>2, <2>3, LastNamesBecome
  <2> QED BY <2>1, <2>4
<1>9. FramesOK(f)
  BY <1>5, <1>8, FramesNamed DEF GoingOn
<1>10. ListedOK(u)
  <2>1. ASSUME NEW i \in 1..Len(w.files) PROVE PassedBy(f, w.files[i])
    <3>1. PassedBy(w.frames, w.files[i]) /\ ~Below(Last(w.frames).dir, w.files[i])
      BY DEF GoingOn, ListedOK
    <3>2. PICK p : p = w.files[i]
      OBVIOUS
    <3>3. PassedBy(f, p)
      BY <1>8, <3>1, <3>2, PassedStill
    <3> QED BY <3>2, <3>3
  <2> QED BY <1>7, <2>1 DEF GoingOn, ListedOK
<1>11. Complete(u)
  <2> SUFFICES ASSUME ~w.truncated, NEW p \in lasting, Reachable(w, p), ~Told(w, p) PROVE ToCome(f, p)
    BY <1>7 DEF Complete, Reachable, Told
  <2>1. ToCome(w.frames, p) \/ ToVisit(w, p)
    BY DEF GoingOn, Complete
  <2>2. CASE ToCome(w.frames, p)
    <3>1. Last(w.frames).names = {}
      BY DEF GoingOn
    <3>2. ToCome(Front(w.frames), p)
      BY <1>1, <2>2, <3>1, ToComeAbove
    <3> QED BY <1>1, <1>8, <3>2, ToComeStill
  <2>3. CASE ToVisit(w, p)
    <3>1. Below(dir, p)
      BY <1>4, <2>3 DEF ToVisit
    <3>2. p[Len(dir) + 1] \in names
      BY <1>2, <1>3, <3>1, WayIsListed
    <3>3. Len(dir) + 1 = n
      <4>1. n \in 1..Len(w.frames)
        BY <1>2
      <4>2. Len(w.frames[n].dir) = n - 1
        BY <4>1 DEF GoingOn, FramesOK
      <4> QED BY <1>2, <4>2
    <3> QED BY <1>1, <1>8, <3>1, <3>2, <3>3, ToComeStill
  <2> QED BY <2>1, <2>2, <2>3
<1>12. Shaped(u)
  BY <1>7, <1>8 DEF Shaped, Walking, Over
<1> QED BY <1>7, <1>9, <1>10, <1>11, <1>12 DEF WalkIs, GoingOn

LEMMA VisitErrs ==
  ASSUME DiskOK, NEW w, Shaped(w), GoingOn(w), w.at = "visit", NEW dir, dir = Last(w.frames).dir,
         Listing(dir).error # None, NEW errors,
         w.errors \subseteq errors, w.request.purpose = "discovery" => dir \in errors, NEW u,
         u = [w EXCEPT !.errors = errors]
  PROVE  WalkIs(AfterReturn(u))
<1>1. w.frames \in Seq(Frames) /\ w.frames # <<>> /\ w = [f \in WalkFields |-> w[f]]
  BY DEF Shaped, Walking
<1>2. dir \in Paths
  BY <1>1, LastOf
<1>3. /\ u = [g \in WalkFields |-> u[g]] /\ u.at = "visit" /\ u.frames = w.frames
      /\ u.request = w.request /\ u.files = w.files /\ u.errors = errors
      /\ u.truncated = w.truncated /\ u.expired = w.expired
  BY <1>1 DEF WalkFields
<1>4. Shaped(u) /\ u.at \in Walking
  BY <1>3 DEF Shaped, Walking
<1>5. FramesOK(u.frames) /\ ListedOK(u)
  BY <1>3 DEF GoingOn, ListedOK
<1>6. ~u.truncated => \A p \in lasting : Reachable(u, p) => Told(u, p) \/ ToCome(Front(u.frames), p)
  <2> SUFFICES ASSUME ~w.truncated, NEW p \in lasting, Reachable(w, p), ~Told(u, p) PROVE ToCome(Front(w.frames), p)
    BY <1>3 DEF Reachable
  <2>1. ~Told(w, p)
    BY <1>3 DEF Told
  <2>2. ToCome(w.frames, p) \/ ToVisit(w, p)
    BY <2>1 DEF GoingOn, Complete
  <2>3. CASE ToCome(w.frames, p)
    BY <1>1, <2>3, ToComeAbove DEF GoingOn
  <2>4. CASE Below(dir, p)
    BY <1>2, <2>4, WayIsListed
  <2>5. CASE p = dir /\ disk[p] = Locked
    BY <1>3, <2>5 DEF Told, IsFile
  <2> QED BY <2>2, <2>3, <2>4, <2>5 DEF ToVisit
<1>7. u.truncated => u.expired \/ Len(u.files) >= u.request.maxFiles
  BY <1>3 DEF GoingOn
<1> QED BY <1>4, <1>5, <1>6, <1>7, Returns

LEMMA WalkFails ==
  ASSUME NEW w, Shaped(w), w.at # "none", NEW u, u = [w EXCEPT !.at = "failed"]
  PROVE  WalkIs(u)
<1>1. w = [f \in WalkFields |-> w[f]]
  BY DEF Shaped
<1>2. /\ u = [g \in WalkFields |-> u[g]] /\ u.at = "failed" /\ u.frames = w.frames
      /\ u.request = w.request /\ u.files = w.files
  BY <1>1 DEF WalkFields
<1> QED BY <1>2 DEF WalkIs, Shaped, Walking, Over

LEMMA VisitKeeps ==
  ASSUME WalkOK, job.kind # "calls", UNCHANGED <<job, disk, lasting, ever>>, Visit
  PROVE  WalkOK'
<1>1. PICK w : w = walk
  OBVIOUS
<1>2. w.at = "visit" /\ Shaped(w) /\ GoingOn(w) /\ DiskOK
  BY <1>1 DEF Visit, WalkOK, WalkIs, Walking
<1>3. PICK dir : dir = Last(w.frames).dir
  OBVIOUS
<1>4. Frame.dir = dir
  BY <1>1, <1>3 DEF Frame
<1>5. CASE Listing(dir).error = None
  <2>1. walk' = [w EXCEPT !.at = "names", !.frames[Len(w.frames)].names = Listing(dir).value]
    BY <1>1, <1>4, <1>5 DEF Visit, Listing
  <2>2. PICK u : u = [w EXCEPT !.at = "names", !.frames[Len(w.frames)].names = Listing(dir).value]
    OBVIOUS
  <2>3. WalkIs(u)
    BY <1>2, <1>3, <1>5, <2>2, VisitFinds
  <2> QED BY <2>1, <2>2, <2>3, WalkBecomes
<1>6. CASE Listing(dir).error # None /\ Listing(dir).error \in OSErrors
  <2>1. walk' = AfterReturn([w EXCEPT !.errors = Erred(dir)])
    BY <1>1, <1>4, <1>6 DEF Visit, Listing
  <2>2. PICK errors : errors = Erred(dir)
    OBVIOUS
  <2>3. w.errors \subseteq errors /\ (w.request.purpose = "discovery" => dir \in errors)
    BY <1>1, <2>2 DEF Erred, ForDiscovery
  <2>4. PICK u : u = [w EXCEPT !.errors = errors]
    OBVIOUS
  <2>5. WalkIs(AfterReturn(u))
    BY <1>2, <1>3, <1>6, <2>3, <2>4, VisitErrs
  <2>6. PICK v : v = AfterReturn(u)
    OBVIOUS
  <2> QED BY <2>1, <2>2, <2>4, <2>5, <2>6, WalkBecomes
<1>7. CASE Listing(dir).error # None /\ Listing(dir).error \notin OSErrors
  <2>1. walk' = [w EXCEPT !.at = "failed"]
    BY <1>1, <1>4, <1>7 DEF Visit, Listing
  <2>2. PICK u : u = [w EXCEPT !.at = "failed"]
    OBVIOUS
  <2>3. WalkIs(u)
    BY <1>2, <2>2, WalkFails
  <2> QED BY <2>1, <2>2, <2>3, WalkBecomes
<1> QED BY <1>5, <1>6, <1>7

\* The name that comes next is one of those to go through.
LEMMA NextName ==
  ASSUME Frame.names \in SUBSET DOMAIN NameOrder, Frame.names # {}
  PROVE  Name \in Frame.names
<1>1. \A name \in Frame.names : NameOrder[name] \in Nat
  BY NameAssumption
<1>2. {NameOrder[name] : name \in Frame.names} \in SUBSET Nat /\ {NameOrder[name] : name \in Frame.names} # {}
  BY <1>1
<1>3. \E x \in {NameOrder[name] : name \in Frame.names} : \A y \in {NameOrder[name] : name \in Frame.names} : x <= y
  BY <1>2, LeastNumber
<1>4. \E name \in Frame.names : \A other \in Frame.names : NameOrder[name] <= NameOrder[other]
  BY <1>3
<1> QED BY <1>4 DEF Name

\* The next thing in the directory d is c; v is the walk w without it.
Takes(w, v, name, c) ==
  /\ Shaped(w) /\ GoingOn(w) /\ w.at = "names" /\ name \in Last(w.frames).names
  /\ Shaped(v) /\ v.at = "names" /\ SameWay(v.frames, w.frames)
  /\ Last(v.frames).names = Last(w.frames).names \ {name}
  /\ v.request = w.request /\ v.files = w.files /\ v.errors = w.errors
  /\ v.truncated = w.truncated /\ v.expired = w.expired
  /\ c = Append(Last(w.frames).dir, name)

LEMMA NameTaken ==
  ASSUME NEW w, Shaped(w), GoingOn(w), w.at = "names", NEW name \in Last(w.frames).names, NEW v,
         v = [w EXCEPT !.frames[Len(w.frames)].names = @ \ {name}]
  PROVE  Takes(w, v, name, Append(Last(w.frames).dir, name))
<1>1. w.frames \in Seq(Frames) /\ w.frames # <<>> /\ w = [f \in WalkFields |-> w[f]]
  BY DEF Shaped, Walking
<1>2. PICK frames : frames = w.frames
  OBVIOUS
<1>3. /\ Last(frames) = frames[Len(frames)] /\ Last(frames).names \in SUBSET DOMAIN NameOrder
      /\ frames \in Seq(Frames) /\ frames # <<>>
  BY <1>1, <1>2, LastOf
<1>4. PICK names : names = Last(frames).names \ {name}
  OBVIOUS
<1>5. PICK f : f = [frames EXCEPT ![Len(frames)].names = names]
  OBVIOUS
<1>6. names \in SUBSET DOMAIN NameOrder
  BY <1>3, <1>4
<1>7. f \in Seq(Frames) /\ f # <<>> /\ SameWay(f, frames) /\ Last(f).names = names
  <2>1. frames \in Seq(Frames) /\ frames # <<>>
    BY <1>3
  <2> QED BY <1>5, <1>6, <2>1, LastNamesBecome
<1>8. v = [w EXCEPT !.frames = f]
  BY <1>1, <1>2, <1>3, <1>4, <1>5 DEF WalkFields
<1>9. /\ v = [g \in WalkFields |-> v[g]] /\ v.at = "names" /\ v.frames = f
      /\ v.request = w.request /\ v.files = w.files /\ v.errors = w.errors
      /\ v.truncated = w.truncated /\ v.expired = w.expired
  BY <1>1, <1>8 DEF WalkFields
<1>10. Shaped(v)
  BY <1>7, <1>9 DEF Shaped, Walking, Over
<1> QED BY <1>2, <1>4, <1>7, <1>9, <1>10 DEF Takes

\* Without the next name, all is in order but for what it leads to.
LEMMA WithoutIt ==
  ASSUME NEW w, NEW v, NEW name, NEW c, Takes(w, v, name, c)
  PROVE  /\ v.frames \in Seq(Frames) /\ v.frames # <<>> /\ Last(v.frames).dir \in Paths
         /\ Len(Last(v.frames).dir) + 1 = Len(v.frames)
         /\ FramesOK(v.frames) /\ ListedOK(v) /\ c \in Paths /\ c \in ever
         /\ \A p : ToCome(w.frames, p) => \/ ToCome(v.frames, p)
                                          \/ Below(Last(v.frames).dir, p) /\ p[Len(v.frames)] = name
<1>1. v.frames \in Seq(Frames) /\ v.frames # <<>> /\ w.frames \in Seq(Frames) /\ w.frames # <<>>
  BY DEF Takes, Shaped, Walking
<1>2. /\ Last(v.frames).dir \in Paths /\ Last(w.frames).dir = Last(v.frames).dir
      /\ Last(w.frames).names \in SUBSET DOMAIN NameOrder /\ Last(w.frames) = w.frames[Len(w.frames)]
      /\ Len(w.frames) \in Nat \ {0} /\ Len(v.frames) = Len(w.frames)
  BY <1>1, LastOf DEF Takes, SameWay
<1>3. /\ Len(Last(w.frames).dir) = Len(w.frames) - 1
      /\ \A m \in Last(w.frames).names : Append(Last(w.frames).dir, m) \in ever
  <2>1. Len(w.frames) \in 1..Len(w.frames) /\ FramesOK(w.frames)
    BY <1>2 DEF Takes, GoingOn
  <2> QED BY <1>2, <2>1 DEF FramesOK
<1>4. c \in Paths /\ c \in ever
  BY <1>2, <1>3 DEF Takes, Paths
<1>5. FramesOK(v.frames)
  BY <1>3, FramesNamed DEF Takes, GoingOn
<1>6. \A p : PassedBy(w.frames, p) => PassedBy(v.frames, p)
  <2> SUFFICES ASSUME NEW p, PassedBy(w.frames, p) PROVE PassedBy(v.frames, p)
    OBVIOUS
  <2>1. Below(Last(w.frames).dir, p) => p[Len(w.frames)] \notin Last(w.frames).names
    <3>1. Len(w.frames) \in 1..Len(w.frames)
      BY <1>2
    <3> QED BY <1>2, <3>1 DEF PassedBy
  <2>2. Below(Last(w.frames).dir, p) => p[Len(w.frames)] \notin Last(v.frames).names
    BY <2>1 DEF Takes
  <2> QED BY <2>2, PassedStill DEF Takes
<1>7. ListedOK(v)
  BY <1>6 DEF Takes, GoingOn, ListedOK
<1>8. ASSUME NEW p, ToCome(w.frames, p), ~(Below(Last(w.frames).dir, p) /\ p[Len(w.frames)] = name)
      PROVE  ToCome(v.frames, p)
  <2>1. \/ ToCome(Front(w.frames), p)
        \/ Below(Last(w.frames).dir, p) /\ p[Len(w.frames)] \in Last(w.frames).names
    BY <1>1, <1>8, ToComeAbove
  <2>2. \/ ToCome(Front(w.frames), p)
        \/ Below(Last(w.frames).dir, p) /\ p[Len(w.frames)] \in Last(v.frames).names
    BY <1>8, <2>1 DEF Takes
  <2> QED BY <1>1, <2>2, ToComeStill DEF Takes
<1> QED BY <1>1, <1>2, <1>3, <1>4, <1>5, <1>7, <1>8

\* The next thing lies on the way to whatever is below it.
LEMMA OnTheWay ==
  ASSUME DiskOK, NEW w, NEW v, NEW name, NEW c, Takes(w, v, name, c),
         NEW p, Reachable(w, p), Below(Last(v.frames).dir, p), p[Len(v.frames)] = name
  PROVE  p = c \/ Below(c, p)
<1>1. PICK dir : dir = Last(v.frames).dir
  OBVIOUS
<1>2. dir \in Paths /\ Len(dir) + 1 = Len(v.frames) /\ c = Append(dir, name)
  <2>1. Last(v.frames).dir \in Paths /\ Len(Last(v.frames).dir) + 1 = Len(v.frames)
    BY WithoutIt
  <2> QED BY <1>1, <2>1 DEF Takes, SameWay
<1>3. c = SubSeq(p, 1, Len(dir) + 1) /\ p \in Paths
  BY <1>1, <1>2, WayIsListed
<1>4. p \in Seq(DOMAIN NameOrder) /\ Len(dir) \in Nat /\ Len(p) \in Nat /\ Len(dir) < Len(p)
  BY <1>1, <1>2, <1>3 DEF Paths, Below
<1>5. Len(c) = Len(dir) + 1 /\ \A k \in 1..Len(c) : p[k] = c[k]
  BY <1>3, <1>4
<1>6. CASE Len(p) = Len(dir) + 1
  BY <1>3, <1>4, <1>6
<1>7. CASE Len(p) # Len(dir) + 1
  BY <1>4, <1>5, <1>7 DEF Below
<1> QED BY <1>6, <1>7

\* What is still to be told of when the next thing is done with, if it is told of
\* all that is there.
LEMMA CompleteWithout ==
  ASSUME DiskOK, NEW w, NEW v, NEW name, NEW c, Takes(w, v, name, c), NEW u,
         u.request = w.request, u.truncated = w.truncated, \A p : ToCome(v.frames, p) => ToCome(u.frames, p),
         \A p : Told(w, p) => Told(u, p),
         \A p \in lasting : Reachable(w, p) /\ (p = c \/ Below(c, p)) /\ p[Len(v.frames)] = name /\ Below(Last(v.frames).dir, p)
                              => Told(u, p) \/ ToVisit(u, p)
  PROVE  Complete(u)
<1> SUFFICES ASSUME ~w.truncated, NEW p \in lasting, Reachable(w, p)
             PROVE  Told(u, p) \/ ToCome(u.frames, p) \/ ToVisit(u, p)
  BY DEF Complete, Reachable
<1>1. Told(w, p) \/ ToCome(w.frames, p)
  BY DEF Takes, GoingOn, Complete, ToVisit
<1>2. CASE Told(w, p)
  BY <1>2
<1>3. CASE ToCome(v.frames, p)
  BY <1>3
<1>4. CASE Below(Last(v.frames).dir, p) /\ p[Len(v.frames)] = name
  <2>1. p = c \/ Below(c, p)
    BY <1>4, OnTheWay
  <2> QED BY <1>4, <2>1
<1> QED BY <1>1, <1>2, <1>3, <1>4, WithoutIt

\* A name that is excluded leads to nothing the walk must tell of.
LEMMA Excluded ==
  ASSUME DiskOK, NEW w, NEW v, NEW name, NEW c, Takes(w, v, name, c), name \in w.request.exclude
  PROVE  WalkIs(v)
<1>1. \A p : ~(Reachable(w, p) /\ p[Len(v.frames)] = name /\ Below(Last(v.frames).dir, p))
  <2> SUFFICES ASSUME NEW p, Reachable(w, p), p[Len(v.frames)] = name, Below(Last(v.frames).dir, p) PROVE FALSE
    OBVIOUS
  <2>1. p \in Paths
    BY DEF DiskOK, IsTree, Reachable
  <2>2. Len(v.frames) \in 1..Len(p)
    <3>1. Last(v.frames).dir \in Paths /\ Len(Last(v.frames).dir) + 1 = Len(v.frames)
      BY WithoutIt
    <3>2. Len(p) \in Nat /\ Len(Last(v.frames).dir) \in Nat
      BY <2>1, <3>1 DEF Paths
    <3> QED BY <3>1, <3>2 DEF Below
  <2>3. name \in ToSet(p)
    BY <2>1, <2>2 DEF ToSet, Paths
  <2> QED BY <2>3 DEF Reachable
<1>2. \A p : Told(w, p) => Told(v, p)
  BY DEF Told, Takes
<1>3. Complete(v)
  BY <1>1, <1>2, CompleteWithout DEF Takes
<1>4. v.truncated => v.expired \/ Len(v.files) >= v.request.maxFiles
  BY DEF Takes, GoingOn
<1>5. FramesOK(v.frames) /\ ListedOK(v)
  BY WithoutIt
<1> QED BY <1>3, <1>4, <1>5 DEF Takes, WalkIs, GoingOn

\* What is not a directory is listed as a file.
LEMMA FileFound ==
  ASSUME DiskOK, NEW w, NEW v, NEW name, NEW c, Takes(w, v, name, c), ~IsDir(c), Listing(c).error # None,
         ~(Len(w.files) >= w.request.maxFiles), NEW u, u = [v EXCEPT !.files = Append(@, c)]
  PROVE  WalkIs(u)
<1>1. /\ c \in Paths /\ c \in ever /\ FramesOK(v.frames) /\ ListedOK(v)
      /\ Len(Last(v.frames).dir) + 1 = Len(v.frames) /\ v.frames \in Seq(Frames) /\ v.frames # <<>>
      /\ Last(v.frames).dir \in Paths
  BY WithoutIt
<1>2. PICK files1 : files1 = Append(w.files, c)
  OBVIOUS
<1>3. /\ w.files \in Seq(Paths) /\ v.files = w.files /\ v.request = w.request
      /\ v = [f \in WalkFields |-> v[f]] /\ v.at = "names"
  BY DEF Takes, Shaped
<1>4. /\ u = [f \in WalkFields |-> u[f]] /\ u.at = "names" /\ u.frames = v.frames
      /\ u.request = v.request /\ u.files = files1 /\ u.errors = v.errors
      /\ u.truncated = v.truncated /\ u.expired = v.expired
  BY <1>2, <1>3 DEF WalkFields
<1>5. /\ files1 \in Seq(Paths) /\ Len(files1) = Len(w.files) + 1 /\ Len(w.files) \in Nat
      /\ \A i \in 1..Len(w.files) : files1[i] = w.files[i]
      /\ files1[Len(w.files) + 1] = c
  BY <1>1, <1>2, <1>3
<1>6. Shaped(u)
  BY <1>4, <1>5 DEF Takes, Shaped, Walking, Over
<1>7. PassedBy(v.frames, c)
  <2> SUFFICES ASSUME NEW i \in 1..Len(v.frames) PROVE c[i] \notin v.frames[i].names
    BY DEF PassedBy
  <2>1. c = Append(Last(v.frames).dir, name) /\ Last(v.frames) = v.frames[Len(v.frames)] /\ name \notin Last(v.frames).names
    BY DEF Takes, SameWay
  <2>2. CASE i = Len(v.frames)
    <3>1. c[Len(v.frames)] = name
      BY <1>1, <2>1, SMTT(30) DEF Paths
    <3> QED BY <2>1, <2>2, <3>1
  <2>3. CASE i # Len(v.frames)
    <3>1. Len(v.frames) \in (i + 1)..Len(v.frames)
      BY <1>1, <2>3
    <3>2. Last(v.frames).dir[i] \notin v.frames[i].names
      BY <1>1, <2>1, <3>1 DEF FramesOK
    <3>3. c[i] = Last(v.frames).dir[i]
      BY <1>1, <2>1, <3>1 DEF Paths
    <3> QED BY <3>2, <3>3
  <2> QED BY <2>2, <2>3
<1>8. \A i \in 1..Len(w.files) : w.files[i] # c
  <2> SUFFICES ASSUME NEW i \in 1..Len(w.files), w.files[i] = c PROVE FALSE
    OBVIOUS
  <2>1. PassedBy(w.frames, c)
    BY DEF Takes, GoingOn, ListedOK
  <2>2. PICK dir : dir = Last(w.frames).dir
    OBVIOUS
  <2>3. /\ dir \in Paths /\ c = Append(dir, name) /\ Len(dir) + 1 = Len(w.frames)
        /\ dir = w.frames[Len(w.frames)].dir /\ name \in w.frames[Len(w.frames)].names
    BY <1>1, <2>2 DEF Takes, SameWay
  <2>4. Below(dir, c) /\ c[Len(w.frames)] = name /\ Len(w.frames) \in 1..Len(w.frames)
    BY <2>3, SMTT(30) DEF Below, Paths
  <2> QED BY <2>1, <2>3, <2>4 DEF PassedBy
<1>9. ListedOK(u)
  <2>1. IsInjective(files1)
    <3>1. IsInjective(w.files) /\ DOMAIN w.files = 1..Len(w.files) /\ DOMAIN files1 = 1..(Len(w.files) + 1)
      BY <1>3, <1>5 DEF Takes, GoingOn, ListedOK
    <3>2. \A i \in 1..(Len(w.files) + 1) : i \in 1..Len(w.files) \/ i = Len(w.files) + 1
      BY <1>5
    <3> QED BY <1>5, <1>8, <3>1, <3>2 DEF IsInjective
  <2>2. Len(files1) <= w.request.maxFiles
    <3>1. w.request.maxFiles \in Nat
      BY DEF Takes, Shaped
    <3> QED BY <1>5, <3>1
  <2>3. ASSUME NEW i \in 1..Len(files1) PROVE files1[i] \in ever /\ PassedBy(v.frames, files1[i])
    <3>1. CASE i = Len(w.files) + 1
      BY <1>1, <1>5, <1>7, <3>1
    <3>2. CASE i \in 1..Len(w.files)
      BY <1>1, <1>3, <1>5, <3>2 DEF ListedOK
    <3> QED BY <1>5, <3>1, <3>2
  <2> QED BY <1>3, <1>4, <2>1, <2>2, <2>3 DEF ListedOK
<1>10. Complete(u)
  <2>1. ToSet(w.files) \subseteq ToSet(files1) /\ c \in ToSet(files1)
    <3>1. DOMAIN w.files = 1..Len(w.files) /\ DOMAIN files1 = 1..(Len(w.files) + 1)
      BY <1>3, <1>5
    <3> QED BY <1>5, <3>1 DEF ToSet
  <2>2. \A p : Told(w, p) => Told(u, p)
    BY <1>3, <1>4, <2>1 DEF Told, Takes
  <2>3. ASSUME NEW p, Reachable(w, p), Below(c, p) PROVE FALSE
    BY <1>1, <2>3, WayIsListed
  <2>4. ASSUME Reachable(w, c) PROVE Told(u, c)
    <3>1. c \in DOMAIN disk /\ disk[c] # Locked
      BY <2>4 DEF Reachable, DiskOK, IsDir
    <3> QED BY <1>4, <2>1, <3>1 DEF Told
  <2>5. u.request = w.request /\ u.truncated = w.truncated /\ u.frames = v.frames
    BY <1>4 DEF Takes
  <2>6. \A p \in lasting : Reachable(w, p) /\ (p = c \/ Below(c, p)) => Told(u, p)
    BY <2>3, <2>4
  <2> QED BY <2>2, <2>5, <2>6, CompleteWithout
<1>11. u.truncated => u.expired \/ Len(u.files) >= u.request.maxFiles
  BY <1>3, <1>4, <1>5 DEF Takes, GoingOn
<1> QED BY <1>1, <1>4, <1>6, <1>9, <1>10, <1>11 DEF WalkIs, GoingOn

\* What cannot be listed is told of, where anything is.
LEMMA LockedFound ==
  ASSUME DiskOK, NEW w, NEW v, NEW name, NEW c, Takes(w, v, name, c), IsDir(c), disk[c] = Locked,
         Listing(c).error # None, NEW errors, w.errors \subseteq errors,
         w.request.purpose = "discovery" => c \in errors, NEW u, u = [v EXCEPT !.errors = errors]
  PROVE  WalkIs(u)
<1>1. c \in Paths /\ FramesOK(v.frames) /\ ListedOK(v)
  BY WithoutIt
<1>2. v = [f \in WalkFields |-> v[f]] /\ v.at = "names" /\ v.frames \in Seq(Frames)
  BY DEF Takes, Shaped
<1>3. /\ u = [f \in WalkFields |-> u[f]] /\ u.at = "names" /\ u.frames = v.frames
      /\ u.request = v.request /\ u.files = v.files /\ u.errors = errors
      /\ u.truncated = v.truncated /\ u.expired = v.expired
  BY <1>2 DEF WalkFields
<1>4. Shaped(u)
  BY <1>3 DEF Takes, Shaped, Walking, Over
<1>5. ListedOK(u) /\ FramesOK(u.frames)
  BY <1>1, <1>2, <1>3 DEF ListedOK
<1>6. Complete(u)
  <2>1. \A p : Told(w, p) => Told(u, p)
    BY <1>3 DEF Told, Takes
  <2>2. ASSUME NEW p, Reachable(w, p), Below(c, p) PROVE FALSE
    BY <1>1, <2>2, WayIsListed
  <2>3. Told(u, c)
    BY <1>3 DEF Told, Takes, IsFile
  <2>4. \A p \in lasting : Reachable(w, p) /\ (p = c \/ Below(c, p)) => Told(u, p)
    BY <2>2, <2>3
  <2>5. u.request = w.request /\ u.truncated = w.truncated /\ u.frames = v.frames
    BY <1>3 DEF Takes
  <2> QED BY <2>1, <2>4, <2>5, CompleteWithout
<1>7. u.truncated => u.expired \/ Len(u.files) >= u.request.maxFiles
  BY <1>3 DEF Takes, GoingOn
<1> QED BY <1>3, <1>4, <1>5, <1>6, <1>7 DEF WalkIs, GoingOn

\* A directory is visited next.
LEMMA DirectoryFound ==
  ASSUME DiskOK, NEW w, NEW v, NEW name, NEW c, Takes(w, v, name, c), IsDir(c), disk[c] # Locked,
         NEW new, new = [dir |-> c, names |-> {}], NEW directories, NEW top, NEW u,
         u = [v EXCEPT !.at = "visit", !.frames = Append(@, new), !.directories = directories, !.top = top]
  PROVE  WalkIs(u)
<1> DEFINE n == Len(v.frames)
<1>1. /\ c \in Paths /\ FramesOK(v.frames) /\ ListedOK(v)
      /\ Len(Last(v.frames).dir) + 1 = n /\ v.frames \in Seq(Frames) /\ v.frames # <<>>
      /\ Last(v.frames).dir \in Paths
  BY WithoutIt
<1>2. PICK f : f = Append(v.frames, new)
  OBVIOUS
<1>3. v = [g \in WalkFields |-> v[g]] /\ v.at = "names"
  BY DEF Takes, Shaped
<1>4. /\ u = [g \in WalkFields |-> u[g]] /\ u.at = "visit" /\ u.frames = f
      /\ u.request = v.request /\ u.files = v.files /\ u.errors = v.errors
      /\ u.truncated = v.truncated /\ u.expired = v.expired
  BY <1>2, <1>3 DEF WalkFields
<1>5. new \in Frames /\ new.dir = c /\ new.names = {}
  BY <1>1 DEF Frames
<1>6. /\ f \in Seq(Frames) /\ f # <<>> /\ Len(f) = n + 1 /\ n \in Nat \ {0}
      /\ \A i \in 1..n : f[i] = v.frames[i]
      /\ f[n + 1] = new
  BY <1>1, <1>2, <1>5
<1>7. Last(f) = new
  BY <1>6 DEF Last
<1>8. Shaped(u)
  BY <1>4, <1>6 DEF Takes, Shaped, Walking, Over
<1>9. /\ c = Append(Last(v.frames).dir, name) /\ Last(v.frames) = v.frames[n] /\ name \notin Last(v.frames).names
  BY DEF Takes, SameWay
<1>10. Len(c) = n /\ c[n] = name /\ \A k \in 1..(n - 1) : c[k] = Last(v.frames).dir[k]
  BY <1>1, <1>9 DEF Paths
<1>11. ASSUME NEW i \in 1..n
       PROVE  Below(f[i].dir, c) /\ c[i] \notin f[i].names
  <2>1. f[i] = v.frames[i] /\ Len(v.frames[i].dir) = i - 1
    BY <1>1, <1>6 DEF FramesOK
  <2>2. CASE i = n
    BY <1>1, <1>6, <1>9, <1>10, <2>1, <2>2, SMTT(60) DEF Below
  <2>3. CASE i # n
    <3>1. n \in (i + 1)..n /\ i \in 1..(n - 1)
      BY <1>6, <2>3
    <3>2. Below(v.frames[i].dir, Last(v.frames).dir) /\ Last(v.frames).dir[i] \notin v.frames[i].names
      BY <1>1, <1>9, <3>1 DEF FramesOK
    <3>3. \A k \in 1..(i - 1) : k \in 1..(n - 1)
      BY <1>6
    <3> QED BY <1>6, <1>10, <2>1, <3>1, <3>2, <3>3 DEF Below
  <2> QED BY <2>2, <2>3
<1>12. FramesOK(f)
  <2>1. ASSUME NEW i \in 1..Len(f)
        PROVE  Len(f[i].dir) = i - 1 /\ \A m \in f[i].names : Append(f[i].dir, m) \in ever
    <3>1. CASE i = n + 1
      BY <1>5, <1>6, <1>10, <3>1
    <3>2. CASE i \in 1..n
      BY <1>1, <1>6, <3>2 DEF FramesOK
    <3> QED BY <1>6, <3>1, <3>2
  <2>2. ASSUME NEW i \in 1..Len(f), NEW j \in (i + 1)..Len(f)
        PROVE  Below(f[i].dir, f[j].dir) /\ f[j].dir[i] \notin f[i].names
    <3>1. i \in 1..n
      BY <1>6
    <3>2. CASE j = n + 1
      BY <1>5, <1>6, <1>11, <3>1, <3>2
    <3>3. CASE j # n + 1
      <4>1. j \in (i + 1)..n /\ j \in 1..n
        BY <1>6, <3>3
      <4> QED BY <1>1, <1>6, <3>1, <4>1 DEF FramesOK
    <3> QED BY <3>2, <3>3
  <2> QED BY <2>1, <2>2 DEF FramesOK
<1>13. ListedOK(u)
  <2>1. ASSUME NEW i \in 1..Len(w.files) PROVE PassedBy(f, w.files[i]) /\ ~Below(c, w.files[i])
    <3>1. PICK p : p = w.files[i]
      OBVIOUS
    <3>2. PassedBy(v.frames, p) /\ PassedBy(w.frames, p)
      BY <1>1, <3>1 DEF Takes, GoingOn, ListedOK
    <3>3. PassedBy(f, p)
      <4> SUFFICES ASSUME NEW k \in 1..Len(f), Below(f[k].dir, p) PROVE p[k] \notin f[k].names
        BY DEF PassedBy
      <4>1. CASE k = n + 1
        BY <1>5, <1>6, <4>1
      <4>2. CASE k \in 1..n
        BY <1>6, <3>2, <4>2 DEF PassedBy
      <4> QED BY <1>6, <4>1, <4>2
    <3>4. ~Below(c, p)
      <4> SUFFICES ASSUME Below(c, p) PROVE FALSE
        OBVIOUS
      <4>1. n = Len(w.frames) /\ n \in 1..n /\ Last(w.frames) = w.frames[n] /\ name \in w.frames[n].names
        BY <1>6, SMTT(30) DEF Takes, SameWay
      <4>2. w.frames[n].dir = Last(v.frames).dir
        BY <4>1 DEF Takes, SameWay
      <4>3. Below(Last(v.frames).dir, p) /\ p[n] = name
        <5>1. \A k \in 1..(n - 1) : p[k] = Last(v.frames).dir[k] /\ k \in 1..n
          BY <1>6, <1>10 DEF Below
        <5>2. p[n] = name /\ n < Len(p)
          BY <1>6, <1>10 DEF Below
        <5>3. Len(Last(v.frames).dir) = n - 1 /\ Len(Last(v.frames).dir) < Len(p)
          <6>1. Len(Last(v.frames).dir) \in Nat
            BY <1>1 DEF Paths
          <6>2. p \in Paths
            BY <3>1 DEF Takes, Shaped
          <6>3. Len(p) \in Nat
            BY <6>2 DEF Paths
          <6> QED BY <1>1, <1>6, <5>2, <6>1, <6>3
        <5> QED BY <5>1, <5>2, <5>3 DEF Below
      <4> QED BY <3>2, <4>1, <4>2, <4>3 DEF PassedBy
    <3> QED BY <3>1, <3>3, <3>4
  <2>2. u.files = w.files /\ v.files = w.files /\ u.request = v.request /\ u.frames = f /\ Last(u.frames).dir = c
    BY <1>4, <1>5, <1>7 DEF Takes
  <2>3. /\ IsInjective(w.files) /\ Len(w.files) <= v.request.maxFiles
        /\ \A i \in 1..Len(w.files) : w.files[i] \in ever
    BY <1>1, <2>2 DEF ListedOK
  <2> QED BY <2>1, <2>2, <2>3 DEF ListedOK
<1>14. Complete(u)
  <2>1. \A p : Told(w, p) => Told(u, p)
    BY <1>4 DEF Told, Takes
  <2>2. \A p : Below(c, p) => ToVisit(u, p)
    BY <1>4, <1>5, <1>7 DEF ToVisit
  <2>3. Told(u, c)
    BY DEF Told, IsFile, IsDir
  <2>4. \A p : ToCome(v.frames, p) => ToCome(u.frames, p)
    <3>1. \A i \in 1..n : i \in 1..Len(u.frames) /\ u.frames[i] = v.frames[i]
      BY <1>4, <1>6
    <3> QED BY <3>1 DEF ToCome
  <2>5. u.request = w.request /\ u.truncated = w.truncated
    BY <1>4 DEF Takes
  <2>6. \A p \in lasting : Reachable(w, p) /\ (p = c \/ Below(c, p)) => Told(u, p) \/ ToVisit(u, p)
    BY <2>2, <2>3
  <2> QED BY <2>1, <2>4, <2>5, <2>6, CompleteWithout
<1>15. u.truncated => u.expired \/ Len(u.files) >= u.request.maxFiles
  BY <1>4 DEF Takes, GoingOn
<1>16. Last(u.frames).names = {}
  BY <1>4, <1>5, <1>7
<1> QED BY <1>4, <1>8, <1>12, <1>13, <1>14, <1>15, <1>16 DEF WalkIs, GoingOn

LEMMA NameStep ==
  ASSUME WalkOK, job.kind # "calls", walk.at = "names", Frame.names # {}
  PROVE  /\ DiskOK /\ Shaped(walk) /\ GoingOn(walk) /\ Name \in Last(walk.frames).names
         /\ Takes(walk, WithoutName(walk), Name, Child)
<1>1. Shaped(walk) /\ GoingOn(walk) /\ DiskOK
  BY DEF WalkOK, WalkIs, Walking
<1>2. walk.frames \in Seq(Frames) /\ walk.frames # <<>>
  BY <1>1 DEF Shaped, Walking
<1>3. Frame.names \in SUBSET DOMAIN NameOrder
  BY <1>2, LastOf DEF Frame
<1>4. Name \in Frame.names
  BY <1>3, NextName
<1>5. PICK w : w = walk
  OBVIOUS
<1>6. PICK name : name = Name
  OBVIOUS
<1>7. PICK v : v = [w EXCEPT !.frames[Len(w.frames)].names = @ \ {name}]
  OBVIOUS
<1>8. name \in Last(w.frames).names
  BY <1>4, <1>5, <1>6 DEF Frame
<1>9. Takes(w, v, name, Append(Last(w.frames).dir, name))
  BY <1>1, <1>5, <1>7, <1>8, NameTaken
<1>10. WithoutName(walk) = v
  BY <1>5, <1>6, <1>7 DEF WithoutName
<1>11. Child = Append(Last(w.frames).dir, name)
  BY <1>5, <1>6 DEF Child, Frame
<1> QED BY <1>1, <1>5, <1>6, <1>8, <1>9, <1>10, <1>11

LEMMA SkipExcludedKeeps ==
  ASSUME WalkOK, job.kind # "calls", UNCHANGED <<job, disk, lasting, ever>>, SkipExcluded
  PROVE  WalkOK'
<1>1. PICK w, v, name, c : w = walk /\ v = WithoutName(walk) /\ name = Name /\ c = Child
  OBVIOUS
<1>2. DiskOK /\ Takes(w, v, name, c)
  BY <1>1, NameStep DEF SkipExcluded
<1>3. name \in w.request.exclude /\ walk' = v
  BY <1>1 DEF SkipExcluded
<1>4. WalkIs(v)
  BY <1>2, <1>3, Excluded
<1> QED BY <1>3, <1>4, WalkBecomes

LEMMA LookKeeps ==
  ASSUME WalkOK, job.kind # "calls", UNCHANGED <<job, disk, lasting, ever>>, Look
  PROVE  WalkOK'
<1>1. PICK w, v, name, c, error : w = walk /\ v = WithoutName(walk) /\ name = Name /\ c = Child /\ error = Listing(c).error
  OBVIOUS
<1>2. DiskOK /\ Shaped(w) /\ w.at = "names" /\ Takes(w, v, name, c)
  BY <1>1, NameStep DEF Look, MayLook
<1>3. ~(Len(w.files) >= w.request.maxFiles)
  BY <1>1 DEF Look, BudgetSpent
<1>4. c \in Paths
  BY <1>2, WithoutIt
<1>5. /\ "NotADirectoryError" # None /\ "PermissionError" # None /\ "ValueError" # None
      /\ "PermissionError" \in OSErrors /\ "ValueError" \notin OSErrors
  BY NoneAssumption DEF Errors, OSErrors
<1>6. \/ error = "ValueError"
      \/ error = "NotADirectoryError" /\ ~IsDir(c)
      \/ error = "PermissionError" /\ IsDir(c) /\ disk[c] = Locked
      \/ error = None /\ IsDir(c) /\ disk[c] # Locked
  BY <1>1, <1>4, ListingTells
<1>7. CASE error = None
  <2>1. PICK new, directories, top :
          /\ new = [dir |-> c, names |-> {}]
          /\ directories = v.directories + 1
          /\ top = IF Frame.dir = Root THEN v.top \cup {name} ELSE v.top
    OBVIOUS
  <2>2. PICK u : u = [v EXCEPT !.at = "visit", !.frames = Append(@, new), !.directories = directories, !.top = top]
    OBVIOUS
  <2>3. walk' = u
    BY <1>1, <1>7, <2>1, <2>2 DEF Look, Listing
  <2>4. IsDir(c) /\ disk[c] # Locked
    BY <1>5, <1>6, <1>7
  <2>5. WalkIs(u)
    BY <1>2, <2>1, <2>2, <2>4, DirectoryFound
  <2> QED BY <2>3, <2>5, WalkBecomes
<1>8. CASE error = "NotADirectoryError" /\ ~IsDir(c)
  <2>1. PICK u : u = [v EXCEPT !.files = Append(@, c)]
    OBVIOUS
  <2>2. walk' = u
    BY <1>1, <1>5, <1>8, <2>1 DEF Look, Listing, IsLeaf
  <2>3. WalkIs(u)
    BY <1>1, <1>2, <1>3, <1>5, <1>8, <2>1, FileFound
  <2> QED BY <2>2, <2>3, WalkBecomes
<1>9. CASE error = "PermissionError" /\ IsDir(c) /\ disk[c] = Locked
  <2>1. PICK errors : errors = Erred(c)
    OBVIOUS
  <2>2. w.errors \subseteq errors /\ (w.request.purpose = "discovery" => c \in errors)
    BY <1>1, <2>1 DEF Erred, ForDiscovery
  <2>3. PICK u : u = [v EXCEPT !.errors = errors]
    OBVIOUS
  <2>4. walk' = u
    BY <1>1, <1>5, <1>9, <2>1, <2>3 DEF Look, Listing, IsLeaf
  <2>5. WalkIs(u)
    BY <1>1, <1>2, <1>5, <1>9, <2>2, <2>3, LockedFound
  <2> QED BY <2>4, <2>5, WalkBecomes
<1>10. CASE error = "ValueError"
  <2>1. PICK u : u = [w EXCEPT !.at = "failed"]
    OBVIOUS
  <2>2. walk' = u
    BY <1>1, <1>5, <1>10, <2>1 DEF Look, Listing, IsLeaf
  <2>3. WalkIs(u)
    BY <1>2, <2>1, WalkFails
  <2> QED BY <2>2, <2>3, WalkBecomes
<1> QED BY <1>6, <1>7, <1>8, <1>9, <1>10

LEMMA ExpireKeeps ==
  ASSUME WalkOK, job.kind # "calls", UNCHANGED <<job, disk, lasting, ever>>, Expire
  PROVE  WalkOK'
<1>1. PICK w, u : w = walk /\ u = [w EXCEPT !.expired = TRUE]
  OBVIOUS
<1>2. Shaped(w) /\ GoingOn(w) /\ walk' = u
  BY <1>1 DEF WalkOK, WalkIs, Walking, Expire
<1>3. /\ u = [f \in WalkFields |-> u[f]] /\ u.expired = TRUE
      /\ u.at = w.at /\ u.request = w.request /\ u.frames = w.frames /\ u.files = w.files
      /\ u.errors = w.errors /\ u.truncated = w.truncated
  <2>1. w = [f \in WalkFields |-> w[f]]
    BY <1>2 DEF Shaped
  <2> QED BY <1>1, <2>1 DEF WalkFields
<1>4. Shaped(u)
  BY <1>2, <1>3 DEF Shaped
<1>5. FramesOK(u.frames) /\ ListedOK(u) /\ (u.at = "visit" => Last(u.frames).names = {})
  BY <1>2, <1>3 DEF GoingOn, ListedOK
<1>6. Complete(u)
  BY <1>2, <1>3 DEF GoingOn, Complete, Reachable, Told, ToVisit
<1>7. WalkIs(u)
  BY <1>3, <1>4, <1>5, <1>6 DEF WalkIs, GoingOn
<1> QED BY <1>2, <1>7, WalkBecomes

LEMMA BeginWalkKeeps ==
  ASSUME WalkOK, job.kind # "calls", UNCHANGED <<job, disk, lasting, ever>>, NEW request \in job.walks, BeginWalk(request)
  PROVE  WalkOK'
<1>1. request.maxFiles \in Nat /\ DiskOK
  BY TreesAssumption DEF WalkOK
<1>2. <<>> \in Seq(Frames) /\ <<>> \in Seq(Paths)
  OBVIOUS
<1>3. CASE ConnectError # None
  <2>1. PICK u : u = [NotStarted EXCEPT !.at = "failed", !.request = request]
    OBVIOUS
  <2>2. /\ u = [f \in WalkFields |-> u[f]] /\ u.at = "failed" /\ u.request = request
        /\ u.frames = <<>> /\ u.files = <<>>
    BY <2>1 DEF NotStarted, WalkFields
  <2>3. WalkIs(u)
    BY <1>1, <1>2, <2>2 DEF WalkIs, Shaped, Walking, Over
  <2>4. walk' = u
    BY <1>3, <2>1 DEF BeginWalk
  <2> QED BY <2>3, <2>4, WalkBecomes
<1>4. CASE ConnectError = None
  <2>1. PICK root, frames : root = [dir |-> Root, names |-> {}] /\ frames = <<root>>
    OBVIOUS
  <2>2. PICK u : u = [NotStarted EXCEPT !.at = "visit", !.request = request, !.frames = frames]
    OBVIOUS
  <2>3. /\ u = [f \in WalkFields |-> u[f]] /\ u.at = "visit" /\ u.request = request
        /\ u.frames = frames /\ u.files = <<>> /\ u.errors = {} /\ u.truncated = FALSE
    BY <2>2 DEF NotStarted, WalkFields
  <2>4. root \in Frames /\ root.dir = Root /\ root.names = {}
    BY <2>1 DEF Frames, Paths, Root
  <2>5. frames \in Seq(Frames) /\ Len(frames) = 1 /\ frames[1] = root /\ frames # <<>> /\ Last(frames) = root
    BY <2>1, <2>4 DEF Last
  <2>6. Shaped(u)
    BY <1>1, <1>2, <2>3, <2>5 DEF Shaped, Walking, Over
  <2>7. FramesOK(frames)
    BY <2>4, <2>5 DEF FramesOK, Root
  <2>8. ListedOK(u)
    BY <1>1, <2>3 DEF ListedOK, IsInjective
  <2>9. Complete(u)
    <3> SUFFICES ASSUME NEW p \in lasting, Reachable(u, p) PROVE Told(u, p) \/ ToVisit(u, p)
      BY DEF Complete
    <3>1. p \in DOMAIN disk /\ p \in Paths
      BY <1>1 DEF DiskOK, IsTree
    <3>2. CASE p = Root
      <4>1. IsDir(p)
        BY <1>4, <3>2, NoneAssumption DEF ConnectError, Errors
      <4> QED BY <2>3, <2>4, <2>5, <3>2, <4>1 DEF Told, ToVisit, IsFile, IsDir
    <3>3. CASE p # Root
      <4>1. Below(Root, p)
        BY <3>1, <3>3 DEF Below, Root, Paths
      <4> QED BY <2>3, <2>4, <2>5, <4>1 DEF ToVisit
    <3> QED BY <3>2, <3>3
  <2>10. WalkIs(u)
    BY <2>3, <2>4, <2>5, <2>6, <2>7, <2>8, <2>9 DEF WalkIs, GoingOn
  <2>11. walk' = u
    BY <1>4, <2>1, <2>2 DEF BeginWalk
  <2> QED BY <2>10, <2>11, WalkBecomes
<1> QED BY <1>3, <1>4

\* What comes after the walk.
LEMMA WalkedGoesOn ==
  ASSUME WalkOK, job.kind # "calls", UNCHANGED <<job, disk, lasting, ever>>, walk.at \in Over,
         NEW at \in Over \cup {"failed"}, walk' = [walk EXCEPT !.at = at]
  PROVE  WalkOK'
<1>1. PICK w, u : w = walk /\ u = [w EXCEPT !.at = at]
  OBVIOUS
<1>2. Shaped(w) /\ GoingOn(w) /\ w.at # "none" /\ w.at \in Over
  BY <1>1 DEF WalkOK, WalkIs, Over
<1>3. w = [f \in WalkFields |-> w[f]]
  BY <1>2 DEF Shaped
<1>4. /\ u = [f \in WalkFields |-> u[f]] /\ u.at = at
      /\ u.request = w.request /\ u.frames = w.frames /\ u.files = w.files
      /\ u.errors = w.errors /\ u.truncated = w.truncated /\ u.expired = w.expired
  BY <1>1, <1>3 DEF WalkFields
<1>5. Shaped(u) /\ at # "visit"
  BY <1>2, <1>4 DEF Shaped, Walking, Over
<1>6. FramesOK(u.frames) /\ ListedOK(u)
  BY <1>2, <1>4, <1>5 DEF GoingOn, ListedOK
<1>7. Complete(u)
  <2>1. \A p : ~ToVisit(w, p)
    BY <1>2 DEF ToVisit, Over
  <2> QED BY <1>2, <1>4, <2>1 DEF GoingOn, Complete, Reachable, Told
<1>8. WalkIs(u)
  BY <1>2, <1>4, <1>5, <1>6, <1>7 DEF WalkIs, GoingOn
<1> QED BY <1>1, <1>8, WalkBecomes

LEMMA WalkRests ==
  ASSUME WalkOK, UNCHANGED <<job, walk>>, job.kind # "calls" => UNCHANGED <<disk, lasting, ever>>
  PROVE  WalkOK'
<1>1. CASE job.kind = "calls"
  BY <1>1 DEF WalkOK, NotStarted
<1>2. CASE job.kind # "calls"
  <2>1. PICK w : w = walk
    OBVIOUS
  <2>2. walk' = w /\ WalkIs(w)
    BY <1>2, <2>1 DEF WalkOK
  <2> QED BY <1>2, <2>2, WalkBecomes
<1> QED BY <1>1, <1>2

LEMMA WalkNextKeeps ==
  ASSUME WalkOK, job.kind # "calls", UNCHANGED <<job, disk, lasting, ever>>, WalkNext
  PROVE  WalkOK'
<1>1. CASE ClassifyEntries
  <2>1. walk.at \in Over /\ \E at \in Over \cup {"failed"} : walk' = [walk EXCEPT !.at = at]
    BY <1>1 DEF ClassifyEntries, Over
  <2> QED BY <2>1, WalkedGoesOn
<1>2. CASE AssembleInventory
  <2>1. walk.at \in Over /\ "done" \in Over /\ walk' = [walk EXCEPT !.at = "done"]
    BY <1>2 DEF AssembleInventory, Over
  <2> QED BY <2>1, WalkedGoesOn
<1> QED BY <1>1, <1>2, ExpireKeeps, VisitKeeps, LeaveDirectoryKeeps, SkipExcludedKeeps, TruncateKeeps, LookKeeps DEF WalkNext

\* The disk changes: what has not been there all the time need not be told of.
LEMMA DiskChanges ==
  ASSUME WalkOK, job.kind # "calls", UNCHANGED <<job, walk>>, IsTree(disk'),
         ever \subseteq ever', DOMAIN disk' \subseteq ever', lasting' \subseteq lasting,
         \A p \in lasting' : p \in DOMAIN disk' /\ disk'[p] = disk[p]
  PROVE  WalkOK'
<1>1. PICK w : w = walk
  OBVIOUS
<1>2. walk' = w /\ WalkIs(w) /\ DiskOK
  BY <1>1 DEF WalkOK
<1>3. DiskOK'
  BY DEF DiskOK
<1>4. ASSUME NEW p \in lasting', Reachable(w, p)'
      PROVE  Reachable(w, p) /\ (Told(w, p) => Told(w, p)') /\ (ToVisit(w, p) => ToVisit(w, p)')
  <2>1. disk'[p] = disk[p] /\ p \in DOMAIN disk /\ p \in DOMAIN disk'
    BY <1>2 DEF DiskOK
  <2>2. Prefixes(p) \subseteq lasting'
    BY <1>4 DEF Reachable
  <2>3. Parents(p) \subseteq Prefixes(p)
    <3>1. p \in Paths
      BY <1>2, <2>1 DEF DiskOK, IsTree
    <3>2. Len(p) \in Nat
      BY <3>1 DEF Paths
    <3>3. \A i \in 0..(Len(p) - 1) : i \in 0..Len(p)
      BY <3>2
    <3> QED BY <3>3 DEF Parents, Prefixes
  <2>4. ~Hidden(p)
    BY <1>4, <2>2, <2>3 DEF Reachable, Hidden
  <2>5. Reachable(w, p)
    BY <1>4, <2>2, <2>4 DEF Reachable
  <2>6. Told(w, p) => Told(w, p)'
    BY <2>1 DEF Told, IsFile
  <2>7. ToVisit(w, p) => ToVisit(w, p)'
    BY <2>1 DEF ToVisit
  <2> QED BY <2>5, <2>6, <2>7
<1>5. Complete(w) => Complete(w)'
  BY <1>4 DEF Complete
<1>6. (FramesOK(w.frames) => FramesOK(w.frames)') /\ (ListedOK(w) => ListedOK(w)')
  BY DEF FramesOK, ListedOK
<1>7. Shaped(w) /\ (w.at \in Walking \cup Over => GoingOn(w)')
  BY <1>2, <1>5, <1>6 DEF WalkIs, GoingOn
<1>8. WalkIs(walk)'
  BY <1>2, <1>7 DEF WalkIs
<1> QED BY <1>3, <1>8 DEF WalkOK

\* Others change the disk so that it stays a tree.
LEMMA EditKeepsTree ==
  ASSUME IsTree(disk), NEW path \in Paths, path = Root \/ (path # Root /\ IsDir(Front(path))), NEW below,
         below = {p \in DOMAIN disk : IsPrefix(path, p)}, NEW becomes
  PROVE  /\ IsTree([p \in DOMAIN disk \ below |-> disk[p]])
         /\ IsTree([p \in (DOMAIN disk \ below) \cup {path} |-> IF p = path THEN becomes ELSE disk[p]])
<1>1. \A p \in DOMAIN disk : p \in Seq(DOMAIN NameOrder)
  BY DEF IsTree, Paths
<1>2. path \in Seq(DOMAIN NameOrder)
  BY DEF Paths
<1>3. ASSUME NEW p \in DOMAIN disk \ below, p # Root
      PROVE  Front(p) \in DOMAIN disk \ below /\ disk[Front(p)] \in {Dir, Locked}
  <2>1. Front(p) \in DOMAIN disk /\ disk[Front(p)] \in {Dir, Locked}
    BY <1>3 DEF IsTree
  <2>2. p # <<>> /\ p \in Seq(DOMAIN NameOrder)
    BY <1>1, <1>3 DEF Root
  <2>3. /\ Len(Front(p)) = Len(p) - 1 /\ Len(p) \in Nat \ {0} /\ Front(p) \in Seq(DOMAIN NameOrder)
        /\ \A i \in 1..(Len(p) - 1) : Front(p)[i] = p[i]
    BY <2>2, FrontOf
  <2>4. IsPrefix(path, Front(p)) => IsPrefix(path, p)
    BY <1>2, <2>2, <2>3 DEF IsPrefix
  <2> QED BY <2>1, <2>4, <1>3
<1>4. ASSUME path # Root
      PROVE  Front(path) \in DOMAIN disk \ below /\ disk[Front(path)] \in {Dir, Locked}
  <2>1. Front(path) \in DOMAIN disk /\ disk[Front(path)] \in {Dir, Locked}
    BY <1>4 DEF IsDir
  <2>2. path # <<>>
    BY <1>4 DEF Root
  <2>3. Len(Front(path)) = Len(path) - 1 /\ Len(path) \in Nat \ {0}
    BY <1>2, <2>2, FrontOf
  <2>4. ~IsPrefix(path, Front(path))
    BY <2>3 DEF IsPrefix
  <2> QED BY <2>1, <2>4
<1>5. \A p \in DOMAIN disk : p \in Paths
  BY DEF IsTree
<1>6. IsTree([p \in DOMAIN disk \ below |-> disk[p]])
  BY <1>3, <1>5 DEF IsTree
<1>7. path # Root => path # Front(path)
  <2>1. path # Root => Len(Front(path)) = Len(path) - 1 /\ Len(path) \in Nat \ {0}
    BY <1>2, FrontOf DEF Root
  <2> QED BY <2>1
<1>8. \A p \in DOMAIN disk \ below : p # Root => Front(p) # path
  <2> SUFFICES ASSUME NEW p \in DOMAIN disk \ below, p # Root, Front(p) = path PROVE FALSE
    OBVIOUS
  <2>1. path \in DOMAIN disk \ below
    BY <1>3
  <2>2. IsPrefix(path, path)
    BY <1>2 DEF IsPrefix
  <2> QED BY <2>1, <2>2
<1> DEFINE put == [p \in (DOMAIN disk \ below) \cup {path} |-> IF p = path THEN becomes ELSE disk[p]]
<1>9. ASSUME NEW p \in DOMAIN put
      PROVE  p \in Paths /\ (p # Root => Front(p) \in DOMAIN put /\ put[Front(p)] \in {Dir, Locked})
  <2>1. CASE p = path
    BY <1>4, <1>7, <2>1
  <2>2. CASE p \in DOMAIN disk \ below
    BY <1>3, <1>5, <1>8, <2>2
  <2> QED BY <2>1, <2>2
<1>10. IsTree(put)
  <2> HIDE DEF put
  <2> QED BY <1>9 DEF IsTree
<1> QED BY <1>6, <1>10

LEMMA EditKeepsWalk ==
  ASSUME WalkOK, Edit
  PROVE  WalkOK'
<1>1. UNCHANGED <<job, walk>>
  BY DEF Edit, analysis, walking
<1>2. CASE job.kind = "calls"
  BY <1>1, <1>2, WalkRests
<1>3. CASE job.kind # "calls"
  <2>1. PICK e \in Edits :
          LET below == {p \in DOMAIN disk : IsPrefix(e.path, p)} IN
          /\ e.path = Root \/ (e.path # Root /\ IsDir(Front(e.path)))
          /\ disk' = IF e.becomes = None THEN [p \in DOMAIN disk \ below |-> disk[p]]
                     ELSE [p \in (DOMAIN disk \ below) \cup {e.path} |-> IF p = e.path THEN e.becomes ELSE disk[p]]
    BY DEF Edit, DiskBecomes
  <2>2. PICK below : below = {p \in DOMAIN disk : IsPrefix(e.path, p)}
    OBVIOUS
  <2>3. /\ e.path = Root \/ (e.path # Root /\ IsDir(Front(e.path)))
        /\ disk' = IF e.becomes = None THEN [p \in DOMAIN disk \ below |-> disk[p]]
                   ELSE [p \in (DOMAIN disk \ below) \cup {e.path} |-> IF p = e.path THEN e.becomes ELSE disk[p]]
    BY <2>2, <2>1
  <2>4. e.path \in Paths /\ IsTree(disk)
    BY <1>3, TreesAssumption DEF WalkOK, DiskOK
  <2>5. PICK path, becomes : path = e.path /\ becomes = e.becomes
    OBVIOUS
  <2>6. /\ IsTree([p \in DOMAIN disk \ below |-> disk[p]])
        /\ IsTree([p \in (DOMAIN disk \ below) \cup {path} |-> IF p = path THEN becomes ELSE disk[p]])
    <3>1. path \in Paths /\ (path = Root \/ (path # Root /\ IsDir(Front(path))))
      BY <2>3, <2>4, <2>5
    <3>2. below = {p \in DOMAIN disk : IsPrefix(path, p)}
      BY <2>5, <2>2
    <3> QED BY <2>4, <3>1, <3>2, EditKeepsTree
  <2>7. IsTree(disk')
    BY <2>3, <2>5, <2>6
  <2>8. RecordDisk
    BY <1>3 DEF Edit
  <2>9. /\ ever \subseteq ever' /\ DOMAIN disk' \subseteq ever' /\ lasting' \subseteq lasting
        /\ \A p \in lasting' : p \in DOMAIN disk' /\ disk'[p] = disk[p]
    BY <2>8 DEF RecordDisk
  <2> QED BY <1>1, <1>3, <2>7, <2>9, DiskChanges
<1> QED BY <1>2, <1>3

LEMMA NextKeepsWalk ==
  ASSUME WalkOK, [Next]_vars
  PROVE  WalkOK'
<1>1. CASE Edit
  BY <1>1, EditKeepsWalk
<1>2. CASE Calls /\ UNCHANGED <<lasting, ever>>
  <2>1. UNCHANGED <<job, walk>> /\ job.kind = "calls"
    BY <1>2 DEF Calls, analysis, walking
  <2> QED BY <2>1, WalkRests
<1>3. CASE Analyse /\ UNCHANGED <<lasting, ever>>
  <2>1. UNCHANGED <<job, disk, lasting, ever>> /\ job.kind # "calls"
    BY <1>3 DEF Analyse
  <2>2. \/ \E request \in job.walks : BeginWalk(request)
        \/ WalkNext
        \/ UNCHANGED walking
    BY <1>3 DEF Analyse
  <2>3. CASE UNCHANGED walking
    BY <2>1, <2>3, WalkRests DEF walking
  <2> QED BY <2>1, <2>2, <2>3, BeginWalkKeeps, WalkNextKeeps
<1>4. CASE ExtractFromTree /\ UNCHANGED <<lasting, ever>>
  <2>1. UNCHANGED <<job, disk, lasting, ever>> /\ job.kind # "calls"
    BY <1>4 DEF ExtractFromTree
  <2>2. \/ \E request \in job.walks : BeginWalk(request)
        \/ WalkNext
        \/ UNCHANGED walking
    BY <1>4 DEF ExtractFromTree
  <2>3. CASE UNCHANGED walking
    BY <2>1, <2>3, WalkRests DEF walking
  <2> QED BY <2>1, <2>2, <2>3, BeginWalkKeeps, WalkNextKeeps
<1>5. CASE Commands /\ UNCHANGED <<lasting, ever>>
  <2>1. UNCHANGED <<job, walk, disk, lasting, ever>>
    BY <1>5 DEF Commands, analysis, walking
  <2> QED BY <2>1, WalkRests
<1>6. CASE UNCHANGED vars
  <2>1. UNCHANGED <<job, walk, disk, lasting, ever>>
    BY <1>6 DEF vars, analysis, walking
  <2> QED BY <2>1, WalkRests
<1> QED BY <1>1, <1>2, <1>3, <1>4, <1>5, <1>6 DEF Next

LEMMA WalkBegins ==
  ASSUME Init
  PROVE  WalkOK
<1>1. job \in Jobs /\ disk = job.disk /\ walk = NotStarted /\ lasting = DOMAIN disk /\ ever = DOMAIN disk
  BY DEF Init, WalkInit
<1>2. job.kind # "calls" => DiskOK
  BY <1>1, TreesAssumption DEF DiskOK
<1>3. <<>> \in Seq(Frames) /\ <<>> \in Seq(Paths)
  OBVIOUS
<1>4. PICK w : w = NotStarted
  OBVIOUS
<1>5. w = [f \in WalkFields |-> w[f]] /\ w.at = "none" /\ w.frames = <<>> /\ w.files = <<>>
  BY <1>4 DEF NotStarted, WalkFields
<1>6. WalkIs(w)
  BY <1>3, <1>5 DEF WalkIs, Shaped, Walking, Over
<1> QED BY <1>1, <1>2, <1>4, <1>6 DEF WalkOK

\* A walk that is over has nothing to come.
LEMMA WalkAccounts ==
  ASSUME WalkOK, walk.at \in Over
  PROVE  /\ IsInjective(walk.files) /\ ToSet(walk.files) \subseteq ever
         /\ Len(walk.files) <= walk.request.maxFiles /\ (walk.truncated => BudgetSpent)
         /\ ~walk.truncated => \A p \in lasting : Reachable(walk, p) => Told(walk, p)
<1>1. Shaped(walk) /\ GoingOn(walk)
  BY DEF WalkOK, WalkIs, Over, NotStarted
<1>2. walk.frames = <<>> /\ walk.files \in Seq(Paths)
  BY <1>1 DEF Shaped
<1>3. ToSet(walk.files) \subseteq ever
  BY <1>1, <1>2 DEF GoingOn, ListedOK, ToSet
<1>4. \A p : ~ToCome(walk.frames, p) /\ ~ToVisit(walk, p)
  BY <1>2 DEF ToCome, ToVisit, Over
<1> QED BY <1>1, <1>3, <1>4 DEF GoingOn, ListedOK, Complete, BudgetSpent

\* discovery/engine.py:214-267: for any tree, budget, exclusion and edits of the
\* disk between any two calls, a walk lists no file twice and none that never was,
\* and one that is not truncated has listed every file that was there all the
\* time within its reach, and told of every directory there that it cannot list.
THEOREM EveryFileAccounted == Spec => []WalksAccountForEveryFile
<1>1. Init => WalkOK
  BY WalkBegins
<1>2. WalkOK /\ [Next]_vars => WalkOK'
  BY NextKeepsWalk
<1>3. WalkOK => WalksAccountForEveryFile
  <2> SUFFICES ASSUME WalkOK, walk.at \in Over PROVE WalksAccountForEveryFile
    BY DEF WalksAccountForEveryFile, Over
  <2>1. /\ IsInjective(walk.files) /\ ToSet(walk.files) \subseteq ever
        /\ Len(walk.files) <= walk.request.maxFiles /\ (walk.truncated => BudgetSpent)
        /\ ~walk.truncated => \A p \in lasting : Reachable(walk, p) => Told(walk, p)
    BY WalkAccounts
  <2> QED BY <2>1 DEF WalksAccountForEveryFile, Reachable, Told, ForDiscovery
<1> QED BY <1>1, <1>2, <1>3, PTL DEF Spec

------------------------------------------------------------------------------
(* Lists of facts.                                                         *)

LEMMA ListJoined ==
  ASSUME NEW a, NEW b, IsList(a), IsList(b)
  PROVE  IsList(a \o b) /\ Len(a \o b) = Len(a) + Len(b) /\ ToSet(a \o b) = ToSet(a) \cup ToSet(b)
<1> DEFINE S == {a[i] : i \in 1..Len(a)} \cup {b[i] : i \in 1..Len(b)}
<1>1. a \in Seq(S) /\ b \in Seq(S)
  BY DEF IsList
<1> HIDE DEF S
<1>2. a \o b \in Seq(S) /\ Len(a \o b) = Len(a) + Len(b)
  BY <1>1
<1>3. IsList(a \o b)
  BY <1>2, LenProperties DEF IsList
<1>4. ToSet(a \o b) = ToSet(a) \cup ToSet(b)
  <2>1. ASSUME NEW x \in ToSet(a \o b) PROVE x \in ToSet(a) \cup ToSet(b)
    <3>1. PICK i \in 1..(Len(a) + Len(b)) : x = (a \o b)[i]
      BY <1>1, <1>2 DEF ToSet
    <3>2. CASE i <= Len(a)
      BY <1>1, <3>1, <3>2 DEF ToSet
    <3>3. CASE i > Len(a)
      <4>1. i - Len(a) \in 1..Len(b) /\ x = b[i - Len(a)]
        BY <1>1, <3>1, <3>3
      <4> QED BY <1>1, <4>1 DEF ToSet
    <3> QED BY <1>1, <3>1, <3>2, <3>3
  <2>2. ASSUME NEW x \in ToSet(a) PROVE x \in ToSet(a \o b)
    <3>1. PICK i \in 1..Len(a) : x = a[i]
      BY <1>1 DEF ToSet
    <3>2. i \in 1..Len(a \o b) /\ (a \o b)[i] = x
      BY <1>1, <1>2, <3>1
    <3> QED BY <1>2, <3>2 DEF ToSet
  <2>3. ASSUME NEW x \in ToSet(b) PROVE x \in ToSet(a \o b)
    <3>1. PICK i \in 1..Len(b) : x = b[i]
      BY <1>1 DEF ToSet
    <3>2. i + Len(a) \in 1..Len(a \o b) /\ (a \o b)[i + Len(a)] = x
      BY <1>1, <1>2, <3>1
    <3> QED BY <1>2, <3>2 DEF ToSet
  <2> QED BY <2>1, <2>2, <2>3
<1> QED BY <1>2, <1>3, <1>4

\* Of sequences of things that all are such.
LEMMA FlattenedFrom ==
  ASSUME NEW q, Len(q) \in Nat, NEW S,
         \A i \in 1..Len(q) : IsList(q[i]) /\ ToSet(q[i]) \subseteq S,
         Len(q) = 0 => IsList(q)
  PROVE  IsList(FlattenSeq(q)) /\ ToSet(FlattenSeq(q)) \subseteq S
<1> DEFINE n == Len(q)
<1>1. CASE n = 0
  <2>1. FlattenSeq(q) = q
    BY <1>1 DEF FlattenSeq
  <2> QED BY <1>1, <2>1 DEF IsList, ToSet
<1>2. CASE n # 0
  <2> DEFINE flatten[i \in 1..n] == IF i = 1 THEN q[i] ELSE flatten[i - 1] \o q[i]
             Built(m, f) == f = [i \in 1..m |-> IF i = 1 THEN q[i] ELSE f[i - 1] \o q[i]]
             T == {m \in 1..n : ~\E f : Built(m, f)}
  <2>1. FlattenSeq(q) = flatten[n]
    BY <1>2 DEF FlattenSeq
  <2>2. \E f : Built(1, f)
    <3>1. Built(1, [i \in 1..1 |-> q[1]])
      <4>1. [i \in 1..1 |-> q[1]] = [i \in 1..1 |-> IF i = 1 THEN q[i] ELSE [j \in 1..1 |-> q[1]][i - 1] \o q[i]]
        OBVIOUS
      <4> QED BY <4>1
    <3> QED BY <3>1
  <2>3. ASSUME NEW m \in 1..n, m # 1, NEW f, Built(m - 1, f)
        PROVE  \E g : Built(m, g)
    <3> DEFINE g == [i \in 1..m |-> IF i = m THEN f[m - 1] \o q[m] ELSE f[i]]
    <3>1. \A i \in 1..(m - 1) : f[i] = IF i = 1 THEN q[i] ELSE f[i - 1] \o q[i]
      <4> HIDE DEF n
      <4> QED BY <2>3
    <3>2. \A i \in 1..m : g[i] = IF i = 1 THEN q[i] ELSE g[i - 1] \o q[i]
      <4> HIDE DEF n
      <4>1. CASE TRUE
        <5> TAKE i \in 1..m
        <5>1. CASE i = m
          <6>1. m - 1 \in 1..m /\ m - 1 # m
            BY <2>3
          <6> QED BY <2>3, <5>1, <6>1
        <5>2. CASE i # m /\ i # 1
          <6>1. i \in 1..(m - 1) /\ i - 1 \in 1..m /\ i - 1 # m
            BY <5>2
          <6> QED BY <3>1, <5>2, <6>1
        <5>3. CASE i # m /\ i = 1
          <6>1. i \in 1..(m - 1)
            BY <5>3
          <6> QED BY <3>1, <5>3, <6>1
        <5> QED BY <5>1, <5>2, <5>3
      <4> QED BY <4>1
    <3>3. g = [i \in 1..m |-> g[i]]
      OBVIOUS
    <3>4. Built(m, g)
      <4> HIDE DEF g
      <4> QED BY <3>2, <3>3
    <3> QED BY <3>4
  <2>4. T = {}
    <3> SUFFICES ASSUME T # {} PROVE FALSE
      OBVIOUS
    <3> HIDE DEF Built
    <3>1. T \in SUBSET Nat
      <4>1. 1..n \in SUBSET Nat
        OBVIOUS
      <4> QED BY <4>1
    <3>2. PICK m \in T : \A k \in T : m <= k
      BY <3>1, LeastNumber
    <3>3. m \in 1..n /\ m # 1
      BY <2>2, <3>2
    <3>4. m - 1 \in 1..n /\ ~(m <= m - 1)
      BY <3>3
    <3>5. \E f : Built(m - 1, f)
      BY <3>2, <3>4
    <3> QED BY <2>3, <3>2, <3>3, <3>5
  <2>5. \E f : Built(n, f)
    <3>1. n \in 1..n
      BY <1>2
    <3> HIDE DEF Built
    <3> QED BY <2>4, <3>1
  <2>6. Built(n, flatten)
    <3> HIDE DEF n
    <3> QED BY <2>5
  <2> HIDE DEF flatten
  <2>7. \A i \in 1..n : flatten[i] = IF i = 1 THEN q[i] ELSE flatten[i - 1] \o q[i]
    <3> HIDE DEF n
    <3> QED BY <2>6
  <2> HIDE DEF Built
  <2> DEFINE U == {i \in 1..n : ~(IsList(flatten[i]) /\ ToSet(flatten[i]) \subseteq S)}
  <2>8. U = {}
    <3> SUFFICES ASSUME U # {} PROVE FALSE
      OBVIOUS
    <3>1. U \in SUBSET Nat
      OBVIOUS
    <3>2. PICK m \in U : \A k \in U : m <= k
      BY <3>1, LeastNumber
    <3>3. m \in 1..n
      BY <3>2
    <3>4. m # 1
      BY <2>7, <3>2, <3>3
    <3>5. m - 1 \in 1..n /\ ~(m <= m - 1)
      BY <3>3, <3>4
    <3>6. IsList(flatten[m - 1]) /\ ToSet(flatten[m - 1]) \subseteq S
      BY <3>2, <3>5
    <3>7. flatten[m] = flatten[m - 1] \o q[m]
      BY <2>7, <3>3, <3>4
    <3>8. IsList(q[m]) /\ ToSet(q[m]) \subseteq S
      BY <3>3
    <3>9. IsList(flatten[m]) /\ ToSet(flatten[m]) \subseteq S
      BY <3>6, <3>7, <3>8, ListJoined
    <3> QED BY <3>2, <3>9
  <2>9. n \in 1..n
    BY <1>2
  <2> QED BY <2>1, <2>8, <2>9
<1> QED BY <1>1, <1>2

\* Facts from the file at path, which never name a module.
About(list, path) == IsList(list) /\ \A f \in ToSet(list) : f.path = path /\ f.kind # "module"

LEMMA FactsListed ==
  ASSUME NEW list, IsList(list), NEW path, \A i \in 1..Len(list) : list[i].path = path /\ list[i].kind # "module"
  PROVE  About(list, path)
<1>1. DOMAIN list = 1..Len(list)
  BY DEF IsList
<1> QED BY <1>1 DEF About, ToSet

\* A function on the numbers up to n is a list.
LEMMA CountedList ==
  ASSUME NEW n \in Nat, NEW list, list = [i \in 1..n |-> list[i]]
  PROVE  IsList(list) /\ Len(list) = n
<1>1. Len(list) = n
  OBVIOUS
<1> QED BY <1>1 DEF IsList

LEMMA FactHas ==
  ASSUME NEW kind, NEW sort, NEW name, NEW path, NEW detail
  PROVE  Fact(kind, sort, name, path, detail).path = path /\ Fact(kind, sort, name, path, detail).kind = kind
BY DEF Fact

LEMMA NoFacts ==
  ASSUME NEW path
  PROVE  About(<<>>, path)
<1>1. IsList(<<>>) /\ Len(<<>>) = 0
  BY DEF IsList
<1> QED BY <1>1, FactsListed

LEMMA OneFact ==
  ASSUME NEW kind, kind # "module", NEW sort, NEW name, NEW path, NEW detail
  PROVE  About(<<Fact(kind, sort, name, path, detail)>>, path)
<1>1. PICK f : f = Fact(kind, sort, name, path, detail)
  OBVIOUS
<1>2. f.path = path /\ f.kind # "module"
  BY <1>1, FactHas
<1>3. IsList(<<f>>) /\ Len(<<f>>) = 1 /\ <<f>>[1] = f
  BY DEF IsList
<1>4. \A i \in 1..Len(<<f>>) : <<f>>[i].path = path /\ <<f>>[i].kind # "module"
  BY <1>2, <1>3
<1>5. About(<<f>>, path)
  BY <1>3, <1>4, FactsListed
<1> QED BY <1>1, <1>5

LEMMA HookFactsTell ==
  ASSUME NEW path, NEW assign, Len(assign.keys) \in Nat, Len(assign.strings) \in Nat
  PROVE  About(HookFacts(path, assign), path)
<1> DEFINE n == Len(assign.strings)
           k == Len(assign.keys)
           services == [i \in 1..n |-> Fact("service", "scheduled_task", assign.strings[i], path, assign.key)]
           events == [i \in 1..n |-> Fact("extension_point", "doc_event", assign.strings[i], path, None)]
           overrides == [i \in 1..k |-> Fact("extension_point", "override_whitelisted_method", assign.keys[i], path, None)]
           configuration == <<Fact("configuration", None, <<assign.key>>, path, None)>>
<1>1. HookFacts(path, assign) =
        CASE assign.key = "scheduler_events" /\ assign.dict -> services
          [] assign.key = "doc_events" /\ assign.dict -> events
          [] assign.key = "override_whitelisted_methods" /\ assign.dict -> overrides
          [] assign.key \in ConfigKeys -> configuration
          [] OTHER -> <<>>
  BY DEF HookFacts, Each
<1>2. About(services, path)
  <2>1. services = [i \in 1..n |-> services[i]]
    OBVIOUS
  <2>2. \A i \in 1..n : services[i].path = path /\ services[i].kind # "module"
    BY FactHas
  <2> HIDE DEF services
  <2>3. IsList(services) /\ Len(services) = n
    BY <2>1, CountedList
  <2> QED BY <2>2, <2>3, FactsListed
<1>3. About(events, path)
  <2>1. events = [i \in 1..n |-> events[i]]
    OBVIOUS
  <2>2. \A i \in 1..n : events[i].path = path /\ events[i].kind # "module"
    BY FactHas
  <2> HIDE DEF events
  <2>3. IsList(events) /\ Len(events) = n
    BY <2>1, CountedList
  <2> QED BY <2>2, <2>3, FactsListed
<1>4. About(overrides, path)
  <2>1. overrides = [i \in 1..k |-> overrides[i]]
    OBVIOUS
  <2>2. \A i \in 1..k : overrides[i].path = path /\ overrides[i].kind # "module"
    BY FactHas
  <2> HIDE DEF overrides
  <2>3. IsList(overrides) /\ Len(overrides) = k
    BY <2>1, CountedList
  <2> QED BY <2>2, <2>3, FactsListed
<1>5. About(configuration, path)
  BY OneFact
<1>6. About(<<>>, path)
  BY NoFacts
<1> HIDE DEF services, events, overrides, configuration
<1>7. HookFacts(path, assign) \in {services, events, overrides, configuration, <<>>}
  BY <1>1 DEF ConfigKeys
<1> QED BY <1>2, <1>3, <1>4, <1>5, <1>6, <1>7

\* What is extracted from a text is about the file it was in.
LEMMA ExtractTells ==
  ASSUME NEW text \in DOMAIN Parsed, NEW type \in RelevantTypes, NEW path
  PROVE  About(Extract(type, path, text), path)
<1>1. CASE type = "hook"
  <2> DEFINE assigns == Parsed[text].assigns
             entry == IF TypeOf[Last(path)].file = "hooks.py"
                      THEN <<Fact("entry_point", "frappe_app_entry", <<"hooks.py">>, path, None)>> ELSE <<>>
             q == [i \in 1..Len(assigns) |-> HookFacts(path, assigns[i])]
             S == UNION {ToSet(q[i]) : i \in 1..Len(assigns)}
  <2>1. Extract(type, path, text) = entry \o FlattenSeq(q)
    BY <1>1 DEF Extract, ExtractHooks, Each
  <2>2. About(entry, path)
    BY OneFact, NoFacts
  <2>3. Len(assigns) \in Nat /\ \A i \in 1..Len(assigns) : About(HookFacts(path, assigns[i]), path)
    BY ParsedAssumption, HookFactsTell
  <2>4. Len(q) = Len(assigns) /\ q = [i \in 1..Len(q) |-> q[i]] /\ \A i \in 1..Len(q) : About(q[i], path)
    <3> HIDE DEF assigns
    <3> QED BY <2>3
  <2> HIDE DEF entry, assigns, q
  <2>5. \A i \in 1..Len(q) : IsList(q[i]) /\ ToSet(q[i]) \subseteq S
    BY <2>4 DEF About
  <2>6. \A f \in S : f.path = path /\ f.kind # "module"
    BY <2>4 DEF About
  <2>7. IsList(q)
    BY <2>3, <2>4 DEF IsList
  <2> HIDE DEF S
  <2>8. IsList(FlattenSeq(q)) /\ ToSet(FlattenSeq(q)) \subseteq S
    BY <2>3, <2>4, <2>5, <2>7, FlattenedFrom
  <2>9. /\ IsList(entry \o FlattenSeq(q))
        /\ ToSet(entry \o FlattenSeq(q)) = ToSet(entry) \cup ToSet(FlattenSeq(q))
    BY <2>2, <2>8, ListJoined DEF About
  <2> QED BY <2>1, <2>2, <2>6, <2>8, <2>9 DEF About
<1>2. CASE type = "doctype"
  <2>1. \E name : Extract(type, path, text) = <<Fact("component", "doctype", name, path, None)>>
    BY <1>2 DEF Extract, ExtractComponents
  <2> QED BY <2>1, OneFact
<1>3. CASE type = "python_source"
  <2> DEFINE apis == SelectSeq(Parsed[text].functions, LAMBDA f : \E d \in f.decorators : IsWhitelistDecorator(d))
             q == [i \in 1..Len(apis) |-> Fact("api", "whitelisted_method", <<apis[i].name>>, path, None)]
  <2>1. Extract(type, path, text) = q
    BY <1>3 DEF Extract, ExtractApis, Each
  <2>2. Len(apis) \in Nat
    <3>1. PICK T : Parsed[text].functions \in Seq(T)
      BY ParsedAssumption
    <3> QED BY <3>1
  <2> HIDE DEF apis
  <2>3. \A i \in 1..Len(apis) : q[i].path = path /\ q[i].kind # "module"
    BY FactHas
  <2>4. q = [i \in 1..Len(apis) |-> q[i]]
    OBVIOUS
  <2> HIDE DEF q
  <2>5. IsList(q) /\ Len(q) = Len(apis)
    BY <2>4, CountedList
  <2> QED BY <2>1, <2>2, <2>3, <2>4, <2>5, FactsListed
<1>4. CASE type = "config"
  <2>1. CASE ~ReadsDependencies(path)
    <3>1. Extract(type, path, text) = <<>>
      BY <1>4, <2>1 DEF Extract, ExtractDependencies
    <3> QED BY <3>1, NoFacts
  <2>2. CASE ReadsDependencies(path)
    <3> DEFINE requirements == Parsed[text].requirements
               q == [i \in 1..Len(requirements) |->
                       Fact("dependency", None, <<requirements[i].name>>, path, requirements[i].constraint)]
    <3>1. Extract(type, path, text) = q
      BY <1>4, <2>2 DEF Extract, ExtractDependencies, Each
    <3>2. Len(requirements) \in Nat
      BY ParsedAssumption
    <3> HIDE DEF requirements
    <3>3. \A i \in 1..Len(requirements) : q[i].path = path /\ q[i].kind # "module"
      BY FactHas
    <3>4. q = [i \in 1..Len(requirements) |-> q[i]]
      OBVIOUS
    <3> HIDE DEF q
    <3>5. IsList(q) /\ Len(q) = Len(requirements)
      BY <3>4, CountedList
    <3> QED BY <3>1, <3>2, <3>3, <3>4, <3>5, FactsListed
  <2> QED BY <2>1, <2>2
<1> QED BY <1>1, <1>2, <1>3, <1>4 DEF RelevantTypes, StageOf

\* A finite set can be listed.
LEMMA SetListed ==
  ASSUME NEW S, IsFiniteSet(S)
  PROVE  IsList(SetToSeq(S)) /\ ToSet(SetToSeq(S)) \subseteq S
<1> DEFINE n == Cardinality(S)
<1>1. n \in Nat /\ ExistsBijection(1..n, S)
  BY FS_CardinalityType
<1>2. \E f \in [1..n -> S] : IsInjective(f)
  BY <1>1 DEF ExistsBijection, Bijection, Injection
<1>3. SetToSeq(S) \in [1..n -> S]
  BY <1>2 DEF SetToSeq
<1> HIDE DEF n
<1>4. SetToSeq(S) \in Seq(S)
  BY <1>1, <1>3
<1> QED BY <1>4 DEF IsList, ToSet

LEMMA ImageIsFinite ==
  ASSUME NEW S, IsFiniteSet(S), NEW g
  PROVE  IsFiniteSet({g[x] : x \in S})
<1> DEFINE T == {g[x] : x \in S}
           h == [x \in S |-> g[x]]
<1>1. h \in Surjection(S, T)
  BY DEF Surjection
<1> HIDE DEF T, h
<1> QED BY <1>1, FS_Surjection DEF T

LEMMA ElementsAreFinite ==
  ASSUME NEW q, IsList(q)
  PROVE  IsFiniteSet(ToSet(q))
<1>1. ToSet(q) = {q[i] : i \in 1..Len(q)} /\ Len(q) \in Nat
  BY DEF IsList, ToSet
<1>2. IsFiniteSet(1..Len(q))
  BY <1>1, FS_Interval
<1> QED BY <1>1, <1>2, ImageIsFinite

LEMMA ModulesListed ==
  ASSUME IsList(inventory.files)
  PROVE  IsList(IdentifyModules) /\ \A f \in ToSet(IdentifyModules) : f.kind = "module"
<1> DEFINE named(name) == {f \in ToSet(inventory.files) : TypeOf[Last(f)].file = name}
           packages == {Front(f) : f \in named("__init__.py")} \ {Root}
           apps == {Front(f) : f \in {g \in named("hooks.py") : Len(g) = 2 /\ g[1] \in inventory.metadata.top}}
           fronts == {Front(f) : f \in ToSet(inventory.files)}
           P == {Fact("module", "python_package", p, p, None) : p \in packages}
           A == {Fact("module", "frappe_app", p, p, None) : p \in apps}
<1>1. IdentifyModules = SetToSeq(P) \o SetToSeq(A)
  BY DEF IdentifyModules
<1>2. IsFiniteSet(fronts)
  <2>1. IsFiniteSet(ToSet(inventory.files))
    BY ElementsAreFinite
  <2> DEFINE g == [f \in ToSet(inventory.files) |-> Front(f)]
  <2>2. fronts = {g[f] : f \in ToSet(inventory.files)}
    OBVIOUS
  <2> HIDE DEF g, fronts
  <2> QED BY <2>1, <2>2, ImageIsFinite
<1>3. packages \subseteq fronts /\ apps \subseteq fronts
  OBVIOUS
<1> HIDE DEF packages, apps, fronts
<1>4. IsFiniteSet(packages) /\ IsFiniteSet(apps)
  BY <1>2, <1>3, FS_Subset
<1>5. IsFiniteSet(P)
  <2> DEFINE g == [p \in packages |-> Fact("module", "python_package", p, p, None)]
  <2>1. P = {g[p] : p \in packages}
    OBVIOUS
  <2> HIDE DEF g, P
  <2> QED BY <1>4, <2>1, ImageIsFinite
<1>6. IsFiniteSet(A)
  <2> DEFINE g == [p \in apps |-> Fact("module", "frappe_app", p, p, None)]
  <2>1. A = {g[p] : p \in apps}
    OBVIOUS
  <2> HIDE DEF g, A
  <2> QED BY <1>4, <2>1, ImageIsFinite
<1>7. \A f \in P \cup A : f.kind = "module"
  BY FactHas
<1> HIDE DEF P, A
<1> QED BY <1>1, <1>5, <1>6, <1>7, SetListed, ListJoined

------------------------------------------------------------------------------
(* What is examined of the inventory, and what is said of it.              *)

SynthesisFields == {"at", "request", "todo", "remaining", "truncated", "expired", "facts", "unresolved"}

\* Whatever can be read states something, or is not UTF-8.
ReadableOK == job.kind # "calls" => \A p \in DOMAIN disk : disk[p] \in Contents

\* What was listed as a file and stayed what it was is a file.
ListedAreFiles == \A i \in 1..Len(walk.files) : walk.files[i] \in lasting => IsFile(walk.files[i])

\* The inventory is of the walk that is over.
InventoryOK == inventory # None => walk.at = "done" /\ inventory.files = walk.files

\* The places of the files that some stage is for.
ToExamine == {place \in DOMAIN inventory.files : TypeAt(place) \in RelevantTypes}

BudgetOK ==
  /\ synthesis.remaining \in Nat /\ synthesis.request.maxFiles = Len(examined) + synthesis.remaining
  /\ synthesis.truncated => synthesis.expired \/ synthesis.remaining = 0

\* A file is examined once, as what the inventory has it for; none that is not
\* to come is left out without a word.
ExaminedOK ==
  /\ IsList(examined) /\ synthesis.todo \subseteq ToExamine
  /\ \A i \in 1..Len(examined) : \E place \in ToExamine \ synthesis.todo :
       examined[i].path = inventory.files[place] /\ examined[i].type = TypeAt(place)
  /\ \A i, j \in 1..Len(examined) : examined[i].path = examined[j].path => i = j
  /\ ~synthesis.truncated =>
       \A place \in ToExamine \ synthesis.todo : \E i \in 1..Len(examined) : examined[i].path = inventory.files[place]

SaidOf(list, path) == {f \in ToSet(list) : f.path = path /\ f.kind # "module"}

Tells(type, path) ==
  IF Parses(type, path, disk[path])
  THEN SaidOf(synthesis.facts, path) = ToSet(Extract(type, path, disk[path]))
  ELSE SaidOf(synthesis.facts, path) = {} /\ \E u \in ToSet(synthesis.unresolved) : u.path = path

\* What is said is of modules or of files examined; of those that stayed what
\* they were it is what they state.
SaidOK ==
  /\ IsList(synthesis.facts) /\ IsList(synthesis.unresolved)
  /\ \A f \in ToSet(synthesis.facts) : f.kind = "module" \/ \E i \in 1..Len(examined) : f.path = examined[i].path
  /\ \A i \in 1..Len(examined) : examined[i].path \in lasting => Tells(examined[i].type, examined[i].path)

\* The facts are put together once all is examined.
FactsOK ==
  facts # None =>
    /\ synthesis.at = "done" /\ synthesis.todo = {}
    /\ facts.all = synthesis.facts /\ facts.unresolved = synthesis.unresolved /\ facts.truncated = synthesis.truncated
    /\ facts.statistics.filesExamined = synthesis.request.maxFiles - synthesis.remaining
    /\ facts.statistics.filesSkipped = Len(inventory.files) - Cardinality(Relevant)

SynthesisIs ==
  /\ synthesis = [f \in SynthesisFields |-> synthesis[f]]
  /\ synthesis.at \in {"none", "extract", "failed", "done"}
  /\ synthesis.at = "none" => examined = <<>>
  /\ synthesis.at # "none" => inventory # None
  /\ synthesis.at \in {"extract", "done"} => BudgetOK /\ ExaminedOK /\ SaidOK
  /\ FactsOK

SynthesisOK == ReadableOK /\ ListedAreFiles /\ InventoryOK /\ SynthesisIs

\* What stays as it is with what it is about.
LEMMA SameInventory ==
  ASSUME UNCHANGED inventory
  PROVE  /\ \A place : TypeAt(place)' = TypeAt(place)
         /\ ToExamine' = ToExamine /\ Relevant' = Relevant
<1>1. \A place : TypeAt(place)' = TypeAt(place)
  BY DEF TypeAt
<1> QED BY <1>1 DEF ToExamine, Relevant

LEMMA ExaminedStays ==
  ASSUME UNCHANGED <<inventory, synthesizing>>
  PROVE  (BudgetOK => BudgetOK') /\ (ExaminedOK => ExaminedOK') /\ (FactsOK => FactsOK')
<1>1. UNCHANGED <<synthesis, facts, examined>>
  BY DEF synthesizing
<1>2. BudgetOK => BudgetOK'
  BY <1>1 DEF BudgetOK
<1>3. ExaminedOK => ExaminedOK'
  BY <1>1, SameInventory DEF ExaminedOK
<1>4. FactsOK => FactsOK'
  BY <1>1, SameInventory DEF FactsOK
<1> QED BY <1>2, <1>3, <1>4

LEMMA SaidStays ==
  ASSUME SaidOK, UNCHANGED synthesizing, lasting' \subseteq lasting, \A p \in lasting' : disk'[p] = disk[p]
  PROVE  SaidOK'
<1>1. UNCHANGED <<synthesis, examined>>
  BY DEF synthesizing
<1>2. ASSUME NEW type, NEW p \in lasting', Tells(type, p)
      PROVE  Tells(type, p)'
  BY <1>1, <1>2 DEF Tells
<1>3. IsList(synthesis.facts)' /\ IsList(synthesis.unresolved)'
  BY <1>1 DEF SaidOK
<1>4. \A f \in ToSet(synthesis.facts)' : f.kind = "module" \/ \E i \in 1..Len(examined') : f.path = examined'[i].path
  BY <1>1 DEF SaidOK
<1>5. \A i \in 1..Len(examined') : examined'[i].path \in lasting' => Tells(examined[i].type, examined[i].path)'
  BY <1>1, <1>2 DEF SaidOK
<1> QED BY <1>1, <1>3, <1>4, <1>5 DEF SaidOK

\* A step of others, on a disk where what stays is what it was.
LEMMA SynthesisRests ==
  ASSUME SynthesisOK, UNCHANGED <<walk, inventory, synthesizing>>, ReadableOK',
         lasting' \subseteq lasting, \A p \in lasting' : disk'[p] = disk[p] /\ (p \in DOMAIN disk => p \in DOMAIN disk')
  PROVE  SynthesisOK'
<1>1. ListedAreFiles'
  BY DEF SynthesisOK, ListedAreFiles, IsFile
<1>2. InventoryOK'
  BY DEF SynthesisOK, InventoryOK
<1>3. UNCHANGED <<synthesis, examined, facts>>
  BY DEF synthesizing
<1>4. SynthesisIs'
  <2>1. FactsOK'
    BY ExaminedStays DEF SynthesisOK, SynthesisIs
  <2>2. synthesis.at \in {"extract", "done"} => BudgetOK' /\ ExaminedOK' /\ SaidOK'
    BY ExaminedStays, SaidStays DEF SynthesisOK, SynthesisIs
  <2> QED BY <1>3, <2>1, <2>2 DEF SynthesisOK, SynthesisIs
<1> QED BY <1>1, <1>2, <1>4 DEF SynthesisOK

\* As long as there is no inventory nothing is examined.
LEMMA NothingExamined ==
  ASSUME SynthesisOK, inventory = None
  PROVE  synthesis.at = "none" /\ examined = <<>> /\ facts = None
BY DEF SynthesisOK, SynthesisIs, FactsOK

LEMMA WaitsForInventory ==
  ASSUME SynthesisOK, inventory = None, UNCHANGED synthesizing, ReadableOK', ListedAreFiles', InventoryOK'
  PROVE  SynthesisOK'
<1>1. synthesis.at = "none" /\ examined = <<>> /\ facts = None
  BY NothingExamined
<1>2. UNCHANGED <<synthesis, examined, facts>>
  BY DEF synthesizing
<1>3. SynthesisIs'
  BY <1>1, <1>2 DEF SynthesisOK, SynthesisIs, FactsOK
<1> QED BY <1>3 DEF SynthesisOK

------------------------------------------------------------------------------
(* The walk before it.                                                     *)

LEMMA NoInventoryYet ==
  ASSUME SynthesisOK, walk.at # "done"
  PROVE  inventory = None
BY DEF SynthesisOK, InventoryOK

\* A path that is not a directory, and is still there, is a file.
LEMMA LeafIsFile ==
  ASSUME NEW p \in Paths, p \in DOMAIN disk, Listing(p).error = "NotADirectoryError"
  PROVE  IsFile(p)
<1>1. ~IsDir(p)
  BY ListingTells, NoneAssumption DEF Errors, OSErrors
<1>2. disk[p] # Outside
  <2> SUFFICES ASSUME disk[p] = Outside PROVE FALSE
    OBVIOUS
  <2>1. SubSeq(p, 1, Len(p)) = p /\ Len(p) \in 0..Len(p)
    BY DEF Paths
  <2>2. Escapes(p)
    BY <2>1, EscapesThroughLinks
  <2>3. Listing(p) = Raise("ValueError")
    BY <2>2, NoneAssumption DEF Listing, Read, ResolveError, Errors
  <2> QED BY <2>3 DEF Raise
<1> QED BY <1>1, <1>2 DEF IsFile, IsDir

LEMMA ReturnLists ==
  ASSUME NEW w, w = [f \in WalkFields |-> w[f]], NEW errors, NEW truncated
  PROVE  /\ AfterReturn(w).files = w.files
         /\ AfterReturn([w EXCEPT !.errors = errors]).files = w.files
         /\ AfterReturn([w EXCEPT !.truncated = truncated]).files = w.files
<1>1. ASSUME NEW v, v = [f \in WalkFields |-> v[f]] PROVE AfterReturn(v).files = v.files
  <2>1. \E frames, at : AfterReturn(v) = [v EXCEPT !.frames = frames, !.at = at]
    BY DEF AfterReturn
  <2> QED BY <1>1, <2>1 DEF WalkFields
<1>2. /\ [w EXCEPT !.errors = errors] = [f \in WalkFields |-> [w EXCEPT !.errors = errors][f]]
      /\ [w EXCEPT !.errors = errors].files = w.files
  BY DEF WalkFields
<1>3. /\ [w EXCEPT !.truncated = truncated] = [f \in WalkFields |-> [w EXCEPT !.truncated = truncated][f]]
      /\ [w EXCEPT !.truncated = truncated].files = w.files
  BY DEF WalkFields
<1> QED BY <1>1, <1>2, <1>3

\* A step of a walk lists no file, or a name that is no directory.
LEMMA WalkLists ==
  ASSUME WalkOK, job.kind # "calls", WalkNext
  PROVE  \/ walk'.files = walk.files
         \/ /\ walk'.files = Append(walk.files, Child)
            /\ Listing(Child).error = "NotADirectoryError" /\ Child \in Paths
<1>1. PICK w : w = walk
  OBVIOUS
<1>2. w = [f \in WalkFields |-> w[f]]
  BY <1>1 DEF WalkOK, WalkIs, Shaped
<1>3. CASE Expire
  BY <1>1, <1>2, <1>3 DEF Expire, WalkFields
<1>4. CASE Visit
  <2>1. PICK answer, errors : answer = Listing(Frame.dir) /\ errors = Erred(Frame.dir)
    OBVIOUS
  <2>2. \/ walk' = [w EXCEPT !.at = "names", !.frames[Len(w.frames)].names = answer.value]
        \/ walk' = AfterReturn([w EXCEPT !.errors = errors])
        \/ walk' = [w EXCEPT !.at = "failed"]
    BY <1>1, <1>4, <2>1 DEF Visit, Listing
  <2>3. CASE walk' = AfterReturn([w EXCEPT !.errors = errors])
    BY <1>1, <1>2, <2>3, ReturnLists
  <2>4. CASE walk' = [w EXCEPT !.at = "names", !.frames[Len(w.frames)].names = answer.value] \/ walk' = [w EXCEPT !.at = "failed"]
    BY <1>1, <1>2, <2>4 DEF WalkFields
  <2> QED BY <2>2, <2>3, <2>4
<1>5. CASE LeaveDirectory
  BY <1>1, <1>2, <1>5, ReturnLists DEF LeaveDirectory
<1>6. CASE Truncate
  <2>1. walk' = AfterReturn([w EXCEPT !.truncated = TRUE])
    BY <1>1, <1>6 DEF Truncate
  <2> QED BY <1>1, <1>2, <2>1, ReturnLists
<1>7. CASE SkipExcluded
  <2>1. walk' = [w EXCEPT !.frames[Len(w.frames)].names = @ \ {Name}]
    BY <1>1, <1>7 DEF SkipExcluded, WithoutName
  <2> QED BY <1>1, <1>2, <2>1 DEF WalkFields
<1>8. CASE Look
  <2>1. PICK v, c, error : v = WithoutName(w) /\ c = Child /\ error = Listing(Child).error
    OBVIOUS
  <2>2. v = [f \in WalkFields |-> v[f]] /\ v.files = w.files
    BY <1>2, <2>1 DEF WithoutName, WalkFields
  <2>3. \/ \E frames, directories, top : walk' = [v EXCEPT !.at = "visit", !.frames = frames, !.directories = directories, !.top = top]
        \/ walk' = [v EXCEPT !.files = Append(@, c)] /\ error = "NotADirectoryError"
        \/ \E errors : walk' = [v EXCEPT !.errors = errors]
        \/ walk' = [w EXCEPT !.at = "failed"]
    BY <1>1, <1>8, <2>1 DEF Look, IsLeaf, Listing
  <2>4. walk'.files = w.files \/ (walk'.files = Append(w.files, c) /\ error = "NotADirectoryError")
    BY <1>2, <2>2, <2>3 DEF WalkFields
  <2>5. Child \in Paths
    <3>1. PICK u, name : u = WithoutName(walk) /\ name = Name
      OBVIOUS
    <3>2. DiskOK /\ Takes(w, u, name, c)
      BY <1>1, <1>8, <2>1, <3>1, NameStep DEF Look, MayLook
    <3>3. Shaped(w) /\ w.at = "names"
      BY <1>1, <1>8 DEF WalkOK, WalkIs, Look, MayLook
    <3> QED BY <2>1, <3>2, <3>3, WithoutIt
  <2> QED BY <1>1, <2>1, <2>4, <2>5
<1>9. CASE ClassifyEntries
  BY <1>1, <1>2, <1>9 DEF ClassifyEntries, WalkFields
<1>10. CASE AssembleInventory
  BY <1>1, <1>2, <1>10 DEF AssembleInventory, WalkFields
<1> QED BY <1>3, <1>4, <1>5, <1>6, <1>7, <1>8, <1>9, <1>10 DEF WalkNext

LEMMA WalkFinds ==
  ASSUME WalkOK, SynthesisOK, job.kind # "calls", UNCHANGED <<disk, lasting>>, WalkNext
  PROVE  ListedAreFiles'
<1>1. \A p \in lasting' : IsFile(p)' <=> IsFile(p)
  BY DEF IsFile
<1>2. CASE walk'.files = walk.files
  BY <1>1, <1>2 DEF SynthesisOK, ListedAreFiles
<1>3. CASE walk'.files = Append(walk.files, Child) /\ Listing(Child).error = "NotADirectoryError" /\ Child \in Paths
  <2>1. walk.files \in Seq(Paths)
    BY DEF WalkOK, WalkIs, Shaped
  <2>2. PICK c : c = Child
    OBVIOUS
  <2>3. c \in lasting => IsFile(c)
    BY <1>3, <2>2, LeafIsFile DEF WalkOK, DiskOK
  <2>4. \A i \in 1..Len(walk'.files) : walk'.files[i] = c \/ (i \in 1..Len(walk.files) /\ walk'.files[i] = walk.files[i])
    BY <2>1, <1>3, <2>2
  <2> QED BY <1>1, <2>3, <2>4 DEF SynthesisOK, ListedAreFiles
<1> QED BY <1>2, <1>3, WalkLists

\* The inventory is made of a walk that is over, and then nothing is walked.
LEMMA WalkStepKeeps ==
  ASSUME WalkOK, SynthesisOK, job.kind # "calls", UNCHANGED <<job, disk, lasting, synthesizing>>, WalkNext
  PROVE  SynthesisOK'
<1>1. walk.at # "done"
  BY DEF WalkNext, Expire, Visit, LeaveDirectory, SkipExcluded, Truncate, MayLook, Look, ClassifyEntries, AssembleInventory
<1>2. inventory = None
  BY <1>1, NoInventoryYet
<1>3. ReadableOK'
  BY DEF SynthesisOK, ReadableOK
<1>4. InventoryOK'
  <2>1. CASE AssembleInventory
    <3>1. walk = [f \in WalkFields |-> walk[f]]
      BY DEF WalkOK, WalkIs, Shaped
    <3>2. walk'.at = "done" /\ walk'.files = walk.files /\ inventory'.files = walk.files
      BY <2>1, <3>1 DEF AssembleInventory, WalkFields
    <3> QED BY <3>2 DEF InventoryOK
  <2>2. CASE ~AssembleInventory
    <3>1. inventory' = None
      BY <1>2, <2>2 DEF WalkNext, Expire, Visit, LeaveDirectory, SkipExcluded, Truncate, Look, ClassifyEntries
    <3> QED BY <3>1 DEF InventoryOK
  <2> QED BY <2>1, <2>2
<1> QED BY <1>2, <1>3, <1>4, WaitsForInventory, WalkFinds

LEMMA BeginWalkStarts ==
  ASSUME SynthesisOK, UNCHANGED <<job, disk, lasting, synthesizing>>, NEW request, BeginWalk(request)
  PROVE  SynthesisOK'
<1>1. inventory = None /\ inventory' = None
  BY NoInventoryYet DEF BeginWalk
<1>2. walk'.files = <<>>
  BY DEF BeginWalk, NotStarted
<1>3. ListedAreFiles'
  BY <1>2 DEF ListedAreFiles
<1>4. InventoryOK' /\ ReadableOK'
  BY <1>1 DEF InventoryOK, SynthesisOK, ReadableOK
<1> QED BY <1>1, <1>3, <1>4, WaitsForInventory

------------------------------------------------------------------------------
(* The steps of synthesis.                                                 *)

LEMMA SynthesisBecomes ==
  ASSUME SynthesisOK, UNCHANGED <<job, walk, inventory, disk, lasting>>, SynthesisIs'
  PROVE  SynthesisOK'
<1>1. ReadableOK' /\ ListedAreFiles' /\ InventoryOK'
  BY DEF SynthesisOK, ReadableOK, ListedAreFiles, InventoryOK, IsFile
<1> QED BY <1>1 DEF SynthesisOK

LEMMA InventoryLists ==
  ASSUME WalkOK, job.kind # "calls", SynthesisOK, inventory # None
  PROVE  /\ inventory.files = walk.files /\ walk.at = "done"
         /\ inventory.files \in Seq(Paths) /\ IsList(inventory.files) /\ IsInjective(inventory.files)
<1>1. inventory.files = walk.files /\ walk.at = "done"
  BY DEF SynthesisOK, InventoryOK
<1>2. Shaped(walk) /\ GoingOn(walk)
  BY <1>1 DEF WalkOK, WalkIs, Over
<1>3. walk.files \in Seq(Paths) /\ IsInjective(walk.files)
  BY <1>2 DEF Shaped, GoingOn, ListedOK
<1>4. IsList(walk.files)
  BY <1>3 DEF IsList
<1> QED BY <1>1, <1>3, <1>4

LEMMA BeginSynthesisKeeps ==
  ASSUME WalkOK, SynthesisOK, job.kind # "calls", UNCHANGED <<job, walk, inventory, disk, lasting>>,
         NEW request \in job.syntheses, BeginSynthesis(request)
  PROVE  SynthesisOK'
<1>1. request.maxFiles \in Nat
  BY ContentsAssumption DEF WalkOK
<1>2. examined' = <<>> /\ facts' = None /\ inventory # None
  BY DEF BeginSynthesis, SynthesisOK, SynthesisIs, FactsOK
<1>3. PICK todo, modules, at :
        /\ todo = UNION {Partition(type) : type \in RelevantTypes} /\ modules = IdentifyModules
        /\ at = IF ConnectError = None THEN "extract" ELSE "failed"
  OBVIOUS
<1>4. synthesis' = [NotSynthesizing EXCEPT !.at = at, !.request = request, !.todo = todo,
                                           !.remaining = request.maxFiles, !.facts = modules]
  BY <1>3 DEF BeginSynthesis
<1>5. /\ synthesis' = [f \in SynthesisFields |-> synthesis'[f]]
      /\ synthesis'.at = at /\ synthesis'.request = request /\ synthesis'.todo = todo
      /\ synthesis'.remaining = request.maxFiles /\ synthesis'.truncated = FALSE
      /\ synthesis'.facts = modules /\ synthesis'.unresolved = <<>>
  BY <1>4 DEF NotSynthesizing, SynthesisFields
<1>6. BudgetOK'
  BY <1>1, <1>2, <1>5 DEF BudgetOK
<1>7. ExaminedOK'
  <2>1. todo = ToExamine
    BY <1>3 DEF ToExamine, Partition
  <2>2. ToExamine' = ToExamine
    BY SameInventory
  <2>3. IsList(<<>>) /\ Len(<<>>) = 0
    BY DEF IsList
  <2>4. \A i \in 1..0 : FALSE
    OBVIOUS
  <2> QED BY <1>2, <1>5, <2>1, <2>2, <2>3, <2>4 DEF ExaminedOK
<1>8. SaidOK'
  <2>1. IsList(modules) /\ \A f \in ToSet(modules) : f.kind = "module"
    BY <1>2, <1>3, InventoryLists, ModulesListed
  <2>2. IsList(<<>>) /\ Len(<<>>) = 0
    BY DEF IsList
  <2>3. \A i \in 1..0 : FALSE
    OBVIOUS
  <2> QED BY <1>2, <1>5, <2>1, <2>2, <2>3 DEF SaidOK
<1>9. SynthesisIs'
  BY <1>2, <1>3, <1>5, <1>6, <1>7, <1>8 DEF SynthesisIs, FactsOK
<1> QED BY <1>9, SynthesisBecomes

\* The next file is one that is still to examine.
LEMMA TodoIsThere ==
  ASSUME IsList(inventory.files), synthesis.todo \subseteq ToExamine, synthesis.todo # {}
  PROVE  Todo \in synthesis.todo
<1>1. PICK todo : todo = synthesis.todo
  OBVIOUS
<1>2. todo \in SUBSET Nat
  BY <1>1 DEF ToExamine, IsList
<1>3. \A place \in todo : TypeAt(place) \in RelevantTypes
  BY <1>1 DEF ToExamine
<1>4. \A t \in RelevantTypes : StageOf[t] \in Nat
  BY DEF RelevantTypes, StageOf
<1>5. \A t, u \in RelevantTypes : StageOf[t] = StageOf[u] => t = u
  BY DEF RelevantTypes, StageOf
<1> DEFINE stages == {StageOf[TypeAt(place)] : place \in todo}
<1>6. PICK stage \in stages : \A other \in stages : stage <= other
  <2>1. stages \in SUBSET Nat /\ stages # {}
    BY <1>1, <1>3, <1>4
  <2> QED BY <2>1, LeastNumber
<1> DEFINE first == {place \in todo : StageOf[TypeAt(place)] = stage}
<1>7. PICK place \in first : \A other \in first : place <= other
  <2>1. first \in SUBSET Nat /\ first # {}
    BY <1>2, <1>6
  <2> QED BY <2>1, LeastNumber
<1>8. \A other \in todo :
        \/ StageOf[TypeAt(place)] < StageOf[TypeAt(other)]
        \/ TypeAt(place) = TypeAt(other) /\ place <= other
  <2> TAKE other \in todo
  <2>1. stage <= StageOf[TypeAt(other)] /\ StageOf[TypeAt(place)] = stage
    BY <1>6, <1>7
  <2>2. stage \in Nat /\ StageOf[TypeAt(other)] \in Nat
    BY <1>3, <1>4, <2>1, <1>7
  <2>3. CASE StageOf[TypeAt(other)] = stage
    BY <1>3, <1>5, <1>7, <2>1, <2>3
  <2>4. CASE StageOf[TypeAt(other)] # stage
    BY <2>1, <2>2, <2>4
  <2> QED BY <2>3, <2>4
<1>9. place \in todo
  BY <1>7
<1> QED BY <1>1, <1>8, <1>9 DEF Todo

LEMMA ExpireSynthesisKeeps ==
  ASSUME SynthesisOK, UNCHANGED <<job, walk, inventory, disk, lasting>>, ExpireSynthesis
  PROVE  SynthesisOK'
<1>1. synthesis = [f \in SynthesisFields |-> synthesis[f]] /\ synthesis.at = "extract" /\ facts = None
  BY DEF SynthesisOK, SynthesisIs, FactsOK, ExpireSynthesis
<1>2. /\ synthesis' = [f \in SynthesisFields |-> synthesis'[f]]
      /\ synthesis'.at = "extract" /\ synthesis'.request = synthesis.request /\ synthesis'.todo = synthesis.todo
      /\ synthesis'.remaining = synthesis.remaining /\ synthesis'.truncated = synthesis.truncated
      /\ synthesis'.facts = synthesis.facts /\ synthesis'.unresolved = synthesis.unresolved
      /\ synthesis'.expired = TRUE /\ UNCHANGED <<facts, examined>>
  BY <1>1 DEF ExpireSynthesis, SynthesisFields
<1>3. BudgetOK /\ ExaminedOK /\ SaidOK /\ inventory # None
  BY <1>1 DEF SynthesisOK, SynthesisIs
<1>4. BudgetOK' /\ ExaminedOK'
  BY <1>2, <1>3, SameInventory DEF BudgetOK, ExaminedOK
<1>5. SaidOK'
  <2>1. \A type, p : Tells(type, p)' <=> Tells(type, p)
    BY <1>2 DEF Tells
  <2> QED BY <1>2, <1>3, <2>1 DEF SaidOK
<1>6. SynthesisIs'
  BY <1>1, <1>2, <1>3, <1>4, <1>5 DEF SynthesisIs, FactsOK
<1> QED BY <1>6, SynthesisBecomes

LEMMA LeaveStageKeeps ==
  ASSUME SynthesisOK, UNCHANGED <<job, walk, inventory, disk, lasting>>, LeaveStage
  PROVE  SynthesisOK'
<1>1. synthesis = [f \in SynthesisFields |-> synthesis[f]] /\ synthesis.at = "extract" /\ facts = None
  BY DEF SynthesisOK, SynthesisIs, FactsOK, LeaveStage
<1>2. PICK left : left = OfThisStage
  OBVIOUS
<1>3. /\ synthesis' = [f \in SynthesisFields |-> synthesis'[f]]
      /\ synthesis'.at = "extract" /\ synthesis'.request = synthesis.request /\ synthesis'.todo = synthesis.todo \ left
      /\ synthesis'.remaining = synthesis.remaining /\ synthesis'.truncated = TRUE
      /\ synthesis'.facts = synthesis.facts /\ synthesis'.unresolved = synthesis.unresolved
      /\ synthesis'.expired = synthesis.expired /\ UNCHANGED <<facts, examined>>
      /\ synthesis.expired \/ synthesis.remaining = 0
  BY <1>1, <1>2 DEF LeaveStage, SynthesisFields, Exhausted
<1>4. BudgetOK /\ ExaminedOK /\ SaidOK /\ inventory # None
  BY <1>1 DEF SynthesisOK, SynthesisIs
<1>5. BudgetOK'
  BY <1>3, <1>4 DEF BudgetOK
<1>6. ExaminedOK'
  <2>1. \A i \in 1..Len(examined) : \E place \in ToExamine \ (synthesis.todo \ left) :
          examined[i].path = inventory.files[place] /\ examined[i].type = TypeAt(place)
    BY <1>4 DEF ExaminedOK
  <2> QED BY <1>3, <1>4, <2>1, SameInventory DEF ExaminedOK
<1>7. SaidOK'
  <2>1. \A type, p : Tells(type, p)' <=> Tells(type, p)
    BY <1>3 DEF Tells
  <2> QED BY <1>3, <1>4, <2>1 DEF SaidOK
<1>8. SynthesisIs'
  BY <1>1, <1>3, <1>4, <1>5, <1>6, <1>7 DEF SynthesisIs, FactsOK
<1> QED BY <1>8, SynthesisBecomes

LEMMA AssembleFactsKeeps ==
  ASSUME SynthesisOK, UNCHANGED <<job, walk, inventory, disk, lasting>>, AssembleFacts
  PROVE  SynthesisOK'
<1>1. synthesis = [f \in SynthesisFields |-> synthesis[f]] /\ synthesis.at = "extract" /\ synthesis.todo = {}
  BY DEF SynthesisOK, SynthesisIs, AssembleFacts
<1>2. /\ synthesis' = [f \in SynthesisFields |-> synthesis'[f]]
      /\ synthesis'.at = "done" /\ synthesis'.request = synthesis.request /\ synthesis'.todo = synthesis.todo
      /\ synthesis'.remaining = synthesis.remaining /\ synthesis'.truncated = synthesis.truncated
      /\ synthesis'.facts = synthesis.facts /\ synthesis'.unresolved = synthesis.unresolved
      /\ synthesis'.expired = synthesis.expired /\ UNCHANGED examined
  BY <1>1 DEF AssembleFacts, SynthesisFields
<1>3. BudgetOK /\ ExaminedOK /\ SaidOK /\ inventory # None
  BY <1>1 DEF SynthesisOK, SynthesisIs
<1>4. BudgetOK' /\ ExaminedOK'
  BY <1>2, <1>3, SameInventory DEF BudgetOK, ExaminedOK
<1>5. SaidOK'
  <2>1. \A type, p : Tells(type, p)' <=> Tells(type, p)
    BY <1>2 DEF Tells
  <2> QED BY <1>2, <1>3, <2>1 DEF SaidOK
<1>6. FactsOK'
  <2>1. /\ facts'.all = synthesis.facts /\ facts'.unresolved = synthesis.unresolved
        /\ facts'.truncated = synthesis.truncated
        /\ facts'.statistics.filesExamined = synthesis.request.maxFiles - synthesis.remaining
        /\ facts'.statistics.filesSkipped = Len(inventory.files) - Cardinality(Relevant)
    BY DEF AssembleFacts
  <2> QED BY <1>1, <1>2, <2>1, SameInventory DEF FactsOK
<1>7. SynthesisIs'
  BY <1>1, <1>2, <1>3, <1>4, <1>5, <1>6 DEF SynthesisIs
<1> QED BY <1>7, SynthesisBecomes

\* What reading a file of the inventory tells.
LEMMA ReadingTells ==
  ASSUME ReadableOK, job.kind # "calls", NEW p \in Paths,
         NEW answer, answer = Read(TRUE, "filesystem.read_text", p)
  PROVE  /\ answer.error = None => p \in DOMAIN disk /\ answer.value = disk[p] /\ answer.value \in DOMAIN Parsed
         /\ IsFile(p) /\ answer.error \in OSErrors => FALSE
<1>1. Resolved(p) = p
  BY ResolvedPath
<1>2. "ValueError" # None /\ "FileNotFoundError" # None /\ "UnicodeDecodeError" # None
  BY NoneAssumption DEF Errors, OSErrors
<1>3. "ValueError" \notin OSErrors /\ "UnicodeDecodeError" \notin OSErrors /\ None \notin OSErrors
  BY NoneAssumption DEF Errors, OSErrors
<1>4. \A error : Raise(error).error = error
  BY DEF Raise
<1>5. CASE Escapes(p)
  <2>1. answer = Raise("ValueError")
    BY <1>2, <1>5 DEF Read, ResolveError
  <2> QED BY <1>2, <1>3, <1>4, <2>1
<1>6. CASE ~Escapes(p)
  <2>1. answer = ReadText(p)
    BY <1>6 DEF Read, ResolveError
  <2>2. CASE ~IsFile(p)
    <3>1. answer = Raise("FileNotFoundError")
      BY <1>1, <2>1, <2>2 DEF ReadText
    <3> QED BY <1>2, <1>4, <2>2, <3>1
  <2>3. CASE IsFile(p) /\ disk[p] = NotUtf8
    <3>1. answer = Raise("UnicodeDecodeError")
      BY <1>1, <2>1, <2>3 DEF ReadText
    <3> QED BY <1>2, <1>3, <1>4, <3>1
  <2>4. CASE IsFile(p) /\ disk[p] # NotUtf8
    <3>1. answer = Ok(disk[p])
      BY <1>1, <2>1, <2>4 DEF ReadText
    <3>2. answer.error = None /\ answer.value = disk[p]
      <4>1. \A v : Ok(v).error = None /\ Ok(v).value = v
        BY DEF Ok
      <4> QED BY <3>1, <4>1
    <3>3. disk[p] \in DOMAIN Parsed
      BY <2>4 DEF IsFile, ReadableOK, Contents
    <3> QED BY <1>3, <2>4, <3>2, <3>3 DEF IsFile
  <2> QED BY <2>2, <2>3, <2>4
<1> QED BY <1>5, <1>6

LEMMA OneSpent ==
  ASSUME NEW n \in Nat, NEW r \in Nat, r # 0
  PROVE  r - 1 \in Nat /\ n + r = (n + 1) + (r - 1)
OBVIOUS

\* One more file is examined: said is what is said of it, if it states anything.
LEMMA OneMoreExamined ==
  ASSUME SynthesisIs, synthesis.at = "extract", IsInjective(inventory.files), IsList(inventory.files),
         UNCHANGED <<inventory, disk, lasting, facts>>,
         NEW place \in synthesis.todo, NEW p, p = inventory.files[place], NEW type, type = TypeAt(place),
         NEW e, e.path = p, e.type = type, examined' = Append(examined, e),
         synthesis.remaining # 0,
         synthesis' = [f \in SynthesisFields |-> synthesis'[f]],
         synthesis'.at = "extract", synthesis'.request = synthesis.request, synthesis'.todo = synthesis.todo \ {place},
         synthesis'.remaining = synthesis.remaining - 1, synthesis'.truncated = synthesis.truncated,
         synthesis'.expired = synthesis.expired,
         NEW said, About(said, p), synthesis'.facts = synthesis.facts \o said,
         IsList(synthesis'.unresolved), ToSet(synthesis.unresolved) \subseteq ToSet(synthesis'.unresolved),
         p \in lasting => IF Parses(type, p, disk[p]) THEN ToSet(said) = ToSet(Extract(type, p, disk[p]))
                          ELSE ToSet(said) = {} /\ \E u \in ToSet(synthesis'.unresolved) : u.path = p
  PROVE  SynthesisIs'
<1>1. BudgetOK /\ ExaminedOK /\ SaidOK /\ FactsOK /\ inventory # None
  BY DEF SynthesisIs
<1>2. facts' = None
  BY <1>1 DEF FactsOK
<1>3. PICK n, examined1 : n = Len(examined) /\ examined1 = Append(examined, e)
  OBVIOUS
<1>4. /\ IsList(examined1) /\ Len(examined1) = n + 1 /\ examined1[n + 1] = e /\ n \in Nat
      /\ \A i \in 1..n : examined1[i] = examined[i]
  <2>1. IsList(examined)
    BY <1>1 DEF ExaminedOK
  <2>2. n \in Nat
    BY <1>3, <2>1 DEF IsList
  <2> QED BY <1>3, <2>1, <2>2, ListAppended
<1>5. BudgetOK'
  <2>1. synthesis.remaining \in Nat /\ synthesis.request.maxFiles = n + synthesis.remaining
    BY <1>1, <1>3 DEF BudgetOK
  <2>2. Len(examined') = n + 1
    BY <1>3, <1>4
  <2>3. synthesis'.remaining \in Nat /\ synthesis'.request.maxFiles = Len(examined') + synthesis'.remaining
    <3>1. PICK r : r = synthesis.remaining
      OBVIOUS
    <3>2. r \in Nat /\ r # 0 /\ synthesis'.remaining = r - 1 /\ synthesis'.request.maxFiles = n + r
      BY <2>1, <3>1
    <3>3. r - 1 \in Nat /\ n + r = (n + 1) + (r - 1)
      BY <1>4, <3>2, OneSpent
    <3> QED BY <2>2, <3>2, <3>3
  <2> QED BY <1>1, <2>3 DEF BudgetOK
<1>6. place \in ToExamine /\ \A q \in ToExamine : inventory.files[q] = p => q = place
  BY <1>1 DEF ExaminedOK, ToExamine, IsInjective
<1>7. \A i \in 1..n : examined[i].path # p
  BY <1>1, <1>3, <1>6 DEF ExaminedOK
<1>8. \A i \in 1..(n + 1) : i \in 1..n \/ i = n + 1
  BY <1>4
<1>9. ExaminedOK'
  <2>1. ToExamine' = ToExamine /\ \A q : TypeAt(q)' = TypeAt(q)
    BY SameInventory
  <2>2. \A i \in 1..(n + 1) : \E q \in ToExamine \ (synthesis.todo \ {place}) :
          examined1[i].path = inventory.files[q] /\ examined1[i].type = TypeAt(q)
    <3> TAKE i \in 1..(n + 1)
    <3>1. CASE i = n + 1
      BY <1>4, <1>6, <3>1
    <3>2. CASE i \in 1..n
      <4>1. \E q \in ToExamine \ synthesis.todo : examined[i].path = inventory.files[q] /\ examined[i].type = TypeAt(q)
        BY <1>1, <1>3, <3>2 DEF ExaminedOK
      <4> QED BY <1>4, <3>2, <4>1
    <3> QED BY <1>8, <3>1, <3>2
  <2>3. \A i, j \in 1..(n + 1) : examined1[i].path = examined1[j].path => i = j
    <3>1. \A i, j \in 1..n : examined[i].path = examined[j].path => i = j
      BY <1>1, <1>3 DEF ExaminedOK
    <3> QED BY <1>4, <1>7, <1>8, <3>1
  <2>4. ~synthesis.truncated =>
          \A q \in ToExamine \ (synthesis.todo \ {place}) : \E i \in 1..(n + 1) : examined1[i].path = inventory.files[q]
    <3> SUFFICES ASSUME ~synthesis.truncated, NEW q \in ToExamine \ (synthesis.todo \ {place})
                 PROVE  \E i \in 1..(n + 1) : examined1[i].path = inventory.files[q]
      OBVIOUS
    <3>1. CASE q = place
      <4>1. n + 1 \in 1..(n + 1)
        BY <1>4
      <4> QED BY <1>4, <3>1, <4>1
    <3>2. CASE q # place
      <4>1. \E i \in 1..n : examined[i].path = inventory.files[q]
        BY <1>1, <1>3, <3>2 DEF ExaminedOK
      <4>2. \A i \in 1..n : i \in 1..(n + 1)
        BY <1>4
      <4> QED BY <1>4, <4>1, <4>2
    <3> QED BY <3>1, <3>2
  <2>5. synthesis.todo \ {place} \subseteq ToExamine
    BY <1>1 DEF ExaminedOK
  <2>6. examined' = examined1 /\ Len(examined') = n + 1
    BY <1>3, <1>4
  <2> QED BY <1>4, <2>1, <2>2, <2>3, <2>4, <2>5, <2>6 DEF ExaminedOK
<1>10. SaidOK'
  <2>1. IsList(synthesis.facts) /\ IsList(said) /\ \A f \in ToSet(said) : f.path = p /\ f.kind # "module"
    BY <1>1 DEF SaidOK, About
  <2>2. /\ IsList(synthesis'.facts)
        /\ ToSet(synthesis'.facts) = ToSet(synthesis.facts) \cup ToSet(said)
    BY <2>1, ListJoined
  <2>3. \A f \in ToSet(synthesis.facts) : f.kind = "module" \/ \E i \in 1..n : f.path = examined[i].path
    BY <1>1, <1>3 DEF SaidOK
  <2>4. \A f \in ToSet(synthesis'.facts) : f.kind = "module" \/ \E i \in 1..(n + 1) : f.path = examined1[i].path
    <3> TAKE f \in ToSet(synthesis'.facts)
    <3>1. CASE f \in ToSet(said)
      <4>1. n + 1 \in 1..(n + 1)
        BY <1>4
      <4> QED BY <1>4, <2>1, <3>1, <4>1
    <3>2. CASE f \in ToSet(synthesis.facts)
      <4>1. \A i \in 1..n : i \in 1..(n + 1)
        BY <1>4
      <4> QED BY <1>4, <2>3, <3>2, <4>1
    <3> QED BY <2>2, <3>1, <3>2
  <2>5. SaidOf(synthesis.facts, p) = {}
    BY <1>7, <2>3 DEF SaidOf
  <2>6. SaidOf(synthesis'.facts, p) = ToSet(said)
    BY <2>1, <2>2, <2>5 DEF SaidOf
  <2>7. \A q : q # p => SaidOf(synthesis'.facts, q) = SaidOf(synthesis.facts, q)
    BY <2>1, <2>2 DEF SaidOf
  <2>8. ASSUME NEW i \in 1..(n + 1), examined1[i].path \in lasting
        PROVE  Tells(examined1[i].type, examined1[i].path)'
    <3>1. CASE i = n + 1
      <4>1. examined1[i].type = type /\ examined1[i].path = p
        BY <1>4, <3>1
      <4>2. Tells(type, p)'
        BY <2>6, <2>8, <4>1 DEF Tells
      <4> QED BY <1>3, <4>1, <4>2
    <3>2. CASE i \in 1..n
      <4>1. PICK t, q : t = examined[i].type /\ q = examined[i].path
        OBVIOUS
      <4>2. examined1[i].type = t /\ examined1[i].path = q /\ q # p /\ q \in lasting
        BY <1>4, <1>7, <2>8, <3>2, <4>1
      <4>3. Tells(t, q)
        BY <1>1, <1>3, <3>2, <4>1, <4>2 DEF SaidOK
      <4>4. SaidOf(synthesis'.facts, q) = SaidOf(synthesis.facts, q)
        BY <2>7, <4>2
      <4>5. Tells(t, q)'
        BY <4>3, <4>4 DEF Tells
      <4> QED BY <1>3, <4>2, <4>5
    <3> QED BY <1>8, <3>1, <3>2
  <2>9. examined' = examined1 /\ Len(examined') = n + 1
    BY <1>3, <1>4
  <2> QED BY <1>3, <2>2, <2>4, <2>8, <2>9 DEF SaidOK
<1>11. synthesis'.at # "none" /\ synthesis'.at \in {"none", "extract", "failed", "done"} /\ inventory' # None
  BY <1>1
<1> QED BY <1>2, <1>5, <1>9, <1>10, <1>11 DEF SynthesisIs, FactsOK

LEMMA ExamineFileKeeps ==
  ASSUME WalkOK, SynthesisOK, job.kind # "calls", UNCHANGED <<job, walk, inventory, disk, lasting>>, ExamineFile
  PROVE  SynthesisOK'
<1>1. synthesis = [f \in SynthesisFields |-> synthesis[f]] /\ synthesis.at = "extract" /\ inventory # None
  BY DEF SynthesisOK, SynthesisIs, ExamineFile
<1>2. BudgetOK /\ ExaminedOK /\ SaidOK /\ FactsOK
  BY <1>1 DEF SynthesisOK, SynthesisIs
<1>3. /\ inventory.files \in Seq(Paths) /\ IsList(inventory.files) /\ IsInjective(inventory.files)
  BY <1>1, InventoryLists
<1>4. Todo \in synthesis.todo /\ synthesis.todo \subseteq ToExamine
  BY <1>2, <1>3, TodoIsThere DEF ExaminedOK, ExamineFile
<1>5. PICK place, p, type, answer, extracted1, u :
        /\ place = Todo /\ p = inventory.files[place] /\ type = TypeAt(place)
        /\ answer = Read(TRUE, "filesystem.read_text", p) /\ extracted1 = Extract(type, p, answer.value)
        /\ u = Fact("unresolved", None, None, p, None)
  OBVIOUS
<1>6. PICK e : e = [path |-> p, type |-> type, text |-> IF answer.error = None THEN answer.value ELSE answer.error]
  OBVIOUS
<1>7. e.path = p /\ e.type = type /\ examined' = Append(examined, e) /\ UNCHANGED facts /\ synthesis.remaining # 0
  BY <1>5, <1>6 DEF ExamineFile, Exhausted
<1>8. place \in synthesis.todo /\ place \in ToExamine /\ p \in Paths /\ type \in RelevantTypes
  BY <1>3, <1>4, <1>5 DEF ToExamine
<1>9. /\ answer.error = None => p \in DOMAIN disk /\ answer.value = disk[p] /\ answer.value \in DOMAIN Parsed
      /\ IsFile(p) /\ answer.error \in OSErrors => FALSE
  BY <1>5, <1>8, ReadingTells DEF SynthesisOK
<1>10. p \in lasting => IsFile(p)
  <2>1. inventory.files = walk.files
    BY <1>1, InventoryLists
  <2>2. place \in 1..Len(walk.files)
    BY <1>3, <1>8, <2>1 DEF ToExamine
  <2> QED BY <1>5, <2>1, <2>2 DEF SynthesisOK, ListedAreFiles
<1>11. PICK rest : rest = [synthesis EXCEPT !.remaining = @ - 1, !.todo = @ \ {place}]
  OBVIOUS
<1>12. /\ rest = [f \in SynthesisFields |-> rest[f]]
       /\ rest.at = "extract" /\ rest.request = synthesis.request /\ rest.todo = synthesis.todo \ {place}
       /\ rest.remaining = synthesis.remaining - 1 /\ rest.truncated = synthesis.truncated
       /\ rest.expired = synthesis.expired /\ rest.facts = synthesis.facts /\ rest.unresolved = synthesis.unresolved
  BY <1>1, <1>11 DEF SynthesisFields
<1>13. synthesis' = IF answer.error = None /\ Parses(type, p, answer.value)
                    THEN [rest EXCEPT !.facts = @ \o extracted1]
                    ELSE IF answer.error \in OSErrors \cup {None} THEN [rest EXCEPT !.unresolved = Append(synthesis.unresolved, u)]
                    ELSE [rest EXCEPT !.at = "failed"]
  BY <1>5, <1>11 DEF ExamineFile
<1>14. CASE answer.error = None /\ Parses(type, p, answer.value)
  <2>1. synthesis' = [rest EXCEPT !.facts = @ \o extracted1]
    BY <1>13, <1>14
  <2>2. /\ synthesis' = [f \in SynthesisFields |-> synthesis'[f]]
        /\ synthesis'.at = "extract" /\ synthesis'.request = synthesis.request /\ synthesis'.todo = synthesis.todo \ {place}
        /\ synthesis'.remaining = synthesis.remaining - 1 /\ synthesis'.truncated = synthesis.truncated
        /\ synthesis'.expired = synthesis.expired /\ synthesis'.facts = synthesis.facts \o extracted1
        /\ synthesis'.unresolved = synthesis.unresolved
    BY <1>12, <2>1 DEF SynthesisFields
  <2>3. About(extracted1, p)
    BY <1>5, <1>8, <1>9, <1>14, ExtractTells
  <2>4. p \in lasting => IF Parses(type, p, disk[p]) THEN ToSet(extracted1) = ToSet(Extract(type, p, disk[p]))
                         ELSE ToSet(extracted1) = {} /\ \E v \in ToSet(synthesis'.unresolved) : v.path = p
    BY <1>5, <1>9, <1>14
  <2>5. IsList(synthesis'.unresolved)
    BY <1>2, <2>2 DEF SaidOK
  <2>6. SynthesisIs'
    BY <1>1, <1>3, <1>5, <1>7, <1>8, <2>2, <2>3, <2>4, <2>5, OneMoreExamined DEF SynthesisOK
  <2> QED BY <2>6, SynthesisBecomes
<1>15. CASE ~(answer.error = None /\ Parses(type, p, answer.value)) /\ answer.error \in OSErrors \cup {None}
  <2>1. PICK unresolved : unresolved = Append(synthesis.unresolved, u)
    OBVIOUS
  <2>2. synthesis' = [rest EXCEPT !.unresolved = unresolved]
    BY <1>13, <1>15, <2>1
  <2>3. IsList(unresolved) /\ ToSet(synthesis.unresolved) \subseteq ToSet(unresolved) /\ u \in ToSet(unresolved)
    <3>1. IsList(synthesis.unresolved)
      BY <1>2 DEF SaidOK
    <3>2. IsList(<<u>>) /\ ToSet(<<u>>) = {u} /\ Append(synthesis.unresolved, u) = synthesis.unresolved \o <<u>>
      <4>1. IsList(<<u>>) /\ Len(<<u>>) = 1 /\ <<u>>[1] = u /\ DOMAIN <<u>> = 1..1
        BY DEF IsList
      <4>2. ToSet(<<u>>) = {u}
        BY <4>1 DEF ToSet
      <4>3. PICK S : synthesis.unresolved \in Seq(S) /\ u \in S
        <5> DEFINE T == {synthesis.unresolved[i] : i \in 1..Len(synthesis.unresolved)} \cup {u}
        <5>1. synthesis.unresolved \in Seq(T) /\ u \in T
          BY <3>1 DEF IsList
        <5> QED BY <5>1
      <4>4. Append(synthesis.unresolved, u) = synthesis.unresolved \o <<u>>
        BY <4>3
      <4> QED BY <4>1, <4>2, <4>4
    <3> QED BY <2>1, <3>1, <3>2, ListJoined
  <2>4. /\ synthesis' = [f \in SynthesisFields |-> synthesis'[f]]
        /\ synthesis'.at = "extract" /\ synthesis'.request = synthesis.request /\ synthesis'.todo = synthesis.todo \ {place}
        /\ synthesis'.remaining = synthesis.remaining - 1 /\ synthesis'.truncated = synthesis.truncated
        /\ synthesis'.expired = synthesis.expired /\ synthesis'.facts = synthesis.facts
        /\ synthesis'.unresolved = unresolved
    BY <1>12, <2>2 DEF SynthesisFields
  <2>5. synthesis'.facts = synthesis.facts \o <<>>
    <3>1. IsList(synthesis.facts)
      BY <1>2 DEF SaidOK
    <3>2. PICK S : synthesis.facts \in Seq(S)
      <4> DEFINE T == {synthesis.facts[i] : i \in 1..Len(synthesis.facts)}
      <4>1. synthesis.facts \in Seq(T)
        BY <3>1 DEF IsList
      <4> QED BY <4>1
    <3> QED BY <2>4, <3>2
  <2>6. About(<<>>, p) /\ ToSet(<<>>) = {}
    BY NoFacts DEF ToSet
  <2>7. u.path = p
    BY <1>5, FactHas
  <2>8. p \in lasting => IF Parses(type, p, disk[p]) THEN ToSet(<<>>) = ToSet(Extract(type, p, disk[p]))
                         ELSE ToSet(<<>>) = {} /\ \E v \in ToSet(synthesis'.unresolved) : v.path = p
    BY <1>9, <1>10, <1>15, <2>3, <2>4, <2>6, <2>7
  <2>9. SynthesisIs'
    BY <1>1, <1>3, <1>5, <1>7, <1>8, <2>3, <2>4, <2>5, <2>6, <2>8, OneMoreExamined DEF SynthesisOK
  <2> QED BY <2>9, SynthesisBecomes
<1>16. CASE answer.error \notin OSErrors \cup {None}
  <2>1. synthesis' = [rest EXCEPT !.at = "failed"]
    BY <1>13, <1>16
  <2>2. synthesis' = [f \in SynthesisFields |-> synthesis'[f]] /\ synthesis'.at = "failed"
    BY <1>12, <2>1 DEF SynthesisFields
  <2>3. facts' = None
    BY <1>1, <1>2, <1>7 DEF FactsOK
  <2>4. SynthesisIs'
    BY <1>1, <2>2, <2>3 DEF SynthesisIs, FactsOK
  <2> QED BY <2>4, SynthesisBecomes
<1> QED BY <1>14, <1>15, <1>16

LEMMA SynthesisNextKeeps ==
  ASSUME WalkOK, SynthesisOK, job.kind # "calls", UNCHANGED <<job, walk, inventory, disk, lasting>>, SynthesisNext
  PROVE  SynthesisOK'
BY ExpireSynthesisKeeps, LeaveStageKeeps, ExamineFileKeeps, AssembleFactsKeeps DEF SynthesisNext

------------------------------------------------------------------------------
(* All steps.                                                              *)

\* Only calls of connectors write to the disk of their job; it is never walked.
LEMMA CallsExamineNothing ==
  ASSUME WalkOK, SynthesisOK, job.kind = "calls", UNCHANGED <<job, walk, inventory, synthesizing>>
  PROVE  SynthesisOK'
<1>1. walk.at = "none" /\ walk.files = <<>>
  BY DEF WalkOK, NotStarted
<1>2. inventory = None
  BY <1>1, NoInventoryYet
<1>3. ReadableOK' /\ ListedAreFiles' /\ InventoryOK'
  BY <1>1, <1>2 DEF ReadableOK, ListedAreFiles, InventoryOK
<1> QED BY <1>2, <1>3, WaitsForInventory

LEMMA DiskStays ==
  ASSUME WalkOK, SynthesisOK, UNCHANGED <<job, walk, inventory, synthesizing, disk, lasting>>
  PROVE  SynthesisOK'
<1>1. ReadableOK'
  BY DEF SynthesisOK, ReadableOK
<1> QED BY <1>1, SynthesisRests

LEMMA EditKeepsSynthesis ==
  ASSUME WalkOK, SynthesisOK, Edit
  PROVE  SynthesisOK'
<1>1. UNCHANGED <<job, walk, inventory, synthesizing>>
  BY DEF Edit, analysis, walking
<1>2. CASE job.kind = "calls"
  BY <1>1, <1>2, CallsExamineNothing
<1>3. CASE job.kind # "calls"
  <2>1. PICK e \in Edits :
          LET below == {p \in DOMAIN disk : IsPrefix(e.path, p)} IN
          disk' = IF e.becomes = None THEN [p \in DOMAIN disk \ below |-> disk[p]]
                  ELSE [p \in (DOMAIN disk \ below) \cup {e.path} |-> IF p = e.path THEN e.becomes ELSE disk[p]]
    BY DEF Edit, DiskBecomes
  <2>2. PICK below : below = {p \in DOMAIN disk : IsPrefix(e.path, p)}
    OBVIOUS
  <2>3. disk' = IF e.becomes = None THEN [p \in DOMAIN disk \ below |-> disk[p]]
                ELSE [p \in (DOMAIN disk \ below) \cup {e.path} |-> IF p = e.path THEN e.becomes ELSE disk[p]]
    BY <2>1, <2>2
  <2>4. \A p \in DOMAIN disk : disk[p] \in Contents
    BY <1>3 DEF SynthesisOK, ReadableOK
  <2>5. e.becomes # None => e.becomes \in Contents
    BY ContentsAssumption
  <2>6. \A p \in DOMAIN disk' : disk'[p] \in Contents
    BY <2>3, <2>4, <2>5
  <2>7. ReadableOK'
    BY <2>6 DEF ReadableOK
  <2>8. lasting' \subseteq lasting /\ \A p \in lasting' : p \in DOMAIN disk' /\ disk'[p] = disk[p]
    BY <1>3 DEF Edit, RecordDisk
  <2> QED BY <1>1, <2>7, <2>8, SynthesisRests
<1> QED BY <1>2, <1>3

LEMMA NextKeepsSynthesis ==
  ASSUME WalkOK, SynthesisOK, [Next]_vars
  PROVE  SynthesisOK'
<1>1. CASE Edit
  BY <1>1, EditKeepsSynthesis
<1>2. CASE Calls /\ UNCHANGED <<lasting, ever>>
  <2>1. job.kind = "calls" /\ UNCHANGED <<job, walk, inventory, synthesizing>>
    BY <1>2 DEF Calls, analysis, walking
  <2> QED BY <2>1, CallsExamineNothing
<1>3. CASE Analyse /\ UNCHANGED <<lasting, ever>>
  <2>1. UNCHANGED <<job, disk, lasting>> /\ job.kind # "calls"
    BY <1>3 DEF Analyse
  <2>2. \/ (\E request \in job.walks : BeginWalk(request)) /\ UNCHANGED synthesizing
        \/ WalkNext /\ UNCHANGED synthesizing
        \/ (\E request \in job.syntheses : BeginSynthesis(request)) /\ UNCHANGED walking
        \/ SynthesisNext /\ UNCHANGED walking
        \/ UNCHANGED <<walking, synthesizing>>
    BY <1>3 DEF Analyse
  <2>3. CASE UNCHANGED <<walking, synthesizing>>
    BY <2>1, <2>3, DiskStays DEF walking
  <2>4. CASE (\E request \in job.walks : BeginWalk(request)) /\ UNCHANGED synthesizing
    BY <2>1, <2>4, BeginWalkStarts
  <2>5. CASE WalkNext /\ UNCHANGED synthesizing
    BY <2>1, <2>5, WalkStepKeeps
  <2>6. CASE (\E request \in job.syntheses : BeginSynthesis(request)) /\ UNCHANGED walking
    BY <2>1, <2>6, BeginSynthesisKeeps DEF walking
  <2>7. CASE SynthesisNext /\ UNCHANGED walking
    BY <2>1, <2>7, SynthesisNextKeeps DEF walking
  <2> QED BY <2>2, <2>3, <2>4, <2>5, <2>6, <2>7
<1>4. CASE ExtractFromTree /\ UNCHANGED <<lasting, ever>>
  <2>1. UNCHANGED <<job, disk, lasting, synthesizing>> /\ job.kind # "calls"
    BY <1>4 DEF ExtractFromTree
  <2>2. (\E request \in job.walks : BeginWalk(request)) \/ WalkNext \/ UNCHANGED walking
    BY <1>4 DEF ExtractFromTree
  <2>3. CASE UNCHANGED walking
    BY <2>1, <2>3, DiskStays DEF walking
  <2> QED BY <2>1, <2>2, <2>3, BeginWalkStarts, WalkStepKeeps
<1>5. CASE Commands /\ UNCHANGED <<lasting, ever>>
  <2>1. UNCHANGED <<job, walk, inventory, disk, lasting, synthesizing>>
    BY <1>5 DEF Commands, analysis, walking
  <2> QED BY <2>1, DiskStays
<1>6. CASE UNCHANGED vars
  <2>1. UNCHANGED <<job, walk, inventory, disk, lasting, synthesizing>>
    BY <1>6 DEF vars, analysis, walking
  <2> QED BY <2>1, DiskStays
<1> QED BY <1>1, <1>2, <1>3, <1>4, <1>5, <1>6 DEF Next

LEMMA SynthesisBegins ==
  ASSUME Init
  PROVE  SynthesisOK
<1>1. /\ job \in Jobs /\ disk = job.disk /\ walk = NotStarted /\ inventory = None
      /\ synthesis = NotSynthesizing /\ facts = None /\ examined = <<>>
  BY DEF Init, WalkInit, SynthesisInit
<1>2. walk.files = <<>>
  BY <1>1 DEF NotStarted
<1>3. ReadableOK /\ ListedAreFiles /\ InventoryOK
  BY <1>1, <1>2, ContentsAssumption DEF ReadableOK, ListedAreFiles, InventoryOK
<1>4. synthesis = [f \in SynthesisFields |-> synthesis[f]] /\ synthesis.at = "none"
  BY <1>1 DEF NotSynthesizing, SynthesisFields
<1>5. SynthesisIs
  BY <1>1, <1>4 DEF SynthesisIs, FactsOK
<1> QED BY <1>3, <1>5 DEF SynthesisOK

\* A list of different things has as many as it is long.
LEMMA DifferentCounted ==
  ASSUME NEW n \in Nat, NEW f, NEW S, S = {f[i] : i \in 1..n}, \A i, j \in 1..n : f[i] = f[j] => i = j
  PROVE  Cardinality(S) = n
<1> DEFINE g == [i \in 1..n |-> f[i]]
<1>1. g \in Bijection(1..n, S)
  BY DEF Bijection, Injection, Surjection, IsInjective
<1>2. ExistsBijection(1..n, S)
  BY <1>1 DEF ExistsBijection
<1>3. IsFiniteSet(1..n) /\ Cardinality(1..n) = n
  BY FS_Interval
<1> QED BY <1>2, <1>3, FS_Bijection

LEMMA FactsTell ==
  ASSUME WalkOK, SynthesisOK
  PROVE  FactsComeFromExaminedFiles
<1> SUFFICES ASSUME facts # None PROVE FactsComeFromExaminedFiles
  BY DEF FactsComeFromExaminedFiles
<1>1. synthesis.at = "done" /\ FactsOK /\ BudgetOK /\ ExaminedOK /\ SaidOK /\ inventory # None
  BY DEF SynthesisOK, SynthesisIs, FactsOK
<1>2. job.kind # "calls"
  <2> SUFFICES ASSUME job.kind = "calls" PROVE FALSE
    OBVIOUS
  <2>1. walk.at = "none"
    BY DEF WalkOK, NotStarted
  <2> QED BY <1>1, <2>1 DEF SynthesisOK, InventoryOK
<1>3. IsList(inventory.files) /\ IsInjective(inventory.files)
  BY <1>1, <1>2, InventoryLists
<1>4. PICK n, paths : n = Len(examined) /\ paths = {e.path : e \in ToSet(examined)}
  OBVIOUS
<1>5. n \in Nat /\ ToSet(examined) = {examined[i] : i \in 1..n}
  BY <1>1, <1>4 DEF ExaminedOK, IsList, ToSet
<1>6. paths = {examined[i].path : i \in 1..n}
  BY <1>4, <1>5
<1>7. Cardinality(paths) = n
  <2> DEFINE f == [i \in 1..n |-> examined[i].path]
  <2>1. paths = {f[i] : i \in 1..n} /\ \A i, j \in 1..n : f[i] = f[j] => i = j
    <3>1. \A i, j \in 1..n : examined[i].path = examined[j].path => i = j
      BY <1>1, <1>4 DEF ExaminedOK
    <3> QED BY <1>6, <3>1
  <2> HIDE DEF f
  <2> QED BY <1>5, <2>1, DifferentCounted
<1>8. facts.statistics.filesExamined = n
  BY <1>1, <1>4, <1>5 DEF FactsOK, BudgetOK
<1>9. facts.truncated => synthesis.expired \/ facts.statistics.filesExamined = synthesis.request.maxFiles
  <2>1. facts.truncated = synthesis.truncated
    BY <1>1 DEF FactsOK
  <2>2. synthesis.truncated => synthesis.expired \/ synthesis.remaining = 0
    BY <1>1 DEF BudgetOK
  <2>3. synthesis.request.maxFiles = n + synthesis.remaining
    BY <1>1, <1>4 DEF BudgetOK
  <2>4. synthesis.remaining = 0 => synthesis.request.maxFiles = n
    BY <1>5, <2>3
  <2> QED BY <1>8, <2>1, <2>2, <2>4
<1>10. ~facts.truncated => paths = Relevant
  <2>1. synthesis.todo = {} /\ facts.truncated = synthesis.truncated
    BY <1>1 DEF FactsOK
  <2>2. Relevant = {inventory.files[q] : q \in ToExamine}
    BY <1>3 DEF Relevant, ToExamine, TypeAt, ToSet
  <2>3. \A i \in 1..n : \E q \in ToExamine : examined[i].path = inventory.files[q]
    BY <1>1, <1>4 DEF ExaminedOK
  <2>4. ~facts.truncated => \A q \in ToExamine : \E i \in 1..n : examined[i].path = inventory.files[q]
    BY <1>1, <1>4, <2>1 DEF ExaminedOK
  <2> QED BY <1>6, <2>2, <2>3, <2>4
<1>11. ~facts.truncated => facts.statistics.filesExamined + facts.statistics.filesSkipped = Len(inventory.files)
  <2> SUFFICES ASSUME ~facts.truncated
               PROVE  facts.statistics.filesExamined + facts.statistics.filesSkipped = Len(inventory.files)
    OBVIOUS
  <2>1. facts.statistics.filesSkipped = Len(inventory.files) - n
    BY <1>1, <1>7, <1>10 DEF FactsOK
  <2>2. Len(inventory.files) \in Nat
    BY <1>3 DEF IsList
  <2> QED BY <1>5, <1>8, <2>1, <2>2
<1>12. {f.path : f \in {g \in ToSet(facts.all) : g.kind # "module"}} \subseteq paths
  BY <1>1, <1>4, <1>6 DEF SaidOK, FactsOK
<1>13. ASSUME NEW e \in ToSet(examined), e.path \in lasting
       PROVE  IF Parses(e.type, e.path, disk[e.path])
              THEN FactsOf(e.path) = ToSet(Extract(e.type, e.path, disk[e.path]))
              ELSE FactsOf(e.path) = {} /\ \E u \in ToSet(facts.unresolved) : u.path = e.path
  <2>1. Tells(e.type, e.path)
    BY <1>1, <1>4, <1>5, <1>13 DEF SaidOK
  <2>2. FactsOf(e.path) = SaidOf(synthesis.facts, e.path) /\ facts.unresolved = synthesis.unresolved
    BY <1>1 DEF FactsOK, FactsOf, SaidOf
  <2> QED BY <2>1, <2>2 DEF Tells
<1> QED BY <1>4, <1>7, <1>9, <1>10, <1>11, <1>12, <1>13 DEF FactsComeFromExaminedFiles

\* synthesis/engine.py:193-576: for any inventory, budget and texts, and edits of
\* the disk between any two steps, facts account for the files of the inventory,
\* say of one that stayed what it was what it states, and nothing of a file that
\* was not examined.
THEOREM FactsAreStated == Spec => []FactsComeFromExaminedFiles
<1>1. Init => WalkOK /\ SynthesisOK
  BY WalkBegins, SynthesisBegins
<1>2. WalkOK /\ SynthesisOK /\ [Next]_vars => WalkOK' /\ SynthesisOK'
  BY NextKeepsWalk, NextKeepsSynthesis
<1>3. WalkOK /\ SynthesisOK => FactsComeFromExaminedFiles
  BY FactsTell
<1> QED BY <1>1, <1>2, <1>3, PTL DEF Spec

------------------------------------------------------------------------------
(* The groups a union-find comes to.                                       *)

IsForest(parent, P) ==
  /\ parent \in [P -> P]
  /\ \A k \in P : parent[k] <= k

LEMMA RootsFound ==
  ASSUME NEW n \in Nat, NEW P \in SUBSET (0..n), NEW parent, IsForest(parent, P)
  PROVE  \A k \in P : RootOf(parent, k) = IF parent[k] = k THEN k ELSE RootOf(parent, parent[k])
<1> DEFINE At(f, k) == IF parent[k] = k THEN k ELSE f[parent[k]]
           Built(m, f) == \A k \in P : k <= m => f[k] = At(f, k)
           T == {m \in 0..n : ~\E f : Built(m, [k \in P |-> f[k]])}
<1>1. \A k \in P : k \in Nat /\ parent[k] \in P /\ parent[k] \in Nat /\ parent[k] <= k
  <2>1. \A k \in P : k \in Nat
    OBVIOUS
  <2>2. \A k \in P : parent[k] \in P /\ parent[k] <= k
    BY DEF IsForest
  <2> QED BY <2>1, <2>2
<1>2. ASSUME NEW m \in 0..n, NEW f, \A k \in P : k < m => f[k] = At(f, k)
      PROVE  \E g : Built(m, [k \in P |-> g[k]])
  <2> DEFINE g == [k \in P |-> IF k = m THEN At(f, m) ELSE f[k]]
  <2>1. ASSUME NEW k \in P, k <= m PROVE g[k] = At(g, k)
    <3>1. CASE parent[k] = k
      <4>1. g[k] = IF k = m THEN At(f, m) ELSE f[k]
        OBVIOUS
      <4>2. k # m => f[k] = k
        BY <1>1, <1>2, <2>1, <3>1
      <4> QED BY <3>1, <4>1, <4>2
    <3>2. CASE parent[k] # k
      <4>1. parent[k] < k /\ parent[k] < m /\ parent[k] # m
        BY <1>1, <2>1, <3>2
      <4>2. g[parent[k]] = f[parent[k]]
        BY <1>1, <4>1
      <4>3. k # m => f[k] = f[parent[k]]
        BY <1>1, <1>2, <2>1, <3>2
      <4>4. g[k] = IF k = m THEN At(f, m) ELSE f[k]
        OBVIOUS
      <4> QED BY <3>2, <4>2, <4>3, <4>4
    <3> QED BY <3>1, <3>2
  <2>2. g = [k \in P |-> g[k]]
    OBVIOUS
  <2> HIDE DEF g
  <2> QED BY <2>1, <2>2
<1>3. T = {}
  <2> SUFFICES ASSUME T # {} PROVE FALSE
    OBVIOUS
  <2> HIDE DEF Built, At
  <2>1. T \in SUBSET Nat
    OBVIOUS
  <2>2. PICK m \in T : \A x \in T : m <= x
    BY <2>1, LeastNumber
  <2>3. m \in 0..n
    OBVIOUS
  <2>4. \E f : \A k \in P : k < m => f[k] = At(f, k)
    <3>1. CASE m = 0
      <4>1. \A k \in P : ~(k < m)
        BY <1>1, <3>1
      <4> QED BY <4>1
    <3>2. CASE m # 0
      <4>1. m - 1 \in 0..n /\ ~(m <= m - 1)
        BY <2>3, <3>2
      <4>2. PICK f : Built(m - 1, [k \in P |-> f[k]])
        BY <2>2, <4>1
      <4>3. PICK g : g = [k \in P |-> f[k]]
        OBVIOUS
      <4>4. \A k \in P : k <= m - 1 => g[k] = At(g, k)
        BY <4>2, <4>3 DEF Built
      <4>5. \A k \in P : k < m => k <= m - 1
        BY <1>1, <2>3
      <4> QED BY <4>4, <4>5
    <3> QED BY <3>1, <3>2
  <2>5. \E f : Built(m, [k \in P |-> f[k]])
    BY <1>2, <2>3, <2>4
  <2> QED BY <2>2, <2>5
<1>4. PICK f : f = [k \in P |-> At(f, k)]
  <2>1. n \in 0..n
    OBVIOUS
  <2>2. PICK f : Built(n, [k \in P |-> f[k]])
    <3> HIDE DEF Built
    <3> QED BY <1>3, <2>1
  <2>3. PICK g : g = [k \in P |-> f[k]]
    OBVIOUS
  <2>4. \A k \in P : k <= n
    OBVIOUS
  <2>5. \A k \in P : g[k] = At(g, k)
    BY <2>2, <2>3, <2>4
  <2>6. g = [k \in P |-> At(g, k)]
    <3> HIDE DEF At
    <3> QED BY <2>3, <2>5
  <2> QED BY <2>6
<1> DEFINE root == CHOOSE r : r = [k \in P |-> At(r, k)]
<1>5. root = [k \in P |-> At(root, k)]
  <2> HIDE DEF At
  <2> QED BY <1>4
<1>6. \A i : RootOf(parent, i) = root[i]
  <2>1. DOMAIN parent = P
    BY DEF IsForest
  <2> QED BY <2>1 DEF RootOf
<1> HIDE DEF root
<1>7. \A k \in P : root[k] = At(root, k)
  <2> HIDE DEF At
  <2> QED BY <1>5
<1> QED BY <1>6, <1>7

\* The root of i is one, and in every set that is not left on the way.
LEMMA RootIs ==
  ASSUME NEW n \in Nat, NEW P \in SUBSET (0..n), NEW parent, IsForest(parent, P), NEW i \in P
  PROVE  /\ RootOf(parent, i) \in P /\ parent[RootOf(parent, i)] = RootOf(parent, i)
         /\ \A S : (\A k \in P : k \in S <=> parent[k] \in S) => (i \in S <=> RootOf(parent, i) \in S)
<1> DEFINE Good(k) ==
             /\ RootOf(parent, k) \in P /\ parent[RootOf(parent, k)] = RootOf(parent, k)
             /\ \A S : (\A x \in P : x \in S <=> parent[x] \in S) => (k \in S <=> RootOf(parent, k) \in S)
           T == {k \in P : ~Good(k)}
<1>1. \A k \in P : k \in Nat /\ parent[k] \in P /\ parent[k] \in Nat /\ parent[k] <= k
  <2>1. \A k \in P : k \in Nat
    OBVIOUS
  <2>2. \A k \in P : parent[k] \in P /\ parent[k] <= k
    BY DEF IsForest
  <2> QED BY <2>1, <2>2
<1>2. \A k \in P : RootOf(parent, k) = IF parent[k] = k THEN k ELSE RootOf(parent, parent[k])
  BY RootsFound
<1>3. \A k \in P : parent[k] = k => Good(k)
  BY <1>2
<1>4. \A k \in P : parent[k] # k /\ Good(parent[k]) => Good(k)
  BY <1>2
<1>5. T = {}
  <2> SUFFICES ASSUME T # {} PROVE FALSE
    OBVIOUS
  <2> HIDE DEF Good
  <2>1. T \in SUBSET Nat
    BY <1>1
  <2>2. PICK m \in T : \A x \in T : m <= x
    BY <2>1, LeastNumber
  <2>3. parent[m] # m /\ parent[m] \in P /\ ~(m <= parent[m])
    BY <1>1, <1>3
  <2>4. Good(parent[m])
    BY <2>2, <2>3
  <2> QED BY <1>4, <2>2, <2>3, <2>4
<1>6. Good(i)
  <2> HIDE DEF Good
  <2> QED BY <1>5
<1> QED BY <1>6

\* What is joined has one root, that of others stays theirs.
LEMMA UnionJoins ==
  ASSUME NEW n \in Nat, NEW P \in SUBSET (0..n), NEW parent, IsForest(parent, P),
         NEW joined \in SUBSET P, joined # {}
  PROVE  /\ IsForest(Union(parent, joined), P)
         /\ \A i, j \in joined : RootOf(Union(parent, joined), i) = RootOf(Union(parent, joined), j)
         /\ \A i, j \in P : RootOf(parent, i) = RootOf(parent, j) =>
              RootOf(Union(parent, joined), i) = RootOf(Union(parent, joined), j)
         /\ \A S : (\A k \in P : k \in S <=> parent[k] \in S) /\ (\A i, j \in joined : i \in S <=> j \in S) =>
              \A k \in P : k \in S <=> Union(parent, joined)[k] \in S
<1> DEFINE roots == {RootOf(parent, i) : i \in joined}
           low == CHOOSE r \in roots : \A s \in roots : r <= s
           new == [k \in P |-> IF k \in roots THEN low ELSE parent[k]]
<1>1. \A k \in P : k \in Nat /\ parent[k] \in P /\ parent[k] \in Nat /\ parent[k] <= k
  <2>1. \A k \in P : k \in Nat
    OBVIOUS
  <2>2. \A k \in P : parent[k] \in P /\ parent[k] <= k
    BY DEF IsForest
  <2> QED BY <2>1, <2>2
<1>2. Union(parent, joined) = new
  <2>1. DOMAIN parent = P
    BY DEF IsForest
  <2> QED BY <2>1 DEF Union
<1>3. \A i \in P : RootOf(parent, i) \in P /\ parent[RootOf(parent, i)] = RootOf(parent, i)
  BY RootIs
<1>4. \A r \in roots : r \in P /\ parent[r] = r
  BY <1>3
<1>5. low \in roots /\ \A s \in roots : low <= s
  <2>1. roots \in SUBSET Nat /\ roots # {}
    BY <1>1, <1>4
  <2> HIDE DEF roots
  <2> QED BY <2>1, LeastNumber
<1> HIDE DEF low
<1>6. IsForest(new, P)
  BY <1>1, <1>4, <1>5 DEF IsForest
<1>7. ASSUME NEW i \in P
      PROVE  RootOf(new, i) = IF RootOf(parent, i) \in roots THEN low ELSE RootOf(parent, i)
  <2> DEFINE Good(k) == RootOf(new, k) = IF RootOf(parent, k) \in roots THEN low ELSE RootOf(parent, k)
             T == {k \in P : ~Good(k)}
  <2>1. \A k \in P : RootOf(parent, k) = IF parent[k] = k THEN k ELSE RootOf(parent, parent[k])
    BY RootsFound
  <2>2. \A k \in P : RootOf(new, k) = IF new[k] = k THEN k ELSE RootOf(new, new[k])
    BY <1>6, RootsFound
  <2> DEFINE isRoot(k) == k \in roots
  <2>3. \A k \in P : isRoot(k) => new[k] = low
    OBVIOUS
  <2>4. \A k \in P : ~isRoot(k) => new[k] = parent[k]
    OBVIOUS
  <2>5. low \in P /\ RootOf(new, low) = low
    BY <1>4, <1>5, <2>2, <2>3
  <2>6. \A k \in P : isRoot(k) => RootOf(new, k) = low /\ RootOf(parent, k) = k
    BY <1>4, <2>1, <2>2, <2>3, <2>5
  <2>7. \A k \in P : isRoot(k) => Good(k)
    BY <2>6
  <2>8. \A k \in P : ~isRoot(k) /\ parent[k] = k => Good(k)
    BY <2>1, <2>2, <2>4
  <2>9. \A k \in P : ~isRoot(k) /\ parent[k] # k /\ Good(parent[k]) => Good(k)
    BY <2>1, <2>2, <2>4
  <2>10. T = {}
    <3> SUFFICES ASSUME T # {} PROVE FALSE
      OBVIOUS
    <3> HIDE DEF Good, isRoot
    <3>1. T \in SUBSET Nat
      BY <1>1
    <3>2. PICK m \in T : \A x \in T : m <= x
      BY <3>1, LeastNumber
    <3>3. ~isRoot(m) /\ parent[m] # m
      BY <2>7, <2>8
    <3>4. parent[m] \in P /\ ~(m <= parent[m])
      BY <1>1, <3>3
    <3>5. Good(parent[m])
      BY <3>2, <3>4
    <3> QED BY <2>9, <3>2, <3>3, <3>5
  <2>11. Good(i)
    <3> HIDE DEF Good
    <3> QED BY <2>10
  <2> QED BY <2>11
<1>8. ASSUME NEW S, \A k \in P : k \in S <=> parent[k] \in S, \A i, j \in joined : i \in S <=> j \in S
      PROVE  \A k \in P : k \in S <=> new[k] \in S
  <2>1. \A i \in P : i \in S <=> RootOf(parent, i) \in S
    BY <1>8, RootIs
  <2>2. \A r, s \in roots : r \in S <=> s \in S
    BY <1>8, <2>1
  <2> QED BY <1>5, <1>8, <2>2
<1>9. \A i, j \in joined : RootOf(new, i) = RootOf(new, j)
  <2>1. \A i \in joined : i \in P /\ RootOf(parent, i) \in roots
    OBVIOUS
  <2> HIDE DEF new, roots
  <2> QED BY <1>7, <2>1
<1>10. \A i, j \in P : RootOf(parent, i) = RootOf(parent, j) => RootOf(new, i) = RootOf(new, j)
  <2> HIDE DEF new, roots
  <2> QED BY <1>7
<1> HIDE DEF new, roots
<1> QED BY <1>2, <1>6, <1>8, <1>9, <1>10

LEMMA RulesCounted ==
  /\ Len(RuleOrder) \in Nat /\ Len(RuleOrder) = 12
  /\ \A i, j \in 1..Len(RuleOrder) : RuleOrder[i] = RuleOrder[j] => i = j
<1>1. Len(RuleOrder) = 12
  BY DEF RuleOrder
<1>2. \A i, j \in 1..12 : RuleOrder[i] = RuleOrder[j] => i = j
  BY DEF RuleOrder
<1> QED BY <1>1, <1>2

LEMMA ParentsFound ==
  ASSUME NEW ordered
  PROVE  /\ ParentAfter(ordered)[0] = [k \in DOMAIN ordered |-> k]
         /\ \A i \in 1..Len(RuleOrder) :
              ParentAfter(ordered)[i] = IF i \in DOMAIN ordered THEN Union(ParentAfter(ordered)[i - 1], Joined(ordered, i))
                                        ELSE ParentAfter(ordered)[i - 1]
<1> DEFINE n == Len(RuleOrder)
           alone == [k \in DOMAIN ordered |-> k]
           At(f, i) == IF i = 0 THEN alone
                       ELSE IF i \in DOMAIN ordered THEN Union(f[i - 1], Joined(ordered, i)) ELSE f[i - 1]
           Built(m, f) == \A i \in 0..m : f[i] = At(f, i)
           T == {m \in 0..n : ~\E f : Built(m, [i \in 0..n |-> f[i]])}
<1>1. n \in Nat
  BY RulesCounted
<1> HIDE DEF n, alone
<1>2. ASSUME NEW m \in 0..n, NEW f, \A i \in 0..n : i < m => f[i] = At(f, i)
      PROVE  \E g : Built(m, [i \in 0..n |-> g[i]])
  <2> DEFINE g == [i \in 0..n |-> IF i = m THEN At(f, m) ELSE f[i]]
  <2>1. ASSUME NEW i \in 0..m PROVE g[i] = At(g, i)
    <3>1. i \in 0..n /\ (i # m => i < m)
      BY <1>1
    <3>2. g[i] = At(f, i)
      <4>1. g[i] = IF i = m THEN At(f, m) ELSE f[i]
        BY <3>1
      <4> HIDE DEF At, g
      <4> QED BY <1>2, <3>1, <4>1
    <3>3. i # 0 => g[i - 1] = f[i - 1]
      <4>1. i # 0 => i - 1 \in 0..n /\ i - 1 # m
        BY <1>1
      <4> HIDE DEF At
      <4> QED BY <4>1
    <3>4. At(g, i) = At(f, i)
      <4> HIDE DEF g
      <4> QED BY <3>3
    <3> HIDE DEF At, g
    <3> QED BY <3>2, <3>4
  <2>2. g = [i \in 0..n |-> g[i]]
    <3> HIDE DEF At
    <3> QED OBVIOUS
  <2> HIDE DEF g, At
  <2> QED BY <2>1, <2>2
<1>3. T = {}
  <2> SUFFICES ASSUME T # {} PROVE FALSE
    OBVIOUS
  <2> HIDE DEF Built, At
  <2>1. T \in SUBSET Nat
    BY <1>1
  <2>2. PICK m \in T : \A x \in T : m <= x
    BY <2>1, LeastNumber
  <2>3. m \in 0..n
    OBVIOUS
  <2>4. \E f : \A i \in 0..n : i < m => f[i] = At(f, i)
    <3>1. CASE m = 0
      <4>1. \A i \in 0..n : ~(i < m)
        BY <3>1
      <4> QED BY <4>1
    <3>2. CASE m # 0
      <4>1. m - 1 \in 0..n /\ ~(m <= m - 1)
        BY <1>1, <2>3, <3>2
      <4>2. PICK f : Built(m - 1, [i \in 0..n |-> f[i]])
        BY <2>2, <4>1
      <4>3. PICK g : g = [i \in 0..n |-> f[i]]
        OBVIOUS
      <4>4. \A i \in 0..(m - 1) : g[i] = At(g, i)
        BY <4>2, <4>3 DEF Built
      <4>5. \A i \in 0..n : i < m => i \in 0..(m - 1)
        BY <1>1, <2>3
      <4> QED BY <4>4, <4>5
    <3> QED BY <3>1, <3>2
  <2>5. \E f : Built(m, [i \in 0..n |-> f[i]])
    BY <1>2, <2>3, <2>4
  <2> QED BY <2>2, <2>5
<1>4. PICK f : f = [i \in 0..n |-> At(f, i)]
  <2>1. n \in 0..n
    BY <1>1
  <2>2. PICK f : Built(n, [i \in 0..n |-> f[i]])
    <3> HIDE DEF Built
    <3> QED BY <1>3, <2>1
  <2>3. PICK g : g = [i \in 0..n |-> f[i]]
    OBVIOUS
  <2>4. \A i \in 0..n : g[i] = At(g, i)
    <3> HIDE DEF At
    <3> QED BY <2>2, <2>3
  <2>5. g = [i \in 0..n |-> At(g, i)]
    <3> HIDE DEF At
    <3> QED BY <2>3, <2>4
  <2> HIDE DEF At
  <2> QED BY <2>5
<1> DEFINE after == CHOOSE r : r = [i \in 0..n |-> At(r, i)]
<1>5. after = [i \in 0..n |-> At(after, i)]
  <2> HIDE DEF At
  <2> QED BY <1>4
<1>6. ParentAfter(ordered) = after
  BY DEF ParentAfter, n, alone
<1> HIDE DEF after
<1>7. \A i \in 0..n : after[i] = At(after, i)
  <2> HIDE DEF At
  <2> QED BY <1>5
<1>8. 0 \in 0..n /\ \A i \in 1..n : i \in 0..n /\ i # 0
  BY <1>1
<1>9. after[0] = alone
  BY <1>7, <1>8
<1>10. \A i \in 1..n : after[i] = IF i \in DOMAIN ordered THEN Union(after[i - 1], Joined(ordered, i)) ELSE after[i - 1]
  BY <1>7, <1>8
<1> QED BY <1>6, <1>9, <1>10 DEF n, alone

\* Of places closed under links: none leads out.
Sealed(ordered, S) == \A i, j \in DOMAIN ordered : Linked(ordered[i], ordered[j]) => (i \in S <=> j \in S)

\* After all rounds, one root for all that are linked, in every set that is sealed.
LEMMA LoopsJoin ==
  ASSUME NEW ordered, DOMAIN ordered \subseteq 1..Len(RuleOrder), NEW parent, parent = ParentAfter(ordered)[Len(RuleOrder)]
  PROVE  /\ IsForest(parent, DOMAIN ordered)
         /\ \A i, j \in DOMAIN ordered : Linked(ordered[i], ordered[j]) => RootOf(parent, i) = RootOf(parent, j)
         /\ \A S : Sealed(ordered, S) => \A k \in DOMAIN ordered : k \in S <=> parent[k] \in S
<1> DEFINE n == Len(RuleOrder)
           P == DOMAIN ordered
           After(m) == ParentAfter(ordered)[m]
           Good(m) ==
             /\ IsForest(After(m), P)
             /\ \A i, j \in P : i < j /\ i <= m /\ Linked(ordered[i], ordered[j]) => RootOf(After(m), i) = RootOf(After(m), j)
             /\ \A S : Sealed(ordered, S) => \A k \in P : k \in S <=> After(m)[k] \in S
           T == {m \in 0..n : ~Good(m)}
<1>1. n \in Nat /\ P \in SUBSET (0..n) /\ \A i \in P : i \in 1..n
  BY RulesCounted
<1>2. Good(0)
  <2>1. After(0) = [k \in P |-> k]
    BY ParentsFound
  <2>2. \A i \in P : ~(i <= 0)
    BY <1>1
  <2>3. IsForest(After(0), P)
    BY <1>1, <2>1 DEF IsForest
  <2> HIDE DEF After
  <2> QED BY <2>1, <2>2, <2>3
<1>3. ASSUME NEW m \in 1..n, Good(m - 1)
      PROVE  Good(m)
  <2>1. After(m) = IF m \in P THEN Union(After(m - 1), Joined(ordered, m)) ELSE After(m - 1)
    BY ParentsFound
  <2> HIDE DEF After, n
  <2>2. \A i \in P : i <= m => i = m \/ i <= m - 1
    BY <1>1
  <2>3. CASE m \notin P
    <3>1. After(m) = After(m - 1) /\ \A i \in P : i <= m => i <= m - 1
      BY <2>1, <2>2, <2>3
    <3> QED BY <1>3, <3>1
  <2>4. CASE m \in P
    <3> DEFINE old == After(m - 1)
               joined == Joined(ordered, m)
    <3>1. joined \in SUBSET P /\ m \in joined /\ joined # {}
      BY <2>4 DEF Joined
    <3>2. \A j \in P : m < j /\ Linked(ordered[m], ordered[j]) => j \in joined
      BY DEF Joined
    <3>3. \A S : Sealed(ordered, S) => \A i, j \in joined : i \in S <=> j \in S
      BY <2>4 DEF Joined, Sealed
    <3>4. IsForest(old, P)
      BY <1>3
    <3> HIDE DEF joined, P
    <3>5. /\ IsForest(Union(old, joined), P)
          /\ \A i, j \in joined : RootOf(Union(old, joined), i) = RootOf(Union(old, joined), j)
          /\ \A i, j \in P : RootOf(old, i) = RootOf(old, j) => RootOf(Union(old, joined), i) = RootOf(Union(old, joined), j)
          /\ \A S : (\A k \in P : k \in S <=> old[k] \in S) /\ (\A i, j \in joined : i \in S <=> j \in S) =>
               \A k \in P : k \in S <=> Union(old, joined)[k] \in S
      <4> HIDE DEF old
      <4>1. n \in Nat /\ P \in SUBSET (0..n)
        BY <1>1
      <4> QED BY <3>1, <3>4, <4>1, UnionJoins
    <3>6. After(m) = Union(old, joined)
      BY <2>1, <2>4 DEF joined
    <3>7. \A i, j \in P : i < j /\ i <= m /\ Linked(ordered[i], ordered[j]) => RootOf(After(m), i) = RootOf(After(m), j)
      BY <1>3, <2>2, <3>1, <3>2, <3>5, <3>6
    <3>8. \A S : Sealed(ordered, S) => \A k \in P : k \in S <=> After(m)[k] \in S
      BY <1>3, <3>3, <3>5, <3>6
    <3> QED BY <3>5, <3>6, <3>7, <3>8
  <2> QED BY <2>3, <2>4
<1>4. Good(n)
  <2>1. T = {}
    <3> SUFFICES ASSUME T # {} PROVE FALSE
      OBVIOUS
    <3> HIDE DEF Good, n
    <3>1. T \in SUBSET Nat
      BY <1>1
    <3>2. PICK m \in T : \A x \in T : m <= x
      BY <3>1, LeastNumber
    <3>3. m \in 1..n /\ m - 1 \in 0..n /\ ~(m <= m - 1)
      BY <1>1, <1>2, <3>2
    <3>4. Good(m - 1)
      BY <3>2, <3>3
    <3> QED BY <1>3, <3>2, <3>3, <3>4
  <2>2. n \in 0..n
    BY <1>1
  <2> HIDE DEF Good, n
  <2> QED BY <2>1, <2>2
<1>5. parent = After(n)
  OBVIOUS
<1>6. ASSUME NEW i \in P, NEW j \in P, Linked(ordered[i], ordered[j])
      PROVE  RootOf(parent, i) = RootOf(parent, j)
  <2>1. Linked(ordered[j], ordered[i])
    BY <1>6 DEF Linked
  <2>2. i \in Nat /\ j \in Nat /\ i <= n /\ j <= n
    BY <1>1
  <2>3. i < j \/ j < i \/ i = j
    BY <2>2
  <2>4. \A a, b \in P : a < b /\ a <= n /\ Linked(ordered[a], ordered[b]) => RootOf(parent, a) = RootOf(parent, b)
    BY <1>4, <1>5
  <2> HIDE DEF P, After, n
  <2> QED BY <1>6, <2>1, <2>2, <2>3, <2>4
<1> HIDE DEF After, n
<1> QED BY <1>4, <1>5, <1>6

------------------------------------------------------------------------------
(* The groups of findings.                                                 *)

ReachedIn(F, f) ==
  {g \in F : \A S \in SUBSET F : f \in S /\ (\A h \in S, x \in F : Linked(h, x) => x \in S) => g \in S}

\* Each group is of those reached from any of it, and each is in one.
LEMMA GroupsAreReached ==
  ASSUME NEW F, NEW ordered, DOMAIN ordered \subseteq 1..Len(RuleOrder), F = {ordered[i] : i \in DOMAIN ordered}
  PROVE  /\ \A G \in UnionFindGroups(ordered) : G # {} /\ \A f \in G : G = ReachedIn(F, f)
         /\ \A f \in F : \E G \in UnionFindGroups(ordered) : f \in G
<1> DEFINE P == DOMAIN ordered
<1>1. PICK parent : parent = ParentAfter(ordered)[Len(RuleOrder)]
  OBVIOUS
<1> DEFINE root(i) == RootOf(parent, i)
           group(i) == {ordered[j] : j \in {k \in P : root(k) = root(i)}}
<1>2. UnionFindGroups(ordered) = {group(i) : i \in P}
  BY <1>1 DEF UnionFindGroups
<1>3. \A i, j \in P : Linked(ordered[i], ordered[j]) => root(i) = root(j)
  BY <1>1, LoopsJoin
<1>4. \A S : Sealed(ordered, S) => \A k \in P : k \in S <=> root(k) \in S
  <2> SUFFICES ASSUME NEW S, Sealed(ordered, S), NEW k \in P PROVE k \in S <=> root(k) \in S
    OBVIOUS
  <2>1. IsForest(parent, P) /\ \A i \in P : i \in S <=> parent[i] \in S
    BY <1>1, LoopsJoin
  <2>2. PICK n \in Nat : P \in SUBSET (0..n)
    <3>1. Len(RuleOrder) \in Nat /\ P \in SUBSET (0..Len(RuleOrder))
      BY RulesCounted
    <3> QED BY <3>1
  <2> HIDE DEF P
  <2> QED BY <2>1, <2>2, RootIs
<1> HIDE DEF root
<1>5. \A f : Linked(f, f)
  BY DEF Linked
<1>6. \A f, g : Linked(f, g) <=> Linked(g, f)
  BY DEF Linked
<1>7. ASSUME NEW i \in P, NEW f \in group(i)
      PROVE  group(i) = ReachedIn(F, f)
  <2>1. PICK a \in P : f = ordered[a] /\ root(a) = root(i)
    OBVIOUS
  <2>2. group(i) \subseteq F
    OBVIOUS
  <2>3. ASSUME NEW g \in group(i), NEW S \in SUBSET F, f \in S, \A h \in S, x \in F : Linked(h, x) => x \in S
        PROVE  g \in S
    <3>1. PICK b \in P : g = ordered[b] /\ root(b) = root(i)
      OBVIOUS
    <3> DEFINE Q == {k \in P : ordered[k] \in S}
    <3>2. \A k \in P : ordered[k] \in F
      OBVIOUS
    <3>4. Sealed(ordered, Q)
      BY <1>6, <2>3, <3>2 DEF Sealed
    <3>5. a \in Q
      BY <2>1, <2>3
    <3> HIDE DEF Q
    <3>6. b \in Q
      BY <1>4, <2>1, <3>1, <3>4, <3>5
    <3> QED BY <3>1, <3>6 DEF Q
  <2>4. \A h \in group(i), x \in F : Linked(h, x) => x \in group(i)
    <3> SUFFICES ASSUME NEW h \in group(i), NEW x \in F, Linked(h, x) PROVE x \in group(i)
      OBVIOUS
    <3>1. PICK b \in P : h = ordered[b] /\ root(b) = root(i)
      OBVIOUS
    <3>2. PICK c \in P : x = ordered[c]
      OBVIOUS
    <3>3. root(c) = root(i)
      BY <1>3, <3>1, <3>2
    <3> QED BY <3>2, <3>3
  <2>5. f \in group(i)
    OBVIOUS
  <2> HIDE DEF group
  <2>6. group(i) \subseteq ReachedIn(F, f)
    BY <2>2, <2>3 DEF ReachedIn
  <2>7. ReachedIn(F, f) \subseteq group(i)
    BY <2>2, <2>4, <2>5 DEF ReachedIn
  <2> QED BY <2>6, <2>7
<1>8. \A i \in P : ordered[i] \in group(i)
  OBVIOUS
<1>9. \A f \in F : \E i \in P : f \in group(i)
  BY <1>8
<1> HIDE DEF group, P
<1> QED BY <1>2, <1>7, <1>8, <1>9

\* The findings of a category are what their order lists.
LEMMA OrderedLists ==
  ASSUME NEW F, DifferentRules(F)
  PROVE  /\ DOMAIN Ordered(F) \subseteq 1..Len(RuleOrder)
         /\ F = {Ordered(F)[i] : i \in DOMAIN Ordered(F)}
<1> DEFINE places == {i \in 1..Len(RuleOrder) : \E f \in F : f.rule = RuleOrder[i]}
<1>1. Ordered(F) = [i \in places |-> CHOOSE f \in F : f.rule = RuleOrder[i]]
  BY DEF Ordered
<1>2. ASSUME NEW i \in places
      PROVE  Ordered(F)[i] \in F /\ Ordered(F)[i].rule = RuleOrder[i]
  <2>1. Ordered(F)[i] = CHOOSE f \in F : f.rule = RuleOrder[i]
    BY <1>1
  <2> QED BY <2>1
<1>3. ASSUME NEW f \in F
      PROVE  \E i \in places : f = Ordered(F)[i]
  <2>1. PICK i \in 1..Len(RuleOrder) : f.rule = RuleOrder[i]
    BY DEF DifferentRules, ToSet
  <2>2. i \in places
    BY <2>1
  <2> HIDE DEF places
  <2>3. Ordered(F)[i] \in F /\ Ordered(F)[i].rule = f.rule
    BY <1>2, <2>1, <2>2
  <2>4. f = Ordered(F)[i]
    BY <2>3 DEF DifferentRules
  <2> QED BY <2>2, <2>4
<1>4. DOMAIN Ordered(F) = places
  BY <1>1
<1>5. places \subseteq 1..Len(RuleOrder)
  OBVIOUS
<1> HIDE DEF places
<1> QED BY <1>2, <1>3, <1>4, <1>5

\* A group is of those reached from any of it within their category.
LEMMA GroupsWithin ==
  ASSUME NEW F, DifferentRules(F)
  PROVE  /\ \A G \in GroupFindings(F) : G # {} /\ \A f \in G : f \in F /\ G = ReachedIn({g \in F : g.category = f.category}, f)
         /\ \A f \in F : \E G \in GroupFindings(F) : f \in G
<1> DEFINE InCategory(c) == {f \in F : f.category = c}
           categories == {f.category : f \in F}
<1>1. GroupFindings(F) = UNION {UnionFindGroups(Ordered(InCategory(c))) : c \in categories}
  BY DEF GroupFindings
<1>2. ASSUME NEW c
      PROVE  /\ \A G \in UnionFindGroups(Ordered(InCategory(c))) : G # {} /\ \A f \in G : G = ReachedIn(InCategory(c), f)
             /\ \A f \in InCategory(c) : \E G \in UnionFindGroups(Ordered(InCategory(c))) : f \in G
  <2>1. DifferentRules(InCategory(c))
    BY DEF DifferentRules
  <2>2. PICK H : H = InCategory(c)
    OBVIOUS
  <2>3. DOMAIN Ordered(H) \subseteq 1..Len(RuleOrder) /\ H = {Ordered(H)[i] : i \in DOMAIN Ordered(H)}
    <3>1. DifferentRules(H)
      BY <2>1, <2>2
    <3> HIDE DEF InCategory
    <3> QED BY <3>1, OrderedLists
  <2>4. PICK ordered : ordered = Ordered(H)
    OBVIOUS
  <2>5. /\ \A G \in UnionFindGroups(ordered) : G # {} /\ \A f \in G : G = ReachedIn(H, f)
        /\ \A f \in H : \E G \in UnionFindGroups(ordered) : f \in G
    <3> HIDE DEF InCategory
    <3> QED BY <2>3, <2>4, GroupsAreReached
  <2> HIDE DEF InCategory
  <2> QED BY <2>2, <2>4, <2>5
<1>3. ASSUME NEW G \in GroupFindings(F)
      PROVE  G # {} /\ \A f \in G : f \in F /\ G = ReachedIn(InCategory(f.category), f)
  <2>1. PICK c \in categories : G \in UnionFindGroups(Ordered(InCategory(c)))
    BY <1>1, <1>3
  <2>2. G # {} /\ \A f \in G : G = ReachedIn(InCategory(c), f)
    <3> HIDE DEF InCategory
    <3> QED BY <1>2, <2>1
  <2>3. \A f \in G : f \in InCategory(c)
    <3> HIDE DEF InCategory
    <3> QED BY <2>2 DEF ReachedIn
  <2>4. \A f \in G : f \in F /\ f.category = c
    BY <2>3
  <2> HIDE DEF InCategory
  <2> QED BY <2>2, <2>4
<1>4. \A f \in F : f.category \in categories /\ f \in InCategory(f.category)
  OBVIOUS
<1>5. \A f \in F : \E G \in GroupFindings(F) : f \in G
  <2> HIDE DEF InCategory, categories
  <2> QED BY <1>1, <1>2, <1>4
<1> QED BY <1>3, <1>5

------------------------------------------------------------------------------
(* What the rules find.                                                    *)

\* What one rule makes: one finding of its own at most.
IsOf(list, rule) ==
  list = <<>> \/ \E f : list = <<f>> /\ f.rule = rule /\ f.severity \in Info..High

LEMMA FindingIsOf ==
  ASSUME NEW rule, NEW category, NEW severity \in {Info, Low, Medium, High}, NEW confidence, NEW from, NEW modules
  PROVE  IsOf(FindingIn(rule, category, severity, confidence, from, modules), rule)
<1> DEFINE evidence == EvidenceTuple(from)
           f == [rule |-> rule, category |-> category, severity |-> severity, confidence |-> confidence,
                 evidence |-> evidence, files |-> {x.path : x \in ToSet(evidence)}, modules |-> modules]
<1>1. FindingIn(rule, category, severity, confidence, from, modules) = <<f>>
  BY DEF FindingIn
<1>2. severity \in Info..High
  BY DEF Info, Low, Medium, High
<1>3. f.rule = rule /\ f.severity \in Info..High
  BY <1>2
<1> HIDE DEF f
<1> QED BY <1>1, <1>3 DEF IsOf

LEMMA GradedIsOf ==
  ASSUME NEW rule, NEW category, NEW confidence, NEW from, NEW whole
  PROVE  IsOf(Graded(rule, category, confidence, from, whole), rule)
<1>1. SeverityOf(rule, Len(from), whole) \in {Info, Low, Medium, High}
  BY DEF SeverityOf
<1>2. IsOf(Finding(rule, category, SeverityOf(rule, Len(from), whole), confidence, from), rule)
  BY <1>1, FindingIsOf DEF Finding
<1> QED BY <1>2 DEF Graded, IsOf

LEMMA RulesFind ==
  \A i \in 1..12 : IsOf(AllRules[i], RuleOrder[i])
<1>0. \A rule : IsOf(<<>>, rule)
  BY DEF IsOf
<1>1. IsOf(BroadApiSurface, "API-001")
  BY GradedIsOf DEF BroadApiSurface
<1>2. IsOf(IncompleteBaselineConfiguration, "CFG-001")
  <2> DEFINE severity(missing) == IF Len(missing) >= MissingMedium THEN Medium ELSE Low
  <2>1. \A missing : IsOf(Finding("CFG-001", "configuration_quality", severity(missing), High, missing), "CFG-001")
    BY FindingIsOf DEF Finding
  <2> QED BY <1>0, <2>1 DEF IncompleteBaselineConfiguration
<1>3. IsOf(FactsOutsideModuleBoundaries, "COH-001")
  <2>1. \A n, m, from : IsOf(FindingIn("COH-001", "cohesion", SeverityOf("COH-001", n, m), High, from, {}), "COH-001")
    BY FindingIsOf DEF SeverityOf
  <2> QED BY <1>0, <2>1 DEF FactsOutsideModuleBoundaries
<1>4. IsOf(HighDependencyCount, "DEP-001")
  BY GradedIsOf DEF HighDependencyCount
<1>5. IsOf(UnconstrainedDependencyVersions, "DEP-002")
  BY GradedIsOf DEF UnconstrainedDependencyVersions
<1>6. IsOf(ExternalFrameworkOverride, "EXT-001")
  <2>1. \A from : IsOf(Finding("EXT-001", "extension_mechanisms", Medium, High, from), "EXT-001")
    BY FindingIsOf DEF Finding
  <2> QED BY <1>0, <2>1 DEF ExternalFrameworkOverride
<1>7. IsOf(HighExtensionPointDensity, "EXT-002")
  BY GradedIsOf DEF HighExtensionPointDensity
<1>8. IsOf(NoRecognizedFrameworkModule, "FWK-001")
  <2>1. \A from : IsOf(Finding("FWK-001", "framework_usage", Info, High, from), "FWK-001")
    BY FindingIsOf DEF Finding
  <2> QED BY <1>0, <2>1 DEF NoRecognizedFrameworkModule
<1>9. IsOf(HighUnresolvedRatio, "MNT-001")
  BY GradedIsOf DEF HighUnresolvedRatio
<1>10. IsOf(NoModulesIdentified, "MOD-001")
  <2>1. \A from : IsOf(FindingIn("MOD-001", "modularity", High, High, from, {}), "MOD-001")
    BY FindingIsOf
  <2> QED BY <1>0, <2>1 DEF NoModulesIdentified
<1>11. IsOf(SingleDominantModule, "MOD-002")
  <2>1. \A n, m, from, modules :
          IsOf(FindingIn("MOD-002", "modularity", SeverityOf("MOD-002", n, m), High, from, modules), "MOD-002")
    BY FindingIsOf DEF SeverityOf
  <2> QED BY <1>0, <2>1 DEF SingleDominantModule
<1>12. IsOf(HighScheduledTaskVolume, "SVC-001")
  BY GradedIsOf DEF HighScheduledTaskVolume
<1>13. /\ RuleOrder[1] = "API-001" /\ RuleOrder[2] = "CFG-001" /\ RuleOrder[3] = "COH-001" /\ RuleOrder[4] = "DEP-001"
       /\ RuleOrder[5] = "DEP-002" /\ RuleOrder[6] = "EXT-001" /\ RuleOrder[7] = "EXT-002" /\ RuleOrder[8] = "FWK-001"
       /\ RuleOrder[9] = "MNT-001" /\ RuleOrder[10] = "MOD-001" /\ RuleOrder[11] = "MOD-002" /\ RuleOrder[12] = "SVC-001"
  BY DEF RuleOrder
<1>14. /\ AllRules[1] = BroadApiSurface /\ AllRules[2] = IncompleteBaselineConfiguration
       /\ AllRules[3] = FactsOutsideModuleBoundaries /\ AllRules[4] = HighDependencyCount
       /\ AllRules[5] = UnconstrainedDependencyVersions /\ AllRules[6] = ExternalFrameworkOverride
       /\ AllRules[7] = HighExtensionPointDensity /\ AllRules[8] = NoRecognizedFrameworkModule
       /\ AllRules[9] = HighUnresolvedRatio /\ AllRules[10] = NoModulesIdentified
       /\ AllRules[11] = SingleDominantModule /\ AllRules[12] = HighScheduledTaskVolume
  BY DEF AllRules
<1>15. \A i \in 1..12 : \/ i = 1 \/ i = 2 \/ i = 3 \/ i = 4 \/ i = 5 \/ i = 6
                        \/ i = 7 \/ i = 8 \/ i = 9 \/ i = 10 \/ i = 11 \/ i = 12
  OBVIOUS
<1> QED BY <1>1, <1>2, <1>3, <1>4, <1>5, <1>6, <1>7, <1>8, <1>9, <1>10, <1>11, <1>12, <1>13, <1>14, <1>15

\* However many rules are run, each makes one finding at most.
LEMMA EvaluationsAreOfTheRules ==
  ASSUME NEW run \in 0..Len(AllRules)
  PROVE  DifferentRules(ToSet(FlattenSeq(SubSeq(AllRules, 1, run))))
<1>1. Len(AllRules) = 12
  BY DEF AllRules
<1> DEFINE X == {AllRules[i] : i \in 1..12}
           F == UNION {ToSet(AllRules[i]) : i \in 1..12}
<1>2. PICK rules : rules = AllRules
  OBVIOUS
<1>3. rules \in Seq(X) /\ Len(rules) = 12
  <2>1. AllRules \in Seq(X)
    <3>1. AllRules = [i \in 1..12 |-> AllRules[i]]
      BY DEF AllRules
    <3>2. [i \in 1..12 |-> AllRules[i]] \in Seq(X)
      OBVIOUS
    <3> QED BY <3>1, <3>2
  <2> QED BY <1>1, <1>2, <2>1
<1>4. \A i \in 1..12 : IsOf(rules[i], RuleOrder[i])
  BY <1>2, RulesFind
<1> DEFINE q == SubSeq(rules, 1, run)
<1>5. Len(q) = run /\ run \in 0..12 /\ (run = 0 => q = <<>>) /\ \A i \in 1..run : i \in 1..12 /\ q[i] = rules[i]
  <2> HIDE DEF X
  <2>1. run \in 0..12
    BY <1>1
  <2> QED BY <1>3, <2>1
<1>6. \A i \in 1..12 : IsList(rules[i]) /\ ToSet(rules[i]) \subseteq F
  <2> SUFFICES ASSUME NEW i \in 1..12 PROVE IsList(rules[i]) /\ ToSet(rules[i]) \subseteq F
    OBVIOUS
  <2>1. IsList(rules[i])
    <3>1. IsOf(rules[i], RuleOrder[i])
      BY <1>4
    <3>2. IsList(<<>>) /\ \A f : IsList(<<f>>)
      BY DEF IsList
    <3> QED BY <3>1, <3>2 DEF IsOf
  <2>2. ToSet(rules[i]) \subseteq F
    BY <1>2
  <2> QED BY <2>1, <2>2
<1>7. ToSet(FlattenSeq(q)) \subseteq F
  <2> HIDE DEF q, F
  <2>1. Len(q) \in Nat
    BY <1>5
  <2>2. \A i \in 1..Len(q) : IsList(q[i]) /\ ToSet(q[i]) \subseteq F
    BY <1>5, <1>6
  <2>3. Len(q) = 0 => IsList(q)
    BY <1>5 DEF IsList
  <2> QED BY <2>1, <2>2, <2>3, FlattenedFrom
<1>8. DifferentRules(F)
  <2>1. ASSUME NEW f \in F
        PROVE  \E i \in 1..12 : rules[i] = <<f>> /\ f.rule = RuleOrder[i] /\ f.severity \in Info..High
    <3>1. PICK i \in 1..12 : f \in ToSet(rules[i])
      BY <1>2, <2>1
    <3>2. IsOf(rules[i], RuleOrder[i])
      BY <1>4
    <3>3. ToSet(<<>>) = {} /\ \A g : ToSet(<<g>>) = {g}
      BY DEF ToSet
    <3> QED BY <3>1, <3>2, <3>3 DEF IsOf
  <2>2. \A i \in 1..12 : RuleOrder[i] \in ToSet(RuleOrder)
    BY RulesCounted DEF ToSet
  <2>3. \A i, j \in 1..12 : RuleOrder[i] = RuleOrder[j] => i = j
    BY RulesCounted
  <2>4. \A f, g : <<f>> = <<g>> => f = g
    OBVIOUS
  <2> HIDE DEF F
  <2>5. \A f \in F : f.rule \in ToSet(RuleOrder) /\ f.severity \in Info..High
    BY <2>1, <2>2
  <2>6. ASSUME NEW f \in F, NEW g \in F, f.rule = g.rule PROVE f = g
    <3>1. PICK i \in 1..12 : rules[i] = <<f>> /\ f.rule = RuleOrder[i]
      BY <2>1
    <3>2. PICK j \in 1..12 : rules[j] = <<g>> /\ g.rule = RuleOrder[j]
      BY <2>1
    <3>3. i = j
      BY <2>3, <2>6, <3>1, <3>2
    <3> QED BY <2>4, <3>1, <3>2, <3>3
  <2> QED BY <2>5, <2>6 DEF DifferentRules
<1> HIDE DEF F
<1>9. DifferentRules(ToSet(FlattenSeq(q)))
  <2> HIDE DEF q
  <2> QED BY <1>7, <1>8 DEF DifferentRules
<1> QED BY <1>2, <1>9

------------------------------------------------------------------------------
(* Recommendations are of what an evaluation found.                        *)

RecommendationsOK ==
  /\ evaluation # None => DifferentRules(ToSet(evaluation.findings))
  /\ recommendations # None =>
       /\ evaluation # None
       /\ recommendations = {BuildRecommendation(G) : G \in GroupFindings(ToSet(evaluation.findings))}

\* The worst of a group allows its priority.
LEMMA PriorityIsBounded ==
  ASSUME NEW F, DifferentRules(F), NEW G \in SUBSET F, G # {}
  PROVE  \E f \in G : PriorityOf(G) <= Ceiling(f.severity)
<1> DEFINE severities == {f.severity : f \in G}
           T == {d \in 0..3 : \E f \in G : f.severity = 3 - d}
<1>1. \A f \in G : f.severity \in 0..3
  BY DEF DifferentRules, Info, High
<1>2. T \in SUBSET Nat /\ T # {}
  <2>1. PICK f \in G : TRUE
    OBVIOUS
  <2>2. 3 - f.severity \in 0..3 /\ f.severity = 3 - (3 - f.severity)
    BY <1>1
  <2> QED BY <2>2
<1>3. PICK d \in T : \A e \in T : d <= e
  BY <1>2, LeastNumber
<1>4. PICK w \in G : w.severity = 3 - d
  OBVIOUS
<1>5. \A g \in G : g.severity <= w.severity
  <2> SUFFICES ASSUME NEW g \in G PROVE g.severity <= w.severity
    OBVIOUS
  <2>1. 3 - g.severity \in 0..3 /\ g.severity = 3 - (3 - g.severity)
    BY <1>1
  <2>2. 3 - g.severity \in T
    BY <2>1
  <2>3. d <= 3 - g.severity /\ d \in 0..3 /\ g.severity \in 0..3
    BY <1>1, <1>3, <2>2
  <2> HIDE DEF T
  <2> QED BY <1>4, <2>3
<1>6. PICK f \in G : f.severity = GroupSeverity(G)
  <2>1. \E f \in G : \A g \in G : g.severity <= f.severity
    BY <1>5
  <2> QED BY <2>1 DEF GroupSeverity
<1> DEFINE bound == Ceiling(GroupSeverity(G))
           p == PriorityFromScore(Score(G))
<1>7. bound \in Nat
  BY DEF Ceiling
<1>8. PriorityOf(G) = IF p <= bound THEN p ELSE bound
  BY DEF PriorityOf
<1>9. PriorityOf(G) <= bound
  <2> HIDE DEF bound, p
  <2> QED BY <1>7, <1>8
<1> QED BY <1>6, <1>9

LEMMA RecommendationsTell ==
  ASSUME RecommendationsOK
  PROVE  RecommendationsCoverTheFindings
<1> SUFFICES ASSUME recommendations # None PROVE RecommendationsCoverTheFindings
  BY DEF RecommendationsCoverTheFindings
<1>1. PICK F : F = ToSet(evaluation.findings)
  OBVIOUS
<1>2. DifferentRules(F) /\ recommendations = {BuildRecommendation(G) : G \in GroupFindings(F)}
  BY <1>1 DEF RecommendationsOK
<1>3. /\ \A G \in GroupFindings(F) : G # {} /\ \A f \in G : f \in F /\ G = ReachedIn({g \in F : g.category = f.category}, f)
      /\ \A f \in F : \E G \in GroupFindings(F) : f \in G
  BY <1>2, GroupsWithin
<1>4. \A f : Reached(f) = ReachedIn({g \in F : g.category = f.category}, f)
  BY <1>1 DEF Reached, ReachedIn
<1>5. \A f, g \in F : f.rule = g.rule => f = g
  BY <1>2 DEF DifferentRules
<1> DEFINE supportOf(f) == {r \in recommendations : f.rule \in r.supporting}
<1>6. \A G : /\ BuildRecommendation(G).supporting = {g.rule : g \in G}
             /\ BuildRecommendation(G).category = CategoryOf(G) /\ BuildRecommendation(G).priority = PriorityOf(G)
             /\ BuildRecommendation(G).files = AffectedFiles(G) /\ BuildRecommendation(G).modules = AffectedModules(G)
  BY DEF BuildRecommendation
<1>7. ASSUME NEW G \in GroupFindings(F), NEW f \in F, f.rule \in BuildRecommendation(G).supporting
      PROVE  f \in G
  <2>1. PICK g \in G : f.rule = g.rule
    BY <1>6, <1>7
  <2>2. g \in F
    BY <1>3
  <2> QED BY <1>5, <2>1, <2>2
<1>8. ASSUME NEW f \in F
      PROVE  /\ Cardinality(supportOf(f)) = 1
             /\ \A r \in supportOf(f) :
                  /\ r.supporting = {g.rule : g \in Reached(f)}
                  /\ f.files \subseteq r.files /\ f.modules \subseteq r.modules /\ r.category = f.category
  <2>1. PICK G \in GroupFindings(F) : f \in G
    BY <1>3
  <2>2. G = Reached(f)
    BY <1>3, <1>4, <2>1
  <2>3. PICK r : r = BuildRecommendation(G)
    OBVIOUS
  <2>4. supportOf(f) = {r}
    <3>1. r \in recommendations /\ f.rule \in r.supporting
      BY <1>2, <1>6, <2>1, <2>3
    <3>2. ASSUME NEW s \in supportOf(f) PROVE s = r
      <4>1. PICK H \in GroupFindings(F) : s = BuildRecommendation(H)
        BY <1>2
      <4>2. f \in H
        BY <1>7, <4>1
      <4>3. H = Reached(f)
        BY <1>3, <1>4, <4>2
      <4> QED BY <2>2, <2>3, <4>1, <4>3
    <3> QED BY <3>1, <3>2
  <2>5. Cardinality({r}) = 1
    BY FS_Singleton
  <2>6. f.files \subseteq r.files /\ f.modules \subseteq r.modules
    BY <1>6, <2>1, <2>3 DEF AffectedFiles, AffectedModules
  <2>7. r.category = f.category
    <3>1. \A g \in G : g.category = f.category
      BY <1>3, <2>1 DEF ReachedIn
    <3>2. CategoryOf(G) = f.category
      BY <2>1, <3>1 DEF CategoryOf
    <3> QED BY <1>6, <2>3, <3>2
  <2>8. r.supporting = {g.rule : g \in Reached(f)}
    BY <1>6, <2>2, <2>3
  <2> HIDE DEF supportOf
  <2> QED BY <2>4, <2>5, <2>6, <2>7, <2>8
<1>9. ASSUME NEW r \in recommendations
      PROVE  \E f \in F : f.rule \in r.supporting /\ r.priority <= Ceiling(f.severity)
  <2>1. PICK G \in GroupFindings(F) : r = BuildRecommendation(G)
    BY <1>2
  <2>2. G # {} /\ G \in SUBSET F
    BY <1>3
  <2>3. PICK f \in G : PriorityOf(G) <= Ceiling(f.severity)
    BY <1>2, <2>2, PriorityIsBounded
  <2>4. f \in F /\ f.rule \in r.supporting /\ r.priority = PriorityOf(G)
    BY <1>6, <2>1, <2>2
  <2> QED BY <2>3, <2>4
<1> QED BY <1>1, <1>8, <1>9 DEF RecommendationsCoverTheFindings

LEMMA RecommendationsBegin ==
  ASSUME Init
  PROVE  RecommendationsOK
<1>1. job \in Jobs /\ evaluation = job.evaluation /\ recommendations = None
  BY DEF Init, RecommendationInit
<1> QED BY <1>1, EvaluationsAssumption DEF RecommendationsOK

LEMMA SameRecommendations ==
  ASSUME RecommendationsOK, UNCHANGED <<evaluation, recommendations>>
  PROVE  RecommendationsOK'
BY DEF RecommendationsOK

LEMMA EvaluateKeepsRecommendations ==
  ASSUME RecommendationsOK, NEW max, EvaluateArchitecture(max), UNCHANGED recommendations
  PROVE  RecommendationsOK'
<1>1. PICK run \in 0..Len(AllRules) :
        evaluation' = [findings |-> FlattenSeq(SubSeq(AllRules, 1, run)),
                       truncated |-> facts.truncated \/ run < Len(AllRules),
                       rulesEvaluated |-> run]
  BY DEF EvaluateArchitecture
<1>2. evaluation = None
  BY DEF EvaluateArchitecture
<1>3. recommendations = None
  BY <1>2 DEF RecommendationsOK
<1>4. PICK found : found = FlattenSeq(SubSeq(AllRules, 1, run))
  OBVIOUS
<1>5. evaluation'.findings = found
  BY <1>1, <1>4
<1>6. DifferentRules(ToSet(found))
  BY <1>4, EvaluationsAreOfTheRules
<1> QED BY <1>3, <1>5, <1>6 DEF RecommendationsOK

LEMMA GenerateKeepsRecommendations ==
  ASSUME RecommendationsOK, GenerateRecommendations, UNCHANGED evaluation
  PROVE  RecommendationsOK'
BY DEF RecommendationsOK, GenerateRecommendations

LEMMA NextKeepsRecommendations ==
  ASSUME RecommendationsOK, [Next]_vars
  PROVE  RecommendationsOK'
<1>1. CASE Analyse
  <2>1. CASE \E max : EvaluateArchitecture(max) /\ UNCHANGED recommendations
    BY <2>1, EvaluateKeepsRecommendations
  <2>2. CASE GenerateRecommendations /\ UNCHANGED evaluation
    BY <2>2, GenerateKeepsRecommendations
  <2>3. CASE UNCHANGED <<evaluation, recommendations>>
    BY <2>3, SameRecommendations
  <2> QED BY <1>1, <2>1, <2>2, <2>3 DEF Analyse, walking, synthesizing
<1>2. CASE ~Analyse
  <2>1. UNCHANGED <<evaluation, recommendations>>
    BY <1>2 DEF Next, vars, Edit, Calls, ExtractFromTree, Commands, analysis
  <2> QED BY <2>1, SameRecommendations
<1> QED BY <1>1, <1>2

\* scoring.py:205-263, 321-351: of any evaluation, each finding supports one
\* recommendation, with those its modules link it to, directly or through others,
\* and its priority is within what the severity of the worst of them allows.
THEOREM FindingsAreCovered == Spec => []RecommendationsCoverTheFindings
<1>1. Init => RecommendationsOK
  BY RecommendationsBegin
<1>2. RecommendationsOK /\ [Next]_vars => RecommendationsOK'
  BY NextKeepsRecommendations
<1>3. RecommendationsOK => RecommendationsCoverTheFindings
  BY RecommendationsTell
<1> QED BY <1>1, <1>2, <1>3, PTL DEF Spec

------------------------------------------------------------------------------
(* The patterns of a repository.                                           *)

\* One step of the functions that list a set and that walk down the classes.
OneStep(kind, S, state) == IF kind = "list" THEN OneMore(state, S) ELSE OneLevel(S, state)

StepsFrom(f, n, kind, S, base) ==
  f = [i \in 0..n |-> IF i = 0 THEN base ELSE OneStep(kind, S, f[i - 1])]

\* What is defined step by step is defined.
LEMMA StepsFound ==
  ASSUME NEW n \in Nat, NEW kind, NEW S, NEW base
  PROVE  \E f : StepsFrom(f, n, kind, S, base)
<1> DEFINE At(f, i) == IF i = 0 THEN base ELSE OneStep(kind, S, f[i - 1])
           Built(m, f) == \A i \in 0..m : f[i] = At(f, i)
           T == {m \in 0..n : ~\E f : Built(m, [i \in 0..n |-> f[i]])}
<1>2. ASSUME NEW m \in 0..n, NEW f, \A i \in 0..n : i < m => f[i] = At(f, i)
      PROVE  \E g : Built(m, [i \in 0..n |-> g[i]])
  <2> DEFINE g == [i \in 0..n |-> IF i = m THEN At(f, m) ELSE f[i]]
  <2>1. ASSUME NEW i \in 0..m PROVE g[i] = At(g, i)
    <3>1. i \in 0..n /\ (i # m => i < m)
      OBVIOUS
    <3>2. g[i] = At(f, i)
      <4>1. g[i] = IF i = m THEN At(f, m) ELSE f[i]
        BY <3>1
      <4> HIDE DEF At, g
      <4> QED BY <1>2, <3>1, <4>1
    <3>3. i # 0 => g[i - 1] = f[i - 1]
      <4>1. i # 0 => i - 1 \in 0..n /\ i - 1 # m
        OBVIOUS
      <4> HIDE DEF At
      <4> QED BY <4>1
    <3>4. At(g, i) = At(f, i)
      <4> HIDE DEF g
      <4> QED BY <3>3
    <3> HIDE DEF At, g
    <3> QED BY <3>2, <3>4
  <2>2. g = [i \in 0..n |-> g[i]]
    <3> HIDE DEF At
    <3> QED OBVIOUS
  <2> HIDE DEF g, At
  <2> QED BY <2>1, <2>2
<1>3. T = {}
  <2> SUFFICES ASSUME T # {} PROVE FALSE
    OBVIOUS
  <2> HIDE DEF Built, At
  <2>1. T \in SUBSET Nat
    OBVIOUS
  <2>2. PICK m \in T : \A x \in T : m <= x
    BY <2>1, LeastNumber
  <2>3. m \in 0..n
    OBVIOUS
  <2>4. \E f : \A i \in 0..n : i < m => f[i] = At(f, i)
    <3>1. CASE m = 0
      <4>1. \A i \in 0..n : ~(i < m)
        BY <3>1
      <4> QED BY <4>1
    <3>2. CASE m # 0
      <4>1. m - 1 \in 0..n /\ ~(m <= m - 1)
        BY <2>3, <3>2
      <4>2. PICK f : Built(m - 1, [i \in 0..n |-> f[i]])
        BY <2>2, <4>1
      <4>3. PICK g : g = [i \in 0..n |-> f[i]]
        OBVIOUS
      <4>4. \A i \in 0..(m - 1) : g[i] = At(g, i)
        BY <4>2, <4>3 DEF Built
      <4>5. \A i \in 0..n : i < m => i \in 0..(m - 1)
        BY <2>3
      <4> QED BY <4>4, <4>5
    <3> QED BY <3>1, <3>2
  <2>5. \E f : Built(m, [i \in 0..n |-> f[i]])
    BY <1>2, <2>3, <2>4
  <2> QED BY <2>2, <2>5
<1>4. PICK f : f = [i \in 0..n |-> At(f, i)]
  <2>1. n \in 0..n
    OBVIOUS
  <2>2. PICK f : Built(n, [i \in 0..n |-> f[i]])
    <3> HIDE DEF Built
    <3> QED BY <1>3, <2>1
  <2>3. PICK g : g = [i \in 0..n |-> f[i]]
    OBVIOUS
  <2>4. \A i \in 0..n : g[i] = At(g, i)
    <3> HIDE DEF At
    <3> QED BY <2>2, <2>3
  <2>5. g = [i \in 0..n |-> At(g, i)]
    <3> HIDE DEF At
    <3> QED BY <2>3, <2>4
  <2> HIDE DEF At
  <2> QED BY <2>5
<1>5. StepsFrom(f, n, kind, S, base)
  BY <1>4 DEF StepsFrom
<1> QED BY <1>5

\* Such a function unfolds.
LEMMA StepsUnfold ==
  ASSUME NEW n \in Nat, NEW kind, NEW S, NEW base, NEW f, StepsFrom(f, n, kind, S, base)
  PROVE  /\ f[0] = base
         /\ \A i \in 0..n : i # n => f[i + 1] = OneStep(kind, S, f[i])
<1>1. \A i \in 0..n : f[i] = IF i = 0 THEN base ELSE OneStep(kind, S, f[i - 1])
  BY DEF StepsFrom
<1>2. f[0] = base
  BY <1>1
<1>3. ASSUME NEW i \in 0..n, i # n PROVE f[i + 1] = OneStep(kind, S, f[i])
  <2>1. i + 1 \in 0..n /\ i + 1 # 0 /\ (i + 1) - 1 = i
    BY <1>3
  <2>2. f[i + 1] = IF i + 1 = 0 THEN base ELSE OneStep(kind, S, f[(i + 1) - 1])
    BY <1>1, <2>1
  <2> QED BY <2>1, <2>2
<1> QED BY <1>2, <1>3

\* Numbers that hold what is true at 0 and goes on from one to the next.
LEMMA UpTo ==
  ASSUME NEW n \in Nat, NEW G, 0 \in G, \A i \in 0..n : i # n /\ i \in G => i + 1 \in G
  PROVE  \A i \in 0..n : i \in G
<1> DEFINE T == (0..n) \ G
<1> SUFFICES ASSUME T # {} PROVE FALSE
  OBVIOUS
<1>1. T \in SUBSET Nat
  OBVIOUS
<1>2. PICK m \in T : \A x \in T : m <= x
  BY <1>1, LeastNumber
<1>3. m # 0 /\ m \in 0..n
  OBVIOUS
<1>4. m - 1 \in 0..n /\ m - 1 # n /\ ~(m <= m - 1) /\ (m - 1) + 1 = m
  BY <1>3
<1>5. m - 1 \in G
  BY <1>2, <1>4
<1> QED BY <1>4, <1>5

\* The list of an evidence set holds its records.
LEMMA EvidenceListed ==
  ASSUME NEW S, IsFiniteSet(S), NEW repository, NEW errors, NEW truncated
  PROVE  LET made == EvidenceSetOf(repository, S, errors, truncated) IN
         /\ made = [repository |-> repository, evidence |-> made.evidence, errors |-> errors, truncated |-> truncated]
         /\ ToSet(made.evidence) = S
<1> DEFINE n == Cardinality(S)
           list == CHOOSE f : f = [i \in 0..n |-> IF i = 0 THEN <<>> ELSE OneMore(f[i - 1], S)]
<1>1. n \in Nat
  BY FS_CardinalityType
<1>2. EvidenceSetOf(repository, S, errors, truncated) =
        [repository |-> repository, evidence |-> list[n], errors |-> errors, truncated |-> truncated]
  BY DEF EvidenceSetOf
<1>3. StepsFrom(list, n, "list", S, <<>>)
  <2> HIDE DEF n
  <2>1. PICK f : StepsFrom(f, n, "list", S, <<>>)
    BY <1>1, StepsFound
  <2>2. f = [i \in 0..n |-> IF i = 0 THEN <<>> ELSE OneMore(f[i - 1], S)]
    BY <2>1 DEF StepsFrom, OneStep
  <2>3. list = [i \in 0..n |-> IF i = 0 THEN <<>> ELSE OneMore(list[i - 1], S)]
    BY <2>2
  <2> HIDE DEF list
  <2> QED BY <2>3 DEF StepsFrom, OneStep
<1> HIDE DEF list
<1>4. list[0] = <<>> /\ \A i \in 0..n : i # n => list[i + 1] = OneMore(list[i], S)
  <2> HIDE DEF n
  <2>1. list[0] = <<>> /\ \A i \in 0..n : i # n => list[i + 1] = OneStep("list", S, list[i])
    BY <1>1, <1>3, StepsUnfold
  <2>2. \A state : OneStep("list", S, state) = OneMore(state, S)
    BY DEF OneStep
  <2> QED BY <2>1, <2>2
<1> DEFINE Some(i) == /\ IsList(list[i]) /\ ToSet(list[i]) \subseteq S
                      /\ IsFiniteSet(ToSet(list[i])) /\ Cardinality(ToSet(list[i])) = i
           G == {i \in 0..n : Some(i)}
<1>5. 0 \in G
  <2>1. IsList(<<>>) /\ ToSet(<<>>) = {}
    BY DEF IsList, ToSet
  <2>2. IsFiniteSet({}) /\ Cardinality({}) = 0
    BY FS_EmptySet
  <2>3. 0 \in 0..n
    BY <1>1
  <2> QED BY <1>4, <2>1, <2>2, <2>3
<1>6. ASSUME NEW i \in 0..n, i # n, i \in G PROVE i + 1 \in G
  <2>1. Some(i)
    BY <1>6
  <2>2. ToSet(list[i]) # S
    BY <1>6, <2>1
  <2>3. PICK x : x = CHOOSE y \in S : y \notin ToSet(list[i])
    OBVIOUS
  <2>4. x \in S /\ x \notin ToSet(list[i])
    BY <2>1, <2>2, <2>3
  <2>5. PICK q : q = list[i]
    OBVIOUS
  <2>6. list[i + 1] = Append(q, x)
    BY <1>4, <1>6, <2>3, <2>5 DEF OneMore
  <2>7. IsList(Append(q, x)) /\ ToSet(Append(q, x)) = ToSet(q) \cup {x}
    <3>1. IsList(q)
      BY <2>1, <2>5
    <3>2. /\ IsList(Append(q, x)) /\ Len(Append(q, x)) = Len(q) + 1 /\ Append(q, x)[Len(q) + 1] = x
          /\ \A k \in 1..Len(q) : Append(q, x)[k] = q[k]
      BY <3>1, ListAppended
    <3>3. PICK a : a = Append(q, x)
      OBVIOUS
    <3>4. /\ DOMAIN q = 1..Len(q) /\ Len(q) \in Nat /\ DOMAIN a = 1..(Len(q) + 1)
          /\ a[Len(q) + 1] = x /\ \A k \in 1..Len(q) : a[k] = q[k]
      BY <3>1, <3>2, <3>3 DEF IsList
    <3>5. ToSet(a) = ToSet(q) \cup {x}
      <4>1. ASSUME NEW y \in ToSet(a) PROVE y \in ToSet(q) \cup {x}
        BY <3>4 DEF ToSet
      <4>2. x \in ToSet(a) /\ \A y \in ToSet(q) : y \in ToSet(a)
        BY <3>4 DEF ToSet
      <4> QED BY <4>1, <4>2
    <3> QED BY <3>2, <3>3, <3>5
  <2>8. IsFiniteSet(ToSet(q) \cup {x}) /\ Cardinality(ToSet(q) \cup {x}) = i + 1
    BY <2>1, <2>4, <2>5, FS_AddElement
  <2>9. i + 1 \in 0..n
    BY <1>1, <1>6
  <2>10. Some(i + 1)
    BY <2>1, <2>4, <2>5, <2>6, <2>7, <2>8
  <2> QED BY <2>9, <2>10
<1>7. n \in 0..n
  BY <1>1
<1> HIDE DEF n
<1>8. n \in G
  <2> HIDE DEF G
  <2> QED BY <1>1, <1>5, <1>6, <1>7, UpTo
<1>9. ToSet(list[n]) = S
  BY <1>8, FS_Subset DEF n
<1> QED BY <1>2, <1>9

\* The records of a repository's sources.
SourceRecords(f) == CollectFromText(f.path, f.text)

Stated(repository) == UNION {SourceRecords(f) : f \in ToSet(Trees[repository])}

HooksIn(path, c) ==
  {EvidenceOf("controller_lifecycle_hook", QualifiedSymbol(path, c.name, method), <<method>>, path, c.line) :
     method \in c.methods \cap LifecycleHookNames}

DecorationsIn(path, f) ==
  {EvidenceOf("whitelisted_api_decoration", QualifiedSymbol(path, f.owner, f.name), d, path, f.line) : d \in f.decorators}

Definition(path, c) == EvidenceOf("class_definition", QualifiedClassSymbol(path, c.name), <<c.name>>, path, c.line)

BasesIn(path, c) ==
  {EvidenceOf("class_base_declaration", QualifiedClassSymbol(path, c.name), base, path, c.line) : base \in c.bases}

\* Unions of finitely many finite sets.
LEMMA UnionIsFinite ==
  ASSUME NEW S, IsFiniteSet(S), NEW g, \A x \in S : IsFiniteSet(g[x])
  PROVE  IsFiniteSet(UNION {g[x] : x \in S})
<1> DEFINE T == {g[x] : x \in S}
<1>1. IsFiniteSet(T)
  BY ImageIsFinite
<1>2. \A t \in T : IsFiniteSet(t)
  OBVIOUS
<1> HIDE DEF T
<1>3. IsFiniteSet(UNION T)
  BY <1>1, <1>2, FS_UNION
<1> QED BY <1>3 DEF T

LEMMA HookNamesAreFinite == IsFiniteSet(LifecycleHookNames)
<1> DEFINE names == <<"validate", "before_insert", "before_save", "after_insert", "on_update", "before_submit", "on_submit",
                      "on_cancel", "on_trash", "after_delete", "on_update_after_submit">>
<1>1. IsList(names)
  BY DEF IsList
<1>2. LifecycleHookNames \subseteq ToSet(names)
  <2>1. DOMAIN names = 1..11
    OBVIOUS
  <2>2. ASSUME NEW x \in LifecycleHookNames PROVE \E i \in 1..11 : names[i] = x
    <3>1. /\ names[1] = "validate" /\ names[2] = "before_insert" /\ names[3] = "before_save" /\ names[4] = "after_insert"
          /\ names[5] = "on_update" /\ names[6] = "before_submit" /\ names[7] = "on_submit" /\ names[8] = "on_cancel"
          /\ names[9] = "on_trash" /\ names[10] = "after_delete" /\ names[11] = "on_update_after_submit"
      OBVIOUS
    <3> HIDE DEF names
    <3> QED BY <3>1 DEF LifecycleHookNames
  <2> HIDE DEF names
  <2> QED BY <2>1, <2>2 DEF ToSet
<1> HIDE DEF names
<1> QED BY <1>1, <1>2, ElementsAreFinite, FS_Subset

LEMMA CodeListed ==
  ASSUME NEW text \in DOMAIN Parsed
  PROVE  /\ IsFiniteSet(ToSet(Parsed[text].classes)) /\ IsFiniteSet(ToSet(Parsed[text].functions))
         /\ \A c \in ToSet(Parsed[text].classes) : c.name # None /\ IsFiniteSet(c.bases)
         /\ \A f \in ToSet(Parsed[text].functions) : IsFiniteSet(f.decorators)
<1>1. IsList(Parsed[text].classes) /\ IsList(Parsed[text].functions)
  BY CodeAssumption DEF IsList
<1> QED BY <1>1, CodeAssumption, ElementsAreFinite

LEMMA RecordsAreFinite ==
  ASSUME NEW path, NEW text \in DOMAIN Parsed
  PROVE  IsFiniteSet(CollectFromText(path, text))
<1> DEFINE code == Parsed[text]
           C == ToSet(code.classes)
           F == {g \in ToSet(code.functions) : \E d \in g.decorators : IsWhitelist(d)}
<1>1. /\ IsFiniteSet(C) /\ IsFiniteSet(F)
      /\ \A c \in C : IsFiniteSet(c.bases)
      /\ \A f \in F : IsFiniteSet(f.decorators)
  <2>1. F \subseteq ToSet(code.functions)
    OBVIOUS
  <2> HIDE DEF F
  <2> QED BY <2>1, CodeListed, FS_Subset
<1>2. \A c \in C : IsFiniteSet(HooksIn(path, c))
  <2> SUFFICES ASSUME NEW c \in C PROVE IsFiniteSet(HooksIn(path, c))
    OBVIOUS
  <2> DEFINE M == c.methods \cap LifecycleHookNames
             g == [method \in M |-> EvidenceOf("controller_lifecycle_hook", QualifiedSymbol(path, c.name, method),
                                               <<method>>, path, c.line)]
  <2>1. IsFiniteSet(M)
    BY HookNamesAreFinite, FS_Intersection
  <2>2. IsFiniteSet({g[method] : method \in M})
    <3> HIDE DEF M, g
    <3> QED BY <2>1, ImageIsFinite
  <2>3. HooksIn(path, c) = {g[method] : method \in M}
    BY DEF HooksIn
  <2> QED BY <2>2, <2>3
<1>3. \A c \in C : IsFiniteSet(BasesIn(path, c))
  <2> SUFFICES ASSUME NEW c \in C PROVE IsFiniteSet(BasesIn(path, c))
    OBVIOUS
  <2> DEFINE B == c.bases
             g == [base \in B |-> EvidenceOf("class_base_declaration", QualifiedClassSymbol(path, c.name), base, path, c.line)]
  <2>1. IsFiniteSet(B)
    BY <1>1
  <2>2. IsFiniteSet({g[base] : base \in B})
    <3> HIDE DEF B, g
    <3> QED BY <2>1, ImageIsFinite
  <2>3. BasesIn(path, c) = {g[base] : base \in B}
    BY DEF BasesIn
  <2> QED BY <2>2, <2>3
<1>4. \A f \in F : IsFiniteSet(DecorationsIn(path, f))
  <2> SUFFICES ASSUME NEW f \in F PROVE IsFiniteSet(DecorationsIn(path, f))
    OBVIOUS
  <2> DEFINE D == f.decorators
             g == [d \in D |-> EvidenceOf("whitelisted_api_decoration", QualifiedSymbol(path, f.owner, f.name), d, path, f.line)]
  <2>1. IsFiniteSet(D)
    BY <1>1
  <2>2. IsFiniteSet({g[d] : d \in D})
    <3> HIDE DEF D, g
    <3> QED BY <2>1, ImageIsFinite
  <2>3. DecorationsIn(path, f) = {g[d] : d \in D}
    BY DEF DecorationsIn
  <2> QED BY <2>2, <2>3
<1> HIDE DEF C, F
<1>5. IsFiniteSet(UNION {HooksIn(path, c) : c \in C})
  <2> DEFINE g == [c \in C |-> HooksIn(path, c)]
  <2>1. \A c \in C : g[c] = HooksIn(path, c)
    OBVIOUS
  <2> HIDE DEF g
  <2>2. IsFiniteSet(UNION {g[c] : c \in C})
    BY <1>1, <1>2, <2>1, UnionIsFinite
  <2>3. {g[c] : c \in C} = {HooksIn(path, c) : c \in C}
    BY <2>1
  <2> QED BY <2>2, <2>3
<1>6. IsFiniteSet(UNION {BasesIn(path, c) : c \in C})
  <2> DEFINE g == [c \in C |-> BasesIn(path, c)]
  <2>1. \A c \in C : g[c] = BasesIn(path, c)
    OBVIOUS
  <2> HIDE DEF g
  <2>2. IsFiniteSet(UNION {g[c] : c \in C})
    BY <1>1, <1>3, <2>1, UnionIsFinite
  <2>3. {g[c] : c \in C} = {BasesIn(path, c) : c \in C}
    BY <2>1
  <2> QED BY <2>2, <2>3
<1>7. IsFiniteSet(UNION {DecorationsIn(path, f) : f \in F})
  <2> DEFINE g == [f \in F |-> DecorationsIn(path, f)]
  <2>1. \A f \in F : g[f] = DecorationsIn(path, f)
    OBVIOUS
  <2> HIDE DEF g
  <2>2. IsFiniteSet(UNION {g[f] : f \in F})
    BY <1>1, <1>4, <2>1, UnionIsFinite
  <2>3. {g[f] : f \in F} = {DecorationsIn(path, f) : f \in F}
    BY <2>1
  <2> QED BY <2>2, <2>3
<1>8. IsFiniteSet({Definition(path, c) : c \in C})
  <2> DEFINE g == [c \in C |-> Definition(path, c)]
  <2>1. \A c \in C : g[c] = Definition(path, c)
    OBVIOUS
  <2> HIDE DEF g
  <2>2. IsFiniteSet({g[c] : c \in C})
    BY <1>1, ImageIsFinite
  <2>3. {g[c] : c \in C} = {Definition(path, c) : c \in C}
    BY <2>1
  <2> QED BY <2>2, <2>3
<1>9. IsFiniteSet(ControllerLifecycleHooks(path, code))
  <2>1. ControllerLifecycleHooks(path, code) = UNION {HooksIn(path, c) : c \in C}
    BY DEF ControllerLifecycleHooks, HooksIn, C
  <2> QED BY <1>5, <2>1
<1>10. IsFiniteSet(WhitelistedApiDecorations(path, code))
  <2>1. WhitelistedApiDecorations(path, code) = UNION {DecorationsIn(path, f) : f \in F}
    BY DEF WhitelistedApiDecorations, DecorationsIn, F
  <2> QED BY <1>7, <2>1
<1>11. IsFiniteSet(ClassDefinitions(path, code))
  <2>1. ClassDefinitions(path, code) = {Definition(path, c) : c \in C} \cup UNION {BasesIn(path, c) : c \in C}
    BY DEF ClassDefinitions, Definition, BasesIn, C
  <2> DEFINE D == {Definition(path, c) : c \in C}
             B == UNION {BasesIn(path, c) : c \in C}
  <2>2. IsFiniteSet(D) /\ IsFiniteSet(B)
    BY <1>6, <1>8
  <2>3. ClassDefinitions(path, code) = D \cup B
    BY <2>1
  <2> HIDE DEF D, B
  <2> QED BY <2>2, <2>3, FS_Union
<1>12. CollectFromText(path, text) =
         ControllerLifecycleHooks(path, code) \cup WhitelistedApiDecorations(path, code) \cup ClassDefinitions(path, code)
  BY DEF CollectFromText
<1> DEFINE H == ControllerLifecycleHooks(path, code) \cup WhitelistedApiDecorations(path, code)
<1>13. IsFiniteSet(H)
  BY <1>9, <1>10, FS_Union
<1> HIDE DEF H
<1>14. IsFiniteSet(H \cup ClassDefinitions(path, code))
  BY <1>11, <1>13, FS_Union
<1> QED BY <1>12, <1>14 DEF H

LEMMA TextRecords ==
  ASSUME NEW path, NEW text, NEW r, r \in CollectFromText(path, text)
  PROVE  LET C == ToSet(Parsed[text].classes) IN
         /\ r.category = "class_definition" => \E c \in C : r = Definition(path, c)
         /\ r.category = "class_base_declaration" => \E c \in C : r \in BasesIn(path, c)
         /\ r.category = "controller_lifecycle_hook" => \E c \in C : r \in HooksIn(path, c)
<1> DEFINE code == Parsed[text]
           C == ToSet(code.classes)
<1>1. \A category, symbol, subject, line : EvidenceOf(category, symbol, subject, path, line).category = category
  BY DEF EvidenceOf
<1>2. \A x \in WhitelistedApiDecorations(path, code) : x.category = "whitelisted_api_decoration"
  BY <1>1 DEF WhitelistedApiDecorations
<1>3. \A x \in ControllerLifecycleHooks(path, code) : \E c \in C : x \in HooksIn(path, c)
  BY DEF ControllerLifecycleHooks, HooksIn
<1>4. \A x \in ClassDefinitions(path, code) : \E c \in C : x = Definition(path, c) \/ x \in BasesIn(path, c)
  BY DEF ClassDefinitions, Definition, BasesIn
<1>5. \A c : /\ Definition(path, c).category = "class_definition"
             /\ \A x \in BasesIn(path, c) : x.category = "class_base_declaration"
             /\ \A x \in HooksIn(path, c) : x.category = "controller_lifecycle_hook"
  <2>1. \A c : Definition(path, c).category = "class_definition"
    BY <1>1 DEF Definition
  <2>2. \A c : \A x \in BasesIn(path, c) : x.category = "class_base_declaration"
    BY <1>1 DEF BasesIn
  <2>3. \A c : \A x \in HooksIn(path, c) : x.category = "controller_lifecycle_hook"
    <3> SUFFICES ASSUME NEW c, NEW x \in HooksIn(path, c) PROVE x.category = "controller_lifecycle_hook"
      OBVIOUS
    <3>1. PICK method : x = EvidenceOf("controller_lifecycle_hook", QualifiedSymbol(path, c.name, method), <<method>>, path, c.line)
      BY DEF HooksIn
    <3> QED BY <1>1, <3>1
  <2> QED BY <2>1, <2>2, <2>3
<1>6. \/ r \in WhitelistedApiDecorations(path, code) \/ r \in ControllerLifecycleHooks(path, code)
      \/ r \in ClassDefinitions(path, code)
  BY DEF CollectFromText
<1> HIDE DEF code
<1> SUFFICES ASSUME TRUE
             PROVE  /\ r.category = "class_definition" => \E c \in C : r = Definition(path, c)
                    /\ r.category = "class_base_declaration" => \E c \in C : r \in BasesIn(path, c)
                    /\ r.category = "controller_lifecycle_hook" => \E c \in C : r \in HooksIn(path, c)
  BY DEF code
<1> HIDE DEF C
<1>7. CASE r \in WhitelistedApiDecorations(path, code)
  BY <1>2, <1>7
<1>8. CASE r \in ControllerLifecycleHooks(path, code)
  BY <1>3, <1>5, <1>8
<1>9. CASE r \in ClassDefinitions(path, code)
  BY <1>4, <1>5, <1>9
<1> QED BY <1>6, <1>7, <1>8, <1>9

LEMMA TextStates ==
  ASSUME NEW path, NEW text, NEW c \in ToSet(Parsed[text].classes)
  PROVE  /\ Definition(path, c) \in CollectFromText(path, text)
         /\ BasesIn(path, c) \subseteq CollectFromText(path, text)
         /\ HooksIn(path, c) \subseteq CollectFromText(path, text)
<1>1. HooksIn(path, c) \subseteq ControllerLifecycleHooks(path, Parsed[text])
  BY DEF HooksIn, ControllerLifecycleHooks
<1>2. Definition(path, c) \in ClassDefinitions(path, Parsed[text])
  BY DEF Definition, ClassDefinitions
<1>3. BasesIn(path, c) \subseteq ClassDefinitions(path, Parsed[text])
  BY DEF BasesIn, ClassDefinitions
<1> QED BY <1>1, <1>2, <1>3 DEF CollectFromText

\* Symbols of methods extend those of their classes.
LEMMA SymbolsExtend ==
  ASSUME NEW path \in Seq(STRING), path # <<>>, NEW name, name # None, NEW method
  PROVE  /\ QualifiedSymbol(path, name, method) = Append(QualifiedClassSymbol(path, name), method)
         /\ Front(Append(QualifiedClassSymbol(path, name), method)) = QualifiedClassSymbol(path, name)
<1> DEFINE S == STRING \cup {name, method}
<1>1. PICK m : m = ModuleName(path)
  OBVIOUS
<1>2. m \in Seq(STRING)
  <2>1. Front(path) \in Seq(STRING)
    BY DEF Front
  <2> QED BY <1>1, <2>1 DEF ModuleName
<1>3. m \in Seq(S) /\ name \in S /\ method \in S
  BY <1>2
<1>4. QualifiedSymbol(path, name, method) = m \o <<name, method>> /\ QualifiedClassSymbol(path, name) = Append(m, name)
  BY <1>1 DEF QualifiedSymbol, QualifiedClassSymbol
<1> HIDE DEF S
<1>5. m \o <<name, method>> = Append(Append(m, name), method)
  BY <1>3
<1>6. PICK q : q = Append(m, name)
  OBVIOUS
<1>7. q \in Seq(S)
  BY <1>3, <1>6
<1>8. Front(Append(q, method)) = q
  BY <1>3, <1>7 DEF Front
<1> QED BY <1>4, <1>5, <1>6, <1>8

------------------------------------------------------------------------------
(* The classes of a repository, and the evidence that tells of them.      *)

\* A class of a file, as the trees tell it.
ClassIn(f, c) == [symbol |-> QualifiedClassSymbol(f.path, c.name), name |-> c.name, bases |-> c.bases, methods |-> c.methods]

ClassesIn(f) == {ClassIn(f, c) : c \in ToSet(Parsed[f.text].classes)}

LEMMA SourcesListed ==
  ASSUME NEW repository \in DOMAIN Trees
  PROVE  /\ IsFiniteSet(ToSet(Trees[repository]))
         /\ \A f \in ToSet(Trees[repository]) : f.text \in DOMAIN Parsed /\ f.path \in Seq(STRING) /\ f.path # <<>>
<1>1. IsList(Trees[repository])
  BY SourcesAssumption DEF IsList
<1> QED BY <1>1, SourcesAssumption, ElementsAreFinite

LEMMA ClassesAre ==
  ASSUME NEW repository \in DOMAIN Trees
  PROVE  /\ \A c : c \in ClassesOf(repository) <=>
                   \E f \in ToSet(Trees[repository]) : \E d \in ToSet(Parsed[f.text].classes) : c = ClassIn(f, d)
         /\ IsFiniteSet(ClassesOf(repository))
<1> DEFINE F == ToSet(Trees[repository])
<1>1. ClassesOf(repository) = UNION {ClassesIn(f) : f \in F}
  BY DEF ClassesOf, ClassesIn, ClassIn
<1>2. \A c : c \in ClassesOf(repository) <=> \E f \in F : c \in ClassesIn(f)
  BY <1>1
<1>3. \A f : \A c : c \in ClassesIn(f) <=> \E d \in ToSet(Parsed[f.text].classes) : c = ClassIn(f, d)
  BY DEF ClassesIn
<1>4. \A f \in F : IsFiniteSet(ClassesIn(f))
  <2> SUFFICES ASSUME NEW f \in F PROVE IsFiniteSet(ClassesIn(f))
    OBVIOUS
  <2> DEFINE C == ToSet(Parsed[f.text].classes)
             g == [c \in C |-> ClassIn(f, c)]
  <2>1. IsFiniteSet(C)
    BY SourcesListed, CodeListed
  <2>2. ClassesIn(f) = {g[c] : c \in C}
    BY DEF ClassesIn
  <2>3. IsFiniteSet({g[c] : c \in C})
    <3> HIDE DEF C, g
    <3> QED BY <2>1, ImageIsFinite
  <2> QED BY <2>2, <2>3
<1>5. IsFiniteSet(ClassesOf(repository))
  <2> DEFINE g == [f \in F |-> ClassesIn(f)]
  <2>1. \A f \in F : g[f] = ClassesIn(f)
    OBVIOUS
  <2>2. IsFiniteSet(F)
    BY SourcesListed
  <2> HIDE DEF F, g
  <2>3. IsFiniteSet(UNION {g[f] : f \in F})
    BY <1>4, <2>1, <2>2, UnionIsFinite
  <2>4. {g[f] : f \in F} = {ClassesIn(f) : f \in F}
    BY <2>1
  <2> QED BY <1>1, <2>3, <2>4
<1> QED BY <1>2, <1>3, <1>5

LEMMA EvidenceIsStated ==
  ASSUME NEW repository \in DOMAIN Trees
  PROVE  LET set == CompleteEvidence[repository] IN
         /\ set = [repository |-> repository, evidence |-> set.evidence, errors |-> {}, truncated |-> FALSE]
         /\ set.repository = repository /\ ToSet(set.evidence) = Stated(repository)
<1> DEFINE trees == Trees[repository]
           F == ToSet(trees)
<1>1. IsList(trees) /\ Len(trees) \in Nat
  BY SourcesAssumption DEF IsList
<1>2. SubSeq(trees, 1, Len(trees)) = trees
  BY SourcesAssumption
<1>3. IsFiniteSet(Stated(repository))
  <2> DEFINE g == [f \in F |-> SourceRecords(f)]
  <2>1. \A f \in F : g[f] = SourceRecords(f)
    OBVIOUS
  <2>2. IsFiniteSet(F) /\ \A f \in F : f.text \in DOMAIN Parsed
    BY SourcesListed
  <2>3. \A f \in F : IsFiniteSet(SourceRecords(f))
    BY <2>2, RecordsAreFinite DEF SourceRecords
  <2> HIDE DEF F, g
  <2>4. IsFiniteSet(UNION {g[f] : f \in F})
    BY <2>1, <2>2, <2>3, UnionIsFinite
  <2>5. {g[f] : f \in F} = {SourceRecords(f) : f \in F}
    BY <2>1
  <2>6. Stated(repository) = UNION {SourceRecords(f) : f \in F}
    BY DEF Stated, F
  <2> QED BY <2>4, <2>5, <2>6
<1>4. CompleteEvidence[repository] = ExtractEvidence(repository, Len(trees), {}, FALSE)
  BY DEF CompleteEvidence
<1>5. ExtractEvidence(repository, Len(trees), {}, FALSE) = EvidenceSetOf(repository, Stated(repository), {}, FALSE)
  <2> DEFINE parsed == {f \in ToSet(SubSeq(trees, 1, Len(trees))) : f.path \notin {}}
  <2>1. parsed = F
    BY <1>2
  <2>2. ExtractEvidence(repository, Len(trees), {}, FALSE) =
          EvidenceSetOf(repository, UNION {CollectFromText(f.path, f.text) : f \in parsed}, {}, FALSE)
    BY DEF ExtractEvidence
  <2> HIDE DEF parsed
  <2>3. UNION {CollectFromText(f.path, f.text) : f \in parsed} = Stated(repository)
    BY <2>1 DEF Stated, SourceRecords
  <2> QED BY <2>2, <2>3
<1>6. PICK S : S = Stated(repository)
  OBVIOUS
<1>7. PICK flag : flag = FALSE
  OBVIOUS
<1>8. PICK none : none = {}
  OBVIOUS
<1>9. PICK made : made = EvidenceSetOf(repository, S, none, flag)
  OBVIOUS
<1>10. /\ made = [repository |-> repository, evidence |-> made.evidence, errors |-> none, truncated |-> flag]
       /\ ToSet(made.evidence) = S
  BY <1>3, <1>6, <1>9, EvidenceListed
<1>11. CompleteEvidence[repository] = made
  BY <1>4, <1>5, <1>6, <1>7, <1>8, <1>9
<1>12. made.repository = repository
  <2>1. \A e, n, t : [repository |-> repository, evidence |-> e, errors |-> n, truncated |-> t].repository = repository
    OBVIOUS
  <2> QED BY <1>10, <2>1
<1> QED BY <1>6, <1>7, <1>8, <1>10, <1>11, <1>12

\* What the evidence of a repository tells of its classes.
LEMMA StatedOfClasses ==
  ASSUME NEW repository \in DOMAIN Trees
  PROVE  LET classes == ClassesOf(repository) IN
         /\ \A d \in Stated(repository) :
              /\ d.category = "class_definition" => \E c \in classes : d.symbol = c.symbol /\ d.subject = <<c.name>>
              /\ d.category = "class_base_declaration" => \E c \in classes : d.symbol = c.symbol /\ d.subject \in c.bases
              /\ d.category = "controller_lifecycle_hook" =>
                   \E c \in classes : \E m \in c.methods : m \in LifecycleHookNames /\ d.symbol = Append(c.symbol, m) /\ d.subject = <<m>>
         /\ \A c \in classes :
              /\ \E d \in Stated(repository) : d.category = "class_definition" /\ d.symbol = c.symbol /\ d.subject = <<c.name>>
              /\ \A b \in c.bases : \E d \in Stated(repository) :
                   d.category = "class_base_declaration" /\ d.symbol = c.symbol /\ d.subject = b
              /\ \A m \in c.methods : m \in LifecycleHookNames => \E d \in Stated(repository) :
                   d.category = "controller_lifecycle_hook" /\ d.symbol = Append(c.symbol, m) /\ d.subject = <<m>>
              /\ \A m : Front(Append(c.symbol, m)) = c.symbol
<1> DEFINE F == ToSet(Trees[repository])
           classes == ClassesOf(repository)
           S == Stated(repository)
           C(f) == ToSet(Parsed[f.text].classes)
<1>1. \A f \in F : f.text \in DOMAIN Parsed /\ f.path \in Seq(STRING) /\ f.path # <<>> /\ \A c \in C(f) : c.name # None
  BY SourcesListed, CodeListed
<1>2. \A c : c \in classes <=> \E f \in F : \E d \in C(f) : c = ClassIn(f, d)
  BY ClassesAre
<1>3. \A d : d \in S <=> \E f \in F : d \in CollectFromText(f.path, f.text)
  BY DEF Stated, SourceRecords
<1> HIDE DEF F, classes, S
<1>4. \A f, c : /\ ClassIn(f, c).symbol = QualifiedClassSymbol(f.path, c.name) /\ ClassIn(f, c).name = c.name
                /\ ClassIn(f, c).bases = c.bases /\ ClassIn(f, c).methods = c.methods
  BY DEF ClassIn
<1>5. \A category, symbol, subject, path, line :
        LET d == EvidenceOf(category, symbol, subject, path, line) IN
        d.category = category /\ d.symbol = symbol /\ d.subject = subject
  BY DEF EvidenceOf
<1>6. ASSUME NEW d \in S
      PROVE  /\ d.category = "class_definition" => \E c \in classes : d.symbol = c.symbol /\ d.subject = <<c.name>>
             /\ d.category = "class_base_declaration" => \E c \in classes : d.symbol = c.symbol /\ d.subject \in c.bases
             /\ d.category = "controller_lifecycle_hook" =>
                  \E c \in classes : \E m \in c.methods : m \in LifecycleHookNames /\ d.symbol = Append(c.symbol, m) /\ d.subject = <<m>>
  <2>1. PICK f \in F : d \in CollectFromText(f.path, f.text)
    BY <1>3, <1>6
  <2>2. /\ d.category = "class_definition" => \E c \in C(f) : d = Definition(f.path, c)
        /\ d.category = "class_base_declaration" => \E c \in C(f) : d \in BasesIn(f.path, c)
        /\ d.category = "controller_lifecycle_hook" => \E c \in C(f) : d \in HooksIn(f.path, c)
    BY <2>1, TextRecords
  <2>3. ASSUME d.category = "class_definition" PROVE \E c \in classes : d.symbol = c.symbol /\ d.subject = <<c.name>>
    <3>1. PICK c \in C(f) : d = Definition(f.path, c)
      BY <2>2, <2>3
    <3>2. d.symbol = QualifiedClassSymbol(f.path, c.name) /\ d.subject = <<c.name>>
      BY <1>5, <3>1 DEF Definition
    <3>3. ClassIn(f, c) \in classes
      BY <1>2, <3>1
    <3> QED BY <1>4, <3>2, <3>3
  <2>4. ASSUME d.category = "class_base_declaration" PROVE \E c \in classes : d.symbol = c.symbol /\ d.subject \in c.bases
    <3>1. PICK c \in C(f) : d \in BasesIn(f.path, c)
      BY <2>2, <2>4
    <3>2. PICK b \in c.bases : d = EvidenceOf("class_base_declaration", QualifiedClassSymbol(f.path, c.name), b, f.path, c.line)
      BY <3>1 DEF BasesIn
    <3>3. d.symbol = QualifiedClassSymbol(f.path, c.name) /\ d.subject = b
      BY <1>5, <3>2
    <3>4. ClassIn(f, c) \in classes
      BY <1>2, <3>1
    <3> QED BY <1>4, <3>2, <3>3, <3>4
  <2>5. ASSUME d.category = "controller_lifecycle_hook"
        PROVE  \E c \in classes : \E m \in c.methods : m \in LifecycleHookNames /\ d.symbol = Append(c.symbol, m) /\ d.subject = <<m>>
    <3>1. PICK c \in C(f) : d \in HooksIn(f.path, c)
      BY <2>2, <2>5
    <3>2. PICK m \in c.methods : /\ m \in LifecycleHookNames
                                 /\ d = EvidenceOf("controller_lifecycle_hook", QualifiedSymbol(f.path, c.name, m), <<m>>, f.path, c.line)
      BY <3>1 DEF HooksIn
    <3>3. d.symbol = QualifiedSymbol(f.path, c.name, m) /\ d.subject = <<m>>
      BY <1>5, <3>2
    <3>4. ClassIn(f, c) \in classes
      BY <1>2, <3>1
    <3>5. QualifiedSymbol(f.path, c.name, m) = Append(QualifiedClassSymbol(f.path, c.name), m)
      BY <1>1, <3>1, SymbolsExtend
    <3>6. d.symbol = Append(ClassIn(f, c).symbol, m) /\ m \in ClassIn(f, c).methods
      BY <1>4, <3>2, <3>3, <3>5
    <3> QED BY <3>2, <3>3, <3>4, <3>6
  <2> QED BY <2>3, <2>4, <2>5
<1>7. ASSUME NEW c \in classes
      PROVE  /\ \E d \in S : d.category = "class_definition" /\ d.symbol = c.symbol /\ d.subject = <<c.name>>
             /\ \A b \in c.bases : \E d \in S : d.category = "class_base_declaration" /\ d.symbol = c.symbol /\ d.subject = b
             /\ \A m \in c.methods : m \in LifecycleHookNames => \E d \in S :
                  d.category = "controller_lifecycle_hook" /\ d.symbol = Append(c.symbol, m) /\ d.subject = <<m>>
             /\ \A m : Front(Append(c.symbol, m)) = c.symbol
  <2>1. PICK f \in F : \E d \in C(f) : c = ClassIn(f, d)
    BY <1>2, <1>7
  <2>2. PICK e \in C(f) : c = ClassIn(f, e)
    BY <2>1
  <2>3. /\ c.symbol = QualifiedClassSymbol(f.path, e.name) /\ c.name = e.name /\ c.bases = e.bases /\ c.methods = e.methods
    BY <1>4, <2>2
  <2>4. /\ Definition(f.path, e) \in S /\ BasesIn(f.path, e) \subseteq S /\ HooksIn(f.path, e) \subseteq S
    <3>1. /\ Definition(f.path, e) \in CollectFromText(f.path, f.text)
          /\ BasesIn(f.path, e) \subseteq CollectFromText(f.path, f.text)
          /\ HooksIn(f.path, e) \subseteq CollectFromText(f.path, f.text)
      BY <2>2, TextStates
    <3> QED BY <1>3, <2>1, <3>1
  <2>5. \E d \in S : d.category = "class_definition" /\ d.symbol = c.symbol /\ d.subject = <<c.name>>
    <3>1. PICK d : d = Definition(f.path, e)
      OBVIOUS
    <3>2. d.category = "class_definition" /\ d.symbol = QualifiedClassSymbol(f.path, e.name) /\ d.subject = <<e.name>>
      BY <1>5, <3>1 DEF Definition
    <3> QED BY <2>3, <2>4, <3>1, <3>2
  <2>6. ASSUME NEW b \in c.bases
        PROVE  \E d \in S : d.category = "class_base_declaration" /\ d.symbol = c.symbol /\ d.subject = b
    <3>1. PICK d : d = EvidenceOf("class_base_declaration", QualifiedClassSymbol(f.path, e.name), b, f.path, e.line)
      OBVIOUS
    <3>2. d \in BasesIn(f.path, e)
      BY <2>3, <2>6, <3>1 DEF BasesIn
    <3>3. d.category = "class_base_declaration" /\ d.symbol = QualifiedClassSymbol(f.path, e.name) /\ d.subject = b
      BY <1>5, <3>1
    <3> QED BY <2>3, <2>4, <3>2, <3>3
  <2>7. ASSUME NEW m \in c.methods, m \in LifecycleHookNames
        PROVE  \E d \in S : d.category = "controller_lifecycle_hook" /\ d.symbol = Append(c.symbol, m) /\ d.subject = <<m>>
    <3>1. PICK d : d = EvidenceOf("controller_lifecycle_hook", QualifiedSymbol(f.path, e.name, m), <<m>>, f.path, e.line)
      OBVIOUS
    <3>2. d \in HooksIn(f.path, e)
      BY <2>3, <2>7, <3>1 DEF HooksIn
    <3>3. d.category = "controller_lifecycle_hook" /\ d.symbol = QualifiedSymbol(f.path, e.name, m) /\ d.subject = <<m>>
      BY <1>5, <3>1
    <3>4. QualifiedSymbol(f.path, e.name, m) = Append(c.symbol, m)
      BY <1>1, <2>2, <2>3, SymbolsExtend
    <3> QED BY <2>4, <3>2, <3>3, <3>4
  <2>8. \A m : Front(Append(c.symbol, m)) = c.symbol
    BY <1>1, <2>2, <2>3, SymbolsExtend
  <2> QED BY <2>5, <2>6, <2>7, <2>8
<1> QED BY <1>6, <1>7 DEF classes, S

\* The evidence of corpora tells of these classes, of all of them and of nothing else.
ClassesAreTold(corpora, classes) ==
  /\ \A d \in Definitions(corpora) : \E c \in classes : d.symbol = c.symbol /\ d.subject[1] = c.name
  /\ \A c \in classes : \E d \in Definitions(corpora) : d.symbol = c.symbol /\ d.subject[1] = c.name
  /\ \A d \in Declarations(corpora) : \E c \in classes : d.symbol = c.symbol /\ d.subject \in c.bases
  /\ \A c \in classes : \A b \in c.bases : \E d \in Declarations(corpora) : d.symbol = c.symbol /\ d.subject = b
  /\ IsFiniteSet(Declarations(corpora))

CorporaOf(R) == {CompleteEvidence[r] : r \in R}

ClassesOfAll(R) == UNION {ClassesOf(r) : r \in R}

LEMMA RecordsOfAll ==
  ASSUME NEW R \in SUBSET DOMAIN Trees, NEW category
  PROVE  \A d : d \in UNION {Records(c, category) : c \in CorporaOf(R)} <=> d.category = category /\ \E r \in R : d \in Stated(r)
<1>1. \A c : c \in CorporaOf(R) <=> \E r \in R : c = CompleteEvidence[r]
  BY DEF CorporaOf
<1>2. \A r \in R : ToSet(CompleteEvidence[r].evidence) = Stated(r)
  BY EvidenceIsStated
<1>3. \A c : \A d : d \in Records(c, category) <=> d \in ToSet(c.evidence) /\ d.category = category
  BY DEF Records
<1>4. \A d : d \in UNION {Records(c, category) : c \in CorporaOf(R)} <=> \E c \in CorporaOf(R) : d \in Records(c, category)
  OBVIOUS
<1> QED BY <1>1, <1>2, <1>3, <1>4

LEMMA ClassesTold ==
  ASSUME NEW R \in SUBSET DOMAIN Trees, IsFiniteSet(R)
  PROVE  ClassesAreTold(CorporaOf(R), ClassesOfAll(R))
<1> DEFINE corpora == CorporaOf(R)
           classes == ClassesOfAll(R)
<1>1. \A d : d \in Definitions(corpora) <=> d.category = "class_definition" /\ \E r \in R : d \in Stated(r)
  BY RecordsOfAll DEF Definitions
<1>2. \A d : d \in Declarations(corpora) <=> d.category = "class_base_declaration" /\ \E r \in R : d \in Stated(r)
  BY RecordsOfAll DEF Declarations
<1>3. \A c : c \in classes <=> \E r \in R : c \in ClassesOf(r)
  BY DEF ClassesOfAll
<1> HIDE DEF corpora, classes
<1>4. \A x : <<x>>[1] = x
  OBVIOUS
<1>5. ASSUME NEW d \in Definitions(corpora) PROVE \E c \in classes : d.symbol = c.symbol /\ d.subject[1] = c.name
  <2>1. PICK r \in R : d \in Stated(r)
    BY <1>1, <1>5
  <2>2. PICK c \in ClassesOf(r) : d.symbol = c.symbol /\ d.subject = <<c.name>>
    BY <1>1, <1>5, <2>1, StatedOfClasses
  <2> QED BY <1>3, <1>4, <2>1, <2>2
<1>6. ASSUME NEW c \in classes PROVE \E d \in Definitions(corpora) : d.symbol = c.symbol /\ d.subject[1] = c.name
  <2>1. PICK r \in R : c \in ClassesOf(r)
    BY <1>3, <1>6
  <2>2. PICK d \in Stated(r) : d.category = "class_definition" /\ d.symbol = c.symbol /\ d.subject = <<c.name>>
    BY <2>1, StatedOfClasses
  <2> QED BY <1>1, <1>4, <2>1, <2>2
<1>7. ASSUME NEW d \in Declarations(corpora) PROVE \E c \in classes : d.symbol = c.symbol /\ d.subject \in c.bases
  <2>1. PICK r \in R : d \in Stated(r)
    BY <1>2, <1>7
  <2>2. PICK c \in ClassesOf(r) : d.symbol = c.symbol /\ d.subject \in c.bases
    BY <1>2, <1>7, <2>1, StatedOfClasses
  <2> QED BY <1>3, <2>1, <2>2
<1>8. ASSUME NEW c \in classes, NEW b \in c.bases PROVE \E d \in Declarations(corpora) : d.symbol = c.symbol /\ d.subject = b
  <2>1. PICK r \in R : c \in ClassesOf(r)
    BY <1>3, <1>8
  <2>2. PICK d \in Stated(r) : d.category = "class_base_declaration" /\ d.symbol = c.symbol /\ d.subject = b
    BY <1>8, <2>1, StatedOfClasses
  <2> QED BY <1>2, <2>1, <2>2
<1>9. IsFiniteSet(Declarations(corpora))
  <2>1. \A r \in R : IsFiniteSet(Stated(r))
    <3> SUFFICES ASSUME NEW r \in R PROVE IsFiniteSet(Stated(r))
      OBVIOUS
    <3> DEFINE F == ToSet(Trees[r])
               g == [f \in F |-> SourceRecords(f)]
    <3>1. \A f \in F : g[f] = SourceRecords(f)
      OBVIOUS
    <3>2. IsFiniteSet(F) /\ \A f \in F : f.text \in DOMAIN Parsed
      BY SourcesListed
    <3>3. \A f \in F : IsFiniteSet(SourceRecords(f))
      BY <3>2, RecordsAreFinite DEF SourceRecords
    <3> HIDE DEF F, g
    <3>4. IsFiniteSet(UNION {g[f] : f \in F})
      BY <3>1, <3>2, <3>3, UnionIsFinite
    <3>5. {g[f] : f \in F} = {SourceRecords(f) : f \in F}
      BY <3>1
    <3> QED BY <3>4, <3>5 DEF Stated, F
  <2> DEFINE g == [r \in R |-> Stated(r)]
             U == UNION {g[r] : r \in R}
  <2>2. \A r \in R : g[r] = Stated(r)
    OBVIOUS
  <2> HIDE DEF g
  <2>3. IsFiniteSet(U)
    BY <2>1, <2>2, UnionIsFinite
  <2>4. Declarations(corpora) \subseteq U
    BY <1>2, <2>2
  <2> HIDE DEF U
  <2> QED BY <2>3, <2>4, FS_Subset
<1>10. ClassesAreTold(corpora, classes)
  BY <1>5, <1>6, <1>7, <1>8, <1>9 DEF ClassesAreTold
<1> QED BY <1>10 DEF corpora, classes

\* The classes of Document, and those that have one of such as a base.
Roots(classes) == {c \in classes : \E b \in c.bases : Last(b) = DocumentName}
HavingBases(classes, symbols) ==
  {c \in classes : \E b \in c.bases : \E d \in classes : d.symbol \in symbols /\ Last(b) = d.name}
SymbolsOf(S) == {c.symbol : c \in S}

LEMMA DeclaredClasses ==
  ASSUME NEW corpora, NEW classes, ClassesAreTold(corpora, classes)
  PROVE  /\ DeclaredBy(corpora, DocumentName) = SymbolsOf(Roots(classes))
         /\ \A symbols : NewlyReached(corpora, symbols) = SymbolsOf(HavingBases(classes, symbols))
<1>1. ASSUME NEW name, NEW s
      PROVE  s \in DeclaredBy(corpora, name) <=> \E c \in classes : c.symbol = s /\ \E b \in c.bases : Last(b) = name
  <2>1. s \in DeclaredBy(corpora, name) <=> \E d \in Declarations(corpora) : Last(d.subject) = name /\ s = d.symbol
    BY DEF DeclaredBy, FinalSegment
  <2>2. ASSUME NEW d \in Declarations(corpora), Last(d.subject) = name, s = d.symbol
        PROVE  \E c \in classes : c.symbol = s /\ \E b \in c.bases : Last(b) = name
    BY <2>2 DEF ClassesAreTold
  <2>3. ASSUME NEW c \in classes, c.symbol = s, NEW b \in c.bases, Last(b) = name
        PROVE  \E d \in Declarations(corpora) : Last(d.subject) = name /\ s = d.symbol
    BY <2>3 DEF ClassesAreTold
  <2> QED BY <2>1, <2>2, <2>3
<1>2. DeclaredBy(corpora, DocumentName) = SymbolsOf(Roots(classes))
  <2>1. \A s : s \in SymbolsOf(Roots(classes)) <=> \E c \in classes : c.symbol = s /\ \E b \in c.bases : Last(b) = DocumentName
    BY DEF SymbolsOf, Roots
  <2> QED BY <1>1, <2>1
<1>3. ASSUME NEW symbols PROVE NewlyReached(corpora, symbols) = SymbolsOf(HavingBases(classes, symbols))
  <2>1. \A s : s \in NewlyReached(corpora, symbols) <=>
               \E d \in Definitions(corpora) : d.symbol \in symbols /\ s \in DeclaredBy(corpora, d.subject[1])
    BY DEF NewlyReached
  <2>2. \A s : s \in SymbolsOf(HavingBases(classes, symbols)) <=>
               \E c \in classes : c.symbol = s /\ \E b \in c.bases : \E d \in classes : d.symbol \in symbols /\ Last(b) = d.name
    BY DEF SymbolsOf, HavingBases
  <2>3. ASSUME NEW s, NEW d \in Definitions(corpora), d.symbol \in symbols, s \in DeclaredBy(corpora, d.subject[1])
        PROVE  \E c \in classes : c.symbol = s /\ \E b \in c.bases : \E e \in classes : e.symbol \in symbols /\ Last(b) = e.name
    <3>1. PICK name : name = d.subject[1]
      OBVIOUS
    <3>2. PICK e \in classes : d.symbol = e.symbol /\ name = e.name
      BY <3>1 DEF ClassesAreTold
    <3>3. PICK c \in classes : c.symbol = s /\ \E b \in c.bases : Last(b) = name
      BY <1>1, <2>3, <3>1
    <3> QED BY <2>3, <3>2, <3>3
  <2>4. ASSUME NEW c \in classes, NEW b \in c.bases, NEW e \in classes, e.symbol \in symbols, Last(b) = e.name
        PROVE  \E d \in Definitions(corpora) : d.symbol \in symbols /\ c.symbol \in DeclaredBy(corpora, d.subject[1])
    <3>1. PICK d \in Definitions(corpora) : d.symbol = e.symbol /\ d.subject[1] = e.name
      BY DEF ClassesAreTold
    <3>2. c.symbol \in DeclaredBy(corpora, e.name)
      BY <1>1, <2>4
    <3> QED BY <2>4, <3>1, <3>2
  <2>5. \A s : s \in NewlyReached(corpora, symbols) <=> s \in SymbolsOf(HavingBases(classes, symbols))
    BY <2>1, <2>2, <2>3, <2>4
  <2> QED BY <2>5
<1> QED BY <1>2, <1>3

------------------------------------------------------------------------------
(* The walk down the classes.                                             *)

\* How far a walk down the classes has come at a depth: whoever has what it reached
\* as a base is reached or next; what it reached is in every set that has its
\* subclasses; and unless it is over it reached more than it went down.
WalkedDown(classes, U, depth, reached, frontier) ==
  /\ reached \subseteq U /\ frontier \subseteq U /\ reached \cap frontier = {}
  /\ SymbolsOf(Roots(classes)) \subseteq reached \cup frontier
  /\ SymbolsOf(HavingBases(classes, reached)) \subseteq reached \cup frontier
  /\ \A S \in SUBSET classes : HasSubclasses(S, classes) => reached \cup frontier \subseteq SymbolsOf(S)
  /\ frontier = {} \/ Cardinality(reached) >= depth

LEMMA WalkBeginsAtRoots ==
  ASSUME NEW classes, NEW U, SymbolsOf(Roots(classes)) \subseteq U
  PROVE  WalkedDown(classes, U, 0, {}, SymbolsOf(Roots(classes)))
<1>1. HavingBases(classes, {}) = {} /\ SymbolsOf({}) = {}
  BY DEF HavingBases, SymbolsOf
<1>2. ASSUME NEW S \in SUBSET classes, HasSubclasses(S, classes) PROVE Roots(classes) \subseteq S
  BY <1>2 DEF HasSubclasses, Roots
<1>3. \A S \in SUBSET classes : HasSubclasses(S, classes) => SymbolsOf(Roots(classes)) \subseteq SymbolsOf(S)
  BY <1>2 DEF SymbolsOf
<1>4. Cardinality({}) = 0
  BY FS_EmptySet
<1> QED BY <1>1, <1>3, <1>4 DEF WalkedDown

LEMMA WalkGoesDown ==
  ASSUME NEW classes, NEW U, IsFiniteSet(U), \A c, d \in classes : c.symbol = d.symbol => c = d,
         NEW depth \in Nat, NEW reached, NEW frontier, WalkedDown(classes, U, depth, reached, frontier),
         SymbolsOf(HavingBases(classes, frontier)) \subseteq U
  PROVE  WalkedDown(classes, U, depth + 1, reached \cup frontier,
                    SymbolsOf(HavingBases(classes, frontier)) \ (reached \cup frontier))
<1> DEFINE both == reached \cup frontier
           new == SymbolsOf(HavingBases(classes, frontier)) \ both
<1>1. both \subseteq U /\ new \subseteq U /\ both \cap new = {} /\ SymbolsOf(Roots(classes)) \subseteq both \cup new
  BY DEF WalkedDown
<1>2. SymbolsOf(HavingBases(classes, both)) \subseteq both \cup new
  <2>1. \A c \in HavingBases(classes, both) : c \in HavingBases(classes, reached) \/ c \in HavingBases(classes, frontier)
    BY DEF HavingBases
  <2>2. \A c \in HavingBases(classes, reached) : c.symbol \in both
    BY DEF WalkedDown, SymbolsOf
  <2>3. \A c \in HavingBases(classes, frontier) : c.symbol \in both \cup new
    BY DEF SymbolsOf
  <2> HIDE DEF both, new
  <2> QED BY <2>1, <2>2, <2>3 DEF SymbolsOf
<1>3. ASSUME NEW S \in SUBSET classes, HasSubclasses(S, classes) PROVE both \cup new \subseteq SymbolsOf(S)
  <2>1. both \subseteq SymbolsOf(S)
    BY <1>3 DEF WalkedDown
  <2>2. ASSUME NEW c \in HavingBases(classes, frontier) PROVE c \in S
    <3>1. PICK b \in c.bases : \E d \in classes : d.symbol \in frontier /\ Last(b) = d.name
      BY <2>2 DEF HavingBases
    <3>2. PICK d \in classes : d.symbol \in frontier /\ Last(b) = d.name
      BY <3>1
    <3>3. PICK e \in S : e.symbol = d.symbol
      BY <2>1, <3>2 DEF SymbolsOf
    <3>4. d \in S
      BY <3>2, <3>3
    <3>5. Last(b) \in {DocumentName} \cup {x.name : x \in S} /\ c \in classes
      BY <2>2, <3>2, <3>4 DEF HavingBases
    <3> QED BY <1>3, <3>1, <3>5 DEF HasSubclasses
  <2>3. SymbolsOf(HavingBases(classes, frontier)) \subseteq SymbolsOf(S)
    BY <2>2 DEF SymbolsOf
  <2> QED BY <2>1, <2>3
<1>4. new = {} \/ Cardinality(both) >= depth + 1
  <2>1. CASE frontier = {}
    <3>1. HavingBases(classes, frontier) = {} /\ SymbolsOf({}) = {}
      BY <2>1 DEF HavingBases, SymbolsOf
    <3> QED BY <3>1
  <2>2. CASE frontier # {}
    <3>1. PICK x \in frontier : TRUE
      BY <2>2
    <3>2. IsFiniteSet(reached) /\ IsFiniteSet(both) /\ x \notin reached
      BY <1>1, <3>1, FS_Subset DEF WalkedDown
    <3>3. Cardinality(reached) >= depth
      BY <2>2 DEF WalkedDown
    <3>4. IsFiniteSet(reached \cup {x}) /\ Cardinality(reached \cup {x}) = Cardinality(reached) + 1
      BY <3>2, FS_AddElement
    <3>5. reached \cup {x} \subseteq both
      BY <3>1
    <3>6. Cardinality(reached \cup {x}) <= Cardinality(both)
      <4> HIDE DEF both
      <4> QED BY <3>2, <3>5, FS_Subset
    <3>7. Cardinality(reached) \in Nat /\ Cardinality(both) \in Nat
      BY <3>2, FS_CardinalityType
    <3> HIDE DEF both
    <3> QED BY <3>3, <3>4, <3>6, <3>7
  <2> QED BY <2>1, <2>2
<1> HIDE DEF both, new
<1>5. WalkedDown(classes, U, depth + 1, both, new)
  BY <1>1, <1>2, <1>3, <1>4 DEF WalkedDown
<1> QED BY <1>5 DEF both, new

\* Once nothing is next it has reached who descends from Document.
LEMMA WalkEnds ==
  ASSUME NEW classes, NEW U, \A c, d \in classes : c.symbol = d.symbol => c = d,
         NEW depth, NEW reached, WalkedDown(classes, U, depth, reached, {})
  PROVE  reached = SymbolsOf(Controllers(classes))
<1> DEFINE S == {c \in classes : c.symbol \in reached}
<1>1. HasSubclasses(S, classes)
  <2> SUFFICES ASSUME NEW c \in classes, NEW b \in c.bases, Last(b) \in {DocumentName} \cup {d.name : d \in S}
               PROVE  c \in S
    BY DEF HasSubclasses
  <2>1. CASE Last(b) = DocumentName
    <3>1. c \in Roots(classes)
      BY <2>1 DEF Roots
    <3> QED BY <3>1 DEF WalkedDown, SymbolsOf
  <2>2. CASE \E d \in S : Last(b) = d.name
    <3>1. c \in HavingBases(classes, reached)
      BY <2>2 DEF HavingBases
    <3> QED BY <3>1 DEF WalkedDown, SymbolsOf
  <2> QED BY <2>1, <2>2
<1>2. S \subseteq classes
  OBVIOUS
<1>3. reached \subseteq SymbolsOf(Controllers(classes))
  <2> SUFFICES ASSUME NEW s \in reached PROVE s \in SymbolsOf(Controllers(classes))
    OBVIOUS
  <2>1. reached \subseteq SymbolsOf(S)
    <3> HIDE DEF S
    <3> QED BY <1>1, <1>2 DEF WalkedDown
  <2>2. PICK c \in S : c.symbol = s
    BY <2>1 DEF SymbolsOf
  <2>3. ASSUME NEW T \in SUBSET classes, HasSubclasses(T, classes) PROVE c \in T
    <3>1. reached \subseteq SymbolsOf(T)
      BY <2>3 DEF WalkedDown
    <3>2. PICK d \in T : d.symbol = s
      BY <3>1 DEF SymbolsOf
    <3>3. c \in classes /\ d \in classes /\ c.symbol = d.symbol
      BY <2>2, <3>2
    <3> QED BY <3>2, <3>3
  <2>4. c \in Controllers(classes)
    BY <2>2, <2>3 DEF Controllers
  <2> QED BY <2>2, <2>4 DEF SymbolsOf
<1>4. SymbolsOf(Controllers(classes)) \subseteq reached
  <2>1. \A c \in Controllers(classes) : c \in S
    BY <1>1, <1>2 DEF Controllers
  <2> QED BY <2>1 DEF SymbolsOf
<1> QED BY <1>3, <1>4

LEMMA DescendantsAre ==
  ASSUME NEW corpora, NEW classes, ClassesAreTold(corpora, classes), \A c, d \in classes : c.symbol = d.symbol => c = d
  PROVE  DescendantSymbols(corpora) = SymbolsOf(Controllers(classes))
<1> DEFINE n == Cardinality(Declarations(corpora))
           base == [reached |-> {}, frontier |-> DeclaredBy(corpora, DocumentName)]
           walked == CHOOSE f : f = [i \in 0..n |-> IF i = 0 THEN base ELSE OneLevel(corpora, f[i - 1])]
           U == {d.symbol : d \in Declarations(corpora)}
<1>1. n \in Nat
  BY FS_CardinalityType DEF ClassesAreTold
<1>2. DescendantSymbols(corpora) = walked[n].reached
  BY DEF DescendantSymbols
<1>3. StepsFrom(walked, n, "walk", corpora, base)
  <2> HIDE DEF n, base
  <2>1. PICK f : StepsFrom(f, n, "walk", corpora, base)
    BY <1>1, StepsFound
  <2>2. f = [i \in 0..n |-> IF i = 0 THEN base ELSE OneLevel(corpora, f[i - 1])]
    BY <2>1 DEF StepsFrom, OneStep
  <2>3. walked = [i \in 0..n |-> IF i = 0 THEN base ELSE OneLevel(corpora, walked[i - 1])]
    BY <2>2
  <2> HIDE DEF walked
  <2> QED BY <2>3 DEF StepsFrom, OneStep
<1> HIDE DEF walked
<1>4. walked[0] = base /\ \A i \in 0..n : i # n => walked[i + 1] = OneLevel(corpora, walked[i])
  <2> HIDE DEF n, base
  <2>1. walked[0] = base /\ \A i \in 0..n : i # n => walked[i + 1] = OneStep("walk", corpora, walked[i])
    BY <1>1, <1>3, StepsUnfold
  <2>2. \A state : OneStep("walk", corpora, state) = OneLevel(corpora, state)
    BY DEF OneStep
  <2> QED BY <2>1, <2>2
<1>5. IsFiniteSet(U) /\ Cardinality(U) <= n
  <2> DEFINE D == Declarations(corpora)
             h == [d \in D |-> d.symbol]
  <2>1. h \in Surjection(D, U)
    BY DEF Surjection
  <2>2. IsFiniteSet(D)
    BY DEF ClassesAreTold
  <2> HIDE DEF D, h, U
  <2> QED BY <2>1, <2>2, FS_Surjection DEF D
<1>6. SymbolsOf(Roots(classes)) \subseteq U /\ \A symbols : SymbolsOf(HavingBases(classes, symbols)) \subseteq U
  <2>1. \A c \in classes : \A b \in c.bases : c.symbol \in U
    BY DEF ClassesAreTold
  <2> HIDE DEF U
  <2> QED BY <2>1 DEF SymbolsOf, Roots, HavingBases
<1> HIDE DEF n, U
<1> DEFINE Fine(i) == WalkedDown(classes, U, i, walked[i].reached, walked[i].frontier)
           G == {i \in 0..n : Fine(i)}
<1>7. 0 \in G
  <2>1. walked[0].reached = {} /\ walked[0].frontier = SymbolsOf(Roots(classes))
    BY <1>4, DeclaredClasses
  <2>2. Fine(0)
    BY <1>6, <2>1, WalkBeginsAtRoots
  <2> QED BY <1>1, <2>2
<1>8. ASSUME NEW i \in 0..n, i # n, i \in G PROVE i + 1 \in G
  <2>1. PICK r : r = walked[i].reached
    OBVIOUS
  <2>2. PICK f : f = walked[i].frontier
    OBVIOUS
  <2>3. WalkedDown(classes, U, i, r, f)
    BY <1>8, <2>1, <2>2
  <2>4. walked[i + 1].reached = r \cup f /\ walked[i + 1].frontier = SymbolsOf(HavingBases(classes, f)) \ (r \cup f)
    <3>1. NewlyReached(corpora, f) = SymbolsOf(HavingBases(classes, f))
      BY DeclaredClasses
    <3>2. walked[i + 1] = [reached |-> r \cup f, frontier |-> NewlyReached(corpora, f) \ (r \cup f)]
      BY <1>4, <1>8, <2>1, <2>2 DEF OneLevel
    <3> QED BY <3>1, <3>2
  <2>5. i \in Nat /\ i + 1 \in 0..n
    BY <1>1, <1>8
  <2>6. Fine(i + 1)
    BY <1>5, <1>6, <2>3, <2>4, <2>5, WalkGoesDown
  <2> QED BY <2>5, <2>6
<1>9. n \in G
  <2> HIDE DEF G
  <2>1. n \in 0..n
    BY <1>1
  <2> QED BY <1>1, <1>7, <1>8, <2>1, UpTo
<1>10. PICK r : r = walked[n].reached
  OBVIOUS
<1>11. PICK f : f = walked[n].frontier
  OBVIOUS
<1>12. WalkedDown(classes, U, n, r, f)
  BY <1>9, <1>10, <1>11
<1>13. f = {}
  <2> SUFFICES ASSUME f # {} PROVE FALSE
    OBVIOUS
  <2>1. PICK x \in f : TRUE
    OBVIOUS
  <2>2. r \subseteq U /\ x \in U /\ x \notin r /\ Cardinality(r) >= n
    BY <1>12, <2>1 DEF WalkedDown
  <2>3. IsFiniteSet(r) /\ Cardinality(r) \in Nat
    BY <1>5, <2>2, FS_Subset, FS_CardinalityType
  <2>4. Cardinality(r \cup {x}) = Cardinality(r) + 1
    BY <2>2, <2>3, FS_AddElement
  <2>5. r \cup {x} \in SUBSET U
    BY <2>2
  <2>6. Cardinality(r \cup {x}) <= Cardinality(U)
    BY <1>5, <2>5, FS_Subset
  <2>7. Cardinality(U) \in Nat
    BY <1>5, FS_CardinalityType
  <2> QED BY <1>1, <1>5, <2>2, <2>3, <2>4, <2>6, <2>7
<1>14. r = SymbolsOf(Controllers(classes))
  BY <1>12, <1>13, WalkEnds
<1> QED BY <1>2, <1>10, <1>14

------------------------------------------------------------------------------
(* What an aggregation answers.                                           *)

LEMMA CategoryPatterns ==
  ASSUME NEW category, NEW records, NEW descent, NEW minOccurrences,
         NEW p \in AggregateCategory(category, records, descent, minOccurrences).patterns
  PROVE  LET countable == CountableRecords(category, records, descent) IN
         /\ ~AggregateCategory(category, records, descent, minOccurrences).skipped
         /\ p.category = category /\ p.population = Cardinality(Population(category, records, descent))
         /\ p.symbols = {r.symbol : r \in {q \in countable : q.subject = p.subject}}
         /\ \E r \in countable : r.subject = p.subject
<1> DEFINE population == Population(category, records, descent)
           countable == CountableRecords(category, records, descent)
           symbols(subject) == {r.symbol : r \in {q \in countable : q.subject = subject}}
           subjects == {r.subject : r \in countable}
           frequent == {s \in subjects : Cardinality(symbols(s)) >= minOccurrences}
           pattern(s) == [category |-> category, subject |-> s, symbols |-> symbols(s), population |-> Cardinality(population)]
           none == category \notin MeasuredCategories \/ population = {}
           made == AggregateCategory(category, records, descent, minOccurrences)
<1>1. none => made.patterns = {}
  BY DEF AggregateCategory
<1>2. ~none => made.skipped = FALSE /\ made.patterns = {pattern(s) : s \in frequent}
  BY DEF AggregateCategory
<1>3. ~none
  BY <1>1
<1>4. PICK s \in frequent : p = pattern(s)
  <2> HIDE DEF made, frequent, pattern, none
  <2> QED BY <1>2, <1>3 DEF made
<1>5. p.category = category /\ p.subject = s /\ p.symbols = symbols(s) /\ p.population = Cardinality(population)
  <2> HIDE DEF symbols, population
  <2> QED BY <1>4
<1>6. \E r \in countable : r.subject = s
  BY <1>4
<1>7. p.symbols = symbols(p.subject)
  BY <1>5
<1>8. ~made.skipped
  <2> HIDE DEF made, none, frequent, pattern
  <2> QED BY <1>2, <1>3
<1> QED BY <1>5, <1>6, <1>7, <1>8

\* The set of patterns, and the hooks in it.
LEMMA PatternSetMade ==
  ASSUME NEW measured, NEW supporting, NEW minOccurrences,
         NEW p \in PatternSetOf(measured, supporting, minOccurrences).patterns, p.category = "controller_lifecycle_hook"
  PROVE  LET records == Records(measured, "controller_lifecycle_hook")
             descendants == ResolveDescent(measured, supporting).descendants
             countable == {r \in records : Front(r.symbol) \in descendants}
         IN /\ p.population = Cardinality(descendants)
            /\ p.symbols = {r.symbol : r \in {q \in countable : q.subject = p.subject}}
            /\ \E r \in countable : r.subject = p.subject
            /\ PatternSetOf(measured, supporting, minOccurrences).provenance.supporting = Supplied(supporting)
<1> DEFINE hook == "controller_lifecycle_hook"
           descent == ResolveDescent(measured, supporting)
           present == {r.category : r \in ToSet(measured.evidence)} \ StructuralCategories
           category(c) == AggregateCategory(c, Records(measured, c), descent, minOccurrences)
           result == [c \in present |-> category(c)]
           skipped == {c \in present : result[c].skipped}
           made == PatternSetOf(measured, supporting, minOccurrences)
<1>1. /\ made.patterns = UNION {result[c].patterns : c \in present}
      /\ made.provenance = Provenance(measured, supporting, descent, present \ skipped)
  BY DEF PatternSetOf
<1> HIDE DEF made, descent
<1>2. PICK c \in present : p \in result[c].patterns
  <2>1. p \in made.patterns
    BY DEF made
  <2> HIDE DEF present, result
  <2> QED BY <1>1, <2>1
<1>3. p \in category(c).patterns /\ result[c] = category(c)
  BY <1>2
<1>4. PICK records : records = Records(measured, c)
  OBVIOUS
<1>5. p \in AggregateCategory(c, records, descent, minOccurrences).patterns
  BY <1>3, <1>4
<1>6. PICK countable : countable = CountableRecords(c, records, descent)
  OBVIOUS
<1>7. /\ ~AggregateCategory(c, records, descent, minOccurrences).skipped
      /\ p.category = c /\ p.population = Cardinality(Population(c, records, descent))
      /\ p.symbols = {r.symbol : r \in {q \in countable : q.subject = p.subject}}
      /\ \E r \in countable : r.subject = p.subject
  BY <1>5, <1>6, CategoryPatterns
<1>8. c = hook
  BY <1>7
<1>9. Population(c, records, descent) = descent.descendants
  BY <1>8 DEF Population
<1>10. countable = {r \in records : Front(r.symbol) \in descent.descendants}
  BY <1>6, <1>8 DEF CountableRecords, OwningClass
<1>11. hook \in present \ skipped
  <2>1. ~result[c].skipped
    BY <1>3, <1>4, <1>7
  <2> HIDE DEF present, result
  <2> QED BY <1>2, <1>8, <2>1
<1>12. made.provenance.supporting = Supplied(supporting)
  <2> HIDE DEF present, skipped
  <2> QED BY <1>1, <1>11 DEF Provenance
<1> HIDE DEF hook
<1> QED BY <1>4, <1>7, <1>8, <1>9, <1>10, <1>12 DEF hook, made, descent

\* What descends from Document among the classes of the repository that is measured.
LEMMA DescentResolved ==
  ASSUME NEW measured, NEW supporting, NEW classes, NEW own,
         ClassesAreTold({measured} \cup ToSet(supporting), classes), ClassesAreTold({measured}, own), own \subseteq classes,
         \A c, d \in classes : c.symbol = d.symbol => c = d
  PROVE  ResolveDescent(measured, supporting).descendants = SymbolsOf(Controllers(classes) \cap own)
<1> DEFINE corpora == {measured} \cup ToSet(supporting)
           symbols == {d.symbol : d \in Definitions({measured})}
<1>1. ResolveDescent(measured, supporting).descendants = DescendantSymbols(corpora) \cap symbols
  BY DEF ResolveDescent
<1>2. symbols = SymbolsOf(own)
  <2>1. \A d \in Definitions({measured}) : \E c \in own : d.symbol = c.symbol
    BY DEF ClassesAreTold
  <2>2. \A c \in own : \E d \in Definitions({measured}) : d.symbol = c.symbol
    BY DEF ClassesAreTold
  <2>3. \A s : s \in symbols <=> \E d \in Definitions({measured}) : d.symbol = s
    OBVIOUS
  <2>4. \A s : s \in SymbolsOf(own) <=> \E c \in own : c.symbol = s
    BY DEF SymbolsOf
  <2> HIDE DEF symbols
  <2>5. \A s : s \in symbols <=> s \in SymbolsOf(own)
    BY <2>1, <2>2, <2>3, <2>4
  <2> QED BY <2>5
<1>3. DescendantSymbols(corpora) = SymbolsOf(Controllers(classes))
  BY DescendantsAre
<1> HIDE DEF corpora, symbols
<1>4. SymbolsOf(Controllers(classes)) \cap SymbolsOf(own) = SymbolsOf(Controllers(classes) \cap own)
  <2>1. Controllers(classes) \subseteq classes
    BY DEF Controllers
  <2>2. ASSUME NEW s \in SymbolsOf(Controllers(classes)) \cap SymbolsOf(own) PROVE s \in SymbolsOf(Controllers(classes) \cap own)
    <3>1. PICK c \in Controllers(classes) : c.symbol = s
      BY <2>2 DEF SymbolsOf
    <3>2. PICK d \in own : d.symbol = s
      BY <2>2 DEF SymbolsOf
    <3>3. c = d
      BY <2>1, <3>1, <3>2
    <3> QED BY <3>1, <3>2, <3>3 DEF SymbolsOf
  <2>3. ASSUME NEW s \in SymbolsOf(Controllers(classes) \cap own) PROVE s \in SymbolsOf(Controllers(classes)) \cap SymbolsOf(own)
    BY <2>3 DEF SymbolsOf
  <2> QED BY <2>2, <2>3
<1> QED BY <1>1, <1>2, <1>3, <1>4

LEMMA SymbolsCounted ==
  ASSUME NEW S, IsFiniteSet(S), \A c, d \in S : c.symbol = d.symbol => c = d
  PROVE  Cardinality(SymbolsOf(S)) = Cardinality(S)
<1> DEFINE T == SymbolsOf(S)
           f == [c \in S |-> c.symbol]
<1>1. f \in [S -> T] /\ (\A t \in T : \E c \in S : f[c] = t) /\ (\A c, d \in S : f[c] = f[d] => c = d)
  BY DEF SymbolsOf
<1> HIDE DEF f, T
<1>2. f \in Bijection(S, T)
  BY <1>1 DEF Bijection, Injection, Surjection, IsInjective
<1> QED BY <1>2, FS_Bijection DEF ExistsBijection, T

\* What is aggregated from complete evidence is true of the trees.
LEMMA PatternsTell ==
  ASSUME NEW repository \in DOMAIN Trees, NEW supporting \in Seq(DOMAIN Trees), NEW minOccurrences,
         NEW sets, sets = [i \in 1..Len(supporting) |-> CompleteEvidence[supporting[i]]],
         NEW answer, answer = Aggregate(CompleteEvidence[repository], sets, minOccurrences), answer.error = None
  PROVE  HooksAreTold(answer.value, ToSet(supporting))
<1> DEFINE measured == CompleteEvidence[repository]
           R == {repository} \cup ToSet(supporting)
           made == PatternSetOf(measured, sets, minOccurrences)
<1>1. /\ Len(supporting) \in Nat /\ DOMAIN supporting = 1..Len(supporting) /\ IsList(supporting)
      /\ \A i \in 1..Len(supporting) : supporting[i] \in DOMAIN Trees
  BY DEF IsList
<1>2. /\ DOMAIN sets = 1..Len(supporting)
      /\ \A i \in 1..Len(supporting) : sets[i] = CompleteEvidence[supporting[i]] /\ sets[i].repository = supporting[i]
  <2>1. \A r \in DOMAIN Trees : CompleteEvidence[r].repository = r
    BY EvidenceIsStated
  <2>2. DOMAIN sets = 1..Len(supporting) /\ \A i \in 1..Len(supporting) : sets[i] = CompleteEvidence[supporting[i]]
    OBVIOUS
  <2> QED BY <1>1, <2>1, <2>2
<1>3. measured.repository = repository
  BY EvidenceIsStated
<1> HIDE DEF measured
<1>4. ToSet(supporting) = Supplied(sets)
  <2>1. \A r : r \in ToSet(supporting) <=> \E i \in 1..Len(supporting) : r = supporting[i]
    BY <1>1 DEF ToSet
  <2>2. \A r : r \in Supplied(sets) <=> \E i \in 1..Len(supporting) : r = sets[i].repository
    BY <1>2 DEF Supplied
  <2>3. \A r : r \in ToSet(supporting) <=> r \in Supplied(sets)
    BY <1>2, <2>1, <2>2
  <2> QED BY <2>3
<1>5. /\ RequiredSupporting[repository] \subseteq ToSet(supporting)
      /\ answer.value = made
  <2>1. /\ Raise("ValidationError").error = "ValidationError" /\ Raise("AggregationError").error = "AggregationError"
        /\ \A v : Ok(v).value = v
    BY DEF Raise, Ok
  <2>2. answer # Raise("ValidationError") /\ answer # Raise("AggregationError")
    BY <2>1, RaisedAssumption
  <2>3. /\ MissingRequiredSupport(measured.repository, Supplied(sets)) = {}
        /\ answer = Ok(made)
    BY <2>2 DEF Aggregate, measured
  <2>4. RequiredSupporting[repository] \ Supplied(sets) = {}
    BY <1>3, <2>3 DEF MissingRequiredSupport
  <2> QED BY <1>4, <2>1, <2>3, <2>4
<1>6. made.repository = repository
  BY <1>3 DEF PatternSetOf
<1>7. R \subseteq DOMAIN Trees /\ IsFiniteSet(R)
  <2>1. IsFiniteSet(ToSet(supporting)) /\ ToSet(supporting) \subseteq DOMAIN Trees
    BY <1>1, ElementsAreFinite DEF ToSet
  <2>2. IsFiniteSet(ToSet(supporting) \cup {repository})
    BY <2>1, FS_AddElement
  <2>3. R = ToSet(supporting) \cup {repository}
    OBVIOUS
  <2> QED BY <2>1, <2>2, <2>3
<1>8. R = {repository} \cup RequiredSupporting[repository] \cup ToSet(supporting)
  BY <1>5
<1> DEFINE classes == ClassesOfAll(R)
           all == UNION {ClassesOf(r) : r \in {answer.value.repository} \cup RequiredSupporting[answer.value.repository] \cup ToSet(supporting)}
           own == ClassesOf(repository)
           mine == Controllers(classes) \cap own
<1>9. all = classes
  <2>1. answer.value.repository = repository
    BY <1>5, <1>6
  <2>2. all = UNION {ClassesOf(r) : r \in {repository} \cup RequiredSupporting[repository] \cup ToSet(supporting)}
    BY <2>1
  <2> HIDE DEF all, R
  <2> QED BY <1>8, <2>2 DEF ClassesOfAll
<1>10. ClassesAreTold({measured} \cup ToSet(sets), classes)
  <2>1. {measured} \cup ToSet(sets) = CorporaOf(R)
    <3>1. \A c : c \in CorporaOf(R) <=> \E r \in R : c = CompleteEvidence[r]
      BY DEF CorporaOf
    <3>2. \A c : c \in ToSet(sets) <=> \E i \in 1..Len(supporting) : c = CompleteEvidence[supporting[i]]
      BY <1>2 DEF ToSet
    <3>3. \A r : r \in ToSet(supporting) <=> \E i \in 1..Len(supporting) : r = supporting[i]
      BY <1>1 DEF ToSet
    <3>4. \A r : r \in R <=> r = repository \/ r \in ToSet(supporting)
      OBVIOUS
    <3> HIDE DEF R
    <3>5. \A c : c \in {measured} \cup ToSet(sets) <=> c \in CorporaOf(R)
      BY <3>1, <3>2, <3>3, <3>4 DEF measured
    <3> QED BY <3>5
  <2> HIDE DEF R
  <2> QED BY <1>7, <2>1, ClassesTold
<1>11. ClassesAreTold({measured}, own)
  <2>1. ClassesAreTold(CorporaOf({repository}), ClassesOfAll({repository}))
    BY ClassesTold, FS_Singleton
  <2>2. CorporaOf({repository}) = {measured}
    BY DEF CorporaOf, measured
  <2>3. ClassesOfAll({repository}) = own
    BY DEF ClassesOfAll
  <2> QED BY <2>1, <2>2, <2>3
<1>12. own \subseteq classes
  BY DEF ClassesOfAll
<1> HIDE DEF classes, R, all, made
<1> DEFINE unique == \A c, d \in classes : c.symbol = d.symbol => c = d
           told(p) == /\ p.population = Cardinality(mine)
                      /\ p.symbols = {Append(c.symbol, p.subject[1]) : c \in {d \in mine : p.subject[1] \in d.methods}}
                      /\ made.provenance.supporting = ToSet(supporting)
<1>13. SUFFICES ASSUME unique, NEW p \in made.patterns, p.category = "controller_lifecycle_hook"
                PROVE  told(p)
  <2>1. unique => \A p \in {q \in made.patterns : q.category = "controller_lifecycle_hook"} : told(p)
    BY <1>13
  <2>2. PICK A : A = all
    OBVIOUS
  <2>3. PICK v : v = answer.value
    OBVIOUS
  <2> DEFINE their == Controllers(A) \cap ClassesOf(v.repository)
             said(p) == /\ p.population = Cardinality(their)
                        /\ p.symbols = {Append(c.symbol, p.subject[1]) : c \in {d \in their : p.subject[1] \in d.methods}}
                        /\ v.provenance.supporting = ToSet(supporting)
  <2>4. HooksAreTold(v, ToSet(supporting)) <=>
          ((\A c, d \in A : c.symbol = d.symbol => c = d) =>
             \A p \in {q \in v.patterns : q.category = "controller_lifecycle_hook"} : said(p))
    <3>1. A = UNION {ClassesOf(r) : r \in {v.repository} \cup RequiredSupporting[v.repository] \cup ToSet(supporting)}
      BY <2>2, <2>3 DEF all
    <3> QED BY <3>1 DEF HooksAreTold
  <2>5. A = classes /\ v = made /\ v.repository = repository
    BY <1>5, <1>6, <1>9, <2>2, <2>3
  <2>6. \A p : said(p) <=> told(p)
    BY <2>5
  <2> HIDE DEF said, told
  <2>7. unique => \A p \in {q \in v.patterns : q.category = "controller_lifecycle_hook"} : said(p)
    BY <2>1, <2>5, <2>6
  <2> QED BY <2>3, <2>4, <2>5, <2>7
<1>14. PICK descendants : descendants = ResolveDescent(measured, sets).descendants
  OBVIOUS
<1>15. descendants = SymbolsOf(mine)
  BY <1>10, <1>11, <1>12, <1>14, <1>13, DescentResolved
<1>16. PICK countable : countable = {r \in Records(measured, "controller_lifecycle_hook") : Front(r.symbol) \in descendants}
  OBVIOUS
<1>17. /\ p.population = Cardinality(descendants)
       /\ p.symbols = {r.symbol : r \in {q \in countable : q.subject = p.subject}}
       /\ \E r \in countable : r.subject = p.subject
       /\ made.provenance.supporting = Supplied(sets)
  BY <1>14, <1>16, <1>13, PatternSetMade DEF made
<1>18. Cardinality(descendants) = Cardinality(mine)
  <2>1. IsFiniteSet(own)
    BY ClassesAre
  <2>2. IsFiniteSet(mine) /\ mine \subseteq classes
    BY <1>12, <2>1, FS_Intersection
  <2>3. \A c, d \in mine : c.symbol = d.symbol => c = d
    BY <1>13, <2>2
  <2> HIDE DEF mine
  <2> QED BY <1>15, <2>2, <2>3, SymbolsCounted
<1>19. \A r : r \in countable <=> /\ r \in Stated(repository) /\ r.category = "controller_lifecycle_hook"
                                  /\ Front(r.symbol) \in descendants
  <2>1. ToSet(measured.evidence) = Stated(repository)
    BY EvidenceIsStated DEF measured
  <2> QED BY <1>16, <2>1 DEF Records
<1>20. \A c \in own : \A m : Front(Append(c.symbol, m)) = c.symbol
  BY StatedOfClasses
<1>21. \A c \in own : \A m \in c.methods : m \in LifecycleHookNames => \E r \in Stated(repository) :
         r.category = "controller_lifecycle_hook" /\ r.symbol = Append(c.symbol, m) /\ r.subject = <<m>>
  BY StatedOfClasses
<1>22. ASSUME NEW r \in countable
       PROVE  \E c \in mine : \E m \in c.methods : m \in LifecycleHookNames /\ r.symbol = Append(c.symbol, m) /\ r.subject = <<m>>
  <2>1. PICK c \in own : \E m \in c.methods : m \in LifecycleHookNames /\ r.symbol = Append(c.symbol, m) /\ r.subject = <<m>>
    BY <1>19, <1>22, StatedOfClasses
  <2>2. PICK m \in c.methods : m \in LifecycleHookNames /\ r.symbol = Append(c.symbol, m) /\ r.subject = <<m>>
    BY <2>1
  <2>3. Front(r.symbol) = c.symbol
    BY <1>20, <2>2
  <2>4. c.symbol \in SymbolsOf(mine)
    BY <1>15, <1>19, <1>22, <2>3
  <2>5. PICK d \in mine : d.symbol = c.symbol
    BY <2>4 DEF SymbolsOf
  <2>6. c = d
    BY <1>12, <1>13, <2>5
  <2> QED BY <2>2, <2>5, <2>6
<1>23. ASSUME NEW c \in mine, NEW m \in c.methods, m \in LifecycleHookNames
       PROVE  \E r \in countable : r.symbol = Append(c.symbol, m) /\ r.subject = <<m>>
  <2>1. PICK r \in Stated(repository) : r.category = "controller_lifecycle_hook" /\ r.symbol = Append(c.symbol, m) /\ r.subject = <<m>>
    BY <1>23, <1>21
  <2>2. Front(r.symbol) = c.symbol
    BY <1>23, <1>20, <2>1
  <2>3. c.symbol \in descendants
    BY <1>15, <1>23 DEF SymbolsOf
  <2> QED BY <1>19, <2>1, <2>2, <2>3
<1> HIDE DEF mine
<1>24. \A x, y : <<x>>[1] = x /\ (<<x>> = <<y>> => x = y)
  OBVIOUS
<1>25. PICK s \in LifecycleHookNames : p.subject = <<s>>
  <2>1. PICK r \in countable : r.subject = p.subject
    BY <1>17
  <2> QED BY <1>22, <2>1
<1>26. p.subject[1] = s
  BY <1>24, <1>25
<1> DEFINE named == {r.symbol : r \in {q \in countable : q.subject = p.subject}}
           having == {Append(c.symbol, s) : c \in {d \in mine : s \in d.methods}}
<1>27. ASSUME NEW x \in named PROVE x \in having
  <2>1. PICK r \in countable : r.subject = <<s>> /\ x = r.symbol
    BY <1>25, <1>27
  <2>2. PICK c \in mine : \E m \in c.methods : r.symbol = Append(c.symbol, m) /\ r.subject = <<m>>
    BY <1>22, <2>1
  <2>3. PICK m \in c.methods : r.symbol = Append(c.symbol, m) /\ r.subject = <<m>>
    BY <2>2
  <2>4. m = s
    BY <1>24, <2>1, <2>3
  <2> QED BY <2>1, <2>2, <2>3, <2>4
<1>28. ASSUME NEW x \in having PROVE x \in named
  <2>1. PICK c \in mine : s \in c.methods /\ x = Append(c.symbol, s)
    BY <1>28
  <2>2. PICK r \in countable : r.symbol = Append(c.symbol, s) /\ r.subject = <<s>>
    BY <1>23, <2>1
  <2> QED BY <1>25, <2>1, <2>2
<1>29. named = having
  <2> HIDE DEF named, having
  <2> QED BY <1>27, <1>28
<1>30. p.symbols = named
  BY <1>17
<1> HIDE DEF named, having
<1>31. p.symbols = having
  BY <1>29, <1>30
<1> QED BY <1>4, <1>15, <1>17, <1>18, <1>26, <1>31 DEF having

------------------------------------------------------------------------------
(* The reads of one asking process.                                       *)

\* Who agrees with the metadata it read read a write of the artifact it asked for.
ReadIs(read) ==
  Agrees(read) => read.meta.of \in 1..Len(writes) /\ writes[read.meta.of].artifact = read.artifact

\* A write is of what it was of.
WritesLast ==
  /\ StoreGoesOn
  /\ \A w \in 1..Len(writes) : w \in 1..Len(writes') /\ writes'[w].document = writes[w].document

LEMMA WriteBegins ==
  ASSUME StoreOK, NEW a \in Artifacts, NEW document, BeginWrite(a, document)
  PROVE  /\ WritesLast /\ Len(writes) \in Nat /\ Len(writes') = Len(writes) + 1
         /\ writes'[Len(writes) + 1].artifact = a /\ writes'[Len(writes) + 1].document = document
<1> DEFINE new == [artifact |-> a, document |-> document, at |-> "open records"]
           n == Len(writes)
<1>1. StoreGoesOn /\ IsList(writes) /\ n \in Nat
  BY BeginWriteKeeps DEF StoreOK, WritesOK, IsList
<1>2. writes' = Append(writes, new) /\ new.artifact = a /\ new.document = document
  BY DEF BeginWrite
<1> HIDE DEF new
<1>3. Len(writes') = n + 1 /\ writes'[n + 1] = new /\ \A w \in 1..n : writes'[w] = writes[w]
  BY <1>1, <1>2, ListAppended
<1> QED BY <1>1, <1>2, <1>3 DEF WritesLast

LEMMA WriteGoesOnToLast ==
  ASSUME StoreOK, NEW w \in DOMAIN writes, WriteArtifact(w) \/ CrashWrite(w)
  PROVE  WritesLast /\ Len(writes') = Len(writes)
<1> DEFINE n == Len(writes)
<1>1. StoreGoesOn
  BY WriteKeeps
<1>2. PICK to : writes' = [writes EXCEPT ![w].at = to]
  BY DEF WriteArtifact, CrashWrite, Opened, Filled
<1>3. IsList(writes) /\ n \in Nat /\ w \in 1..n
  BY DEF StoreOK, WritesOK, IsList
<1>4. PICK x : x = [writes[w] EXCEPT !.at = to]
  OBVIOUS
<1>5. x.document = writes[w].document
  <2>1. writes[w] = [artifact |-> writes[w].artifact, document |-> writes[w].document, at |-> writes[w].at]
    BY <1>3 DEF StoreOK, WritesOK
  <2> QED BY <1>4, <2>1
<1>6. writes' = [writes EXCEPT ![w] = x]
  BY <1>2, <1>4
<1>7. Len(writes') = n /\ writes'[w] = x /\ \A i \in 1..n : i # w => writes'[i] = writes[i]
  BY <1>3, <1>6, ListChanged
<1> QED BY <1>1, <1>3, <1>5, <1>7 DEF WritesLast

LEMMA WritesRest ==
  ASSUME StoreOK, UNCHANGED storing
  PROVE  WritesLast /\ Len(writes') = Len(writes)
<1>1. StoreGoesOn /\ writes' = writes
  BY StoreRests DEF storing
<1> QED BY <1>1 DEF WritesLast

LEMMA ReadStays ==
  ASSUME WritesLast, NEW read, ReadIs(read)
  PROVE  /\ ReadIs(read)' /\ (Agrees(read)' <=> Agrees(read))
         /\ Agrees(read) => DocumentRead(read)' = DocumentRead(read)
BY DEF ReadIs, Agrees, WritesLast, StoreGoesOn, DocumentRead

LEMMA ReadBegins ==
  ASSUME NEW a
  PROVE  ReadIs(BeginRead(a)) /\ BeginRead(a).artifact = a
BY DEF ReadIs, Agrees, BeginRead

LEMMA ReadEnds ==
  ASSUME StoreOK, NEW read, ReadOK(read), NEW shape \in ShapesRead(read.meta, files[read.artifact].records)
  PROVE  ReadIs(EndRead(read, shape)) /\ EndRead(read, shape).artifact = read.artifact
<1> DEFINE done == EndRead(read, shape)
           a == read.artifact
<1>1. done.artifact = a /\ done.meta = read.meta /\ done.records = files[a].records /\ done.shape = shape
  <2>1. DOMAIN read = {"artifact", "meta", "records", "settled", "shape"}
    BY DEF ReadOK
  <2>2. done = [[read EXCEPT !.records = files[a].records] EXCEPT !.shape = shape]
    BY DEF EndRead
  <2> QED BY <2>1, <2>2
<1> HIDE DEF done
<1>2. /\ a \in Artifacts /\ read.meta \in FileStates /\ read.meta.of \in Nat /\ (read.meta.of = 0 => read.meta.shape # "whole")
  BY DEF ReadOK, FileStates
<1>3. PairOK(a) /\ Len(writes) \in Nat
  BY <1>2 DEF StoreOK, WritesOK, IsList
<1>4. ASSUME Agrees(done)
      PROVE  done.meta.of \in 1..Len(writes) /\ writes[done.meta.of].artifact = done.artifact
  <2>1. shape = "whole" /\ files[a].records.of = read.meta.of
    BY <1>1, <1>4 DEF Agrees
  <2>2. read.meta.shape = "whole"
    BY <2>1 DEF ShapesRead
  <2>3. read.meta.of > 0 /\ read.meta.of <= Len(writes)
    <3>1. files[a].records.of <= Len(writes) /\ read.meta.of # 0
      BY <1>2, <1>3, <2>2 DEF PairOK
    <3> QED BY <1>2, <1>3, <2>1, <3>1
  <2>4. writes[read.meta.of].artifact = a
    BY <1>3, <2>1, <2>3 DEF PairOK
  <2> QED BY <1>1, <1>2, <1>3, <2>3, <2>4
<1>5. ReadIs(done) /\ done.artifact = a
  BY <1>1, <1>4 DEF ReadIs
<1> QED BY <1>5 DEF done

\* The repositories whose evidence `patterns aggregate` reads, in its order.
Asked == Each(<<job.repository>> \o job.supporting, EvidenceArtifact)

\* A read of complete evidence that nothing interrupted.
CleanRead(read) == Agrees(read) /\ DocumentRead(read) = CompleteEvidence[read.artifact[2]]

EachReadIs == \A i \in 1..Len(aggregate.reads) : \A read : read = aggregate.reads[i] => ReadIs(read)

EachReadIsClean == \A i \in 1..Len(aggregate.reads) : \A read : read = aggregate.reads[i] => CleanRead(read)

\* What was asked for was read, in its order, or is still to be read.
ReadInOrder ==
  /\ aggregate.at = "none" => aggregate.reads = <<>>
  /\ aggregate.at \in {"meta", "records", "made"} =>
       /\ Len(aggregate.reads) + Len(aggregate.todo) = Len(Asked)
       /\ \A i \in 1..Len(aggregate.reads) : aggregate.reads[i].artifact = Asked[i]
       /\ \A i \in 1..Len(aggregate.todo) : aggregate.todo[i] = Asked[Len(aggregate.reads) + i]
  /\ aggregate.at = "made" => aggregate.todo = <<>>

\* The patterns that are written are those the command made.
PatternsAreMade ==
  \A w \in 1..Len(writes) : writes[w].artifact = PatternArtifact(job.repository) =>
    aggregate.at = "made" /\ writes[w].document = aggregate.made

MadeOfClean ==
  aggregate.at = "made" /\ EachReadIsClean => \A made : made = aggregate.made => HooksAreTold(made, ToSet(job.supporting))

ReportIs ==
  report.at # "none" =>
    report.read.artifact = PatternArtifact(job.repository) /\ \A read : read = report.read => ReadIs(read)

PatternsOK ==
  IF job.kind = "patterns" THEN EachReadIs /\ ReadInOrder /\ PatternsAreMade /\ MadeOfClean /\ ReportIs
  ELSE report.at = "none"

LEMMA AskedListed ==
  ASSUME job \in Jobs, job.kind = "patterns"
  PROVE  LET n == Len(job.supporting) IN
         /\ job.repository \in DOMAIN Trees /\ job.supporting \in Seq(DOMAIN Trees) /\ n \in Nat
         /\ Len(Asked) = n + 1 /\ DOMAIN Asked = 1..(n + 1) /\ Asked[1] = EvidenceArtifact(job.repository)
         /\ \A i \in 1..n : Asked[i + 1] = EvidenceArtifact(job.supporting[i])
<1> DEFINE n == Len(job.supporting)
<1>1. PICK s : s = job.supporting
  OBVIOUS
<1>2. PICK r : r = job.repository
  OBVIOUS
<1>3. r \in DOMAIN Trees /\ s \in Seq(DOMAIN Trees)
  BY <1>1, <1>2, ArtifactsAssumption
<1>4. PICK q : q = <<r>> \o s
  OBVIOUS
<1>5. /\ q \in Seq(DOMAIN Trees) /\ Len(q) = Len(s) + 1 /\ Len(s) \in Nat
      /\ q[1] = r /\ \A i \in 1..Len(s) : q[i + 1] = s[i]
  BY <1>3, <1>4
<1>6. Asked = [i \in 1..Len(q) |-> EvidenceArtifact(q[i])]
  BY <1>1, <1>2, <1>4 DEF Asked, Each
<1>7. DOMAIN Asked = 1..(Len(s) + 1) /\ \A i \in 1..(Len(s) + 1) : Asked[i] = EvidenceArtifact(q[i])
  BY <1>5, <1>6
<1>8. Len(Asked) = Len(s) + 1
  <2>1. Asked = [i \in 1..(Len(s) + 1) |-> EvidenceArtifact(q[i])] /\ Len(s) + 1 \in Nat
    BY <1>5, <1>6
  <2>2. PICK S : S = {EvidenceArtifact(q[i]) : i \in 1..(Len(s) + 1)}
    OBVIOUS
  <2>3. Asked \in [1..(Len(s) + 1) -> S]
    BY <2>1, <2>2
  <2>4. Asked \in Seq(S)
    BY <2>1, <2>3
  <2> QED BY <1>7, <2>1, <2>4
<1>9. Asked[1] = EvidenceArtifact(r) /\ \A i \in 1..Len(s) : Asked[i + 1] = EvidenceArtifact(s[i])
  <2>1. 1 \in 1..(Len(s) + 1) /\ \A i \in 1..Len(s) : i + 1 \in 1..(Len(s) + 1)
    BY <1>5
  <2> QED BY <1>5, <1>7, <2>1
<1> QED BY <1>1, <1>2, <1>3, <1>5, <1>7, <1>8, <1>9

LEMMA ArtifactsDiffer ==
  \A r, s : EvidenceArtifact(r) # PatternArtifact(s) /\ EvidenceArtifact(r)[1] = "evidence" /\ EvidenceArtifact(r)[2] = r
BY DEF EvidenceArtifact, PatternArtifact

LEMMA AggregateStays ==
  ASSUME Inv, job.kind = "patterns", PatternsOK, job' = job, WritesLast, aggregate' = aggregate,
         \A w \in 1..Len(writes') : w \in 1..Len(writes) \/ writes'[w].artifact # PatternArtifact(job.repository)
  PROVE  EachReadIs' /\ ReadInOrder' /\ PatternsAreMade' /\ MadeOfClean'
<1>1. EachReadIs /\ ReadInOrder /\ PatternsAreMade /\ MadeOfClean
  BY DEF PatternsOK
<1>2. EachReadIs'
  BY <1>1, ReadStays DEF EachReadIs
<1>3. ReadInOrder'
  BY <1>1 DEF ReadInOrder, Asked
<1>4. PatternsAreMade'
  BY <1>1 DEF PatternsAreMade, WritesLast, StoreGoesOn
<1>5. EachReadIsClean' => EachReadIsClean
  <2> SUFFICES ASSUME EachReadIsClean', NEW i \in 1..Len(aggregate.reads), NEW read, read = aggregate.reads[i]
               PROVE  CleanRead(read)
    BY DEF EachReadIsClean
  <2>1. CleanRead(read)' /\ ReadIs(read)
    BY <1>1 DEF EachReadIsClean, EachReadIs
  <2>2. Agrees(read)
    BY <2>1, ReadStays DEF CleanRead
  <2>3. DocumentRead(read)' = DocumentRead(read)
    BY <2>1, <2>2, ReadStays
  <2> QED BY <2>1, <2>2, <2>3 DEF CleanRead
<1>6. MadeOfClean'
  BY <1>1, <1>5 DEF MadeOfClean
<1> QED BY <1>2, <1>3, <1>4, <1>6

LEMMA ReportStays ==
  ASSUME ReportIs, job' = job, WritesLast, report' = report
  PROVE  ReportIs'
BY ReadStays DEF ReportIs

LEMMA BeginAggregateIs ==
  ASSUME Inv, job.kind = "patterns", PatternsOK, job' = job, BeginAggregate
  PROVE  EachReadIs' /\ ReadInOrder' /\ PatternsAreMade' /\ MadeOfClean'
<1>1. EachReadIs /\ ReadInOrder /\ PatternsAreMade
  BY DEF PatternsOK
<1>2. UNCHANGED storing /\ aggregate.at = "none" /\ writes' = writes
  BY DEF BeginAggregate, storing
<1>3. WritesLast
  BY <1>2, WritesRest DEF Inv
<1>4. PICK at \in {"meta", "failed"} : aggregate' = [aggregate EXCEPT !.at = at, !.todo = Asked]
  BY DEF BeginAggregate, Asked
<1>5. aggregate = [at |-> aggregate.at, todo |-> aggregate.todo, reads |-> aggregate.reads, made |-> aggregate.made]
  BY DEF Inv, AggregateOK
<1>6. aggregate' = [at |-> at, todo |-> Asked, reads |-> aggregate.reads, made |-> aggregate.made]
  BY <1>4, <1>5
<1>7. aggregate'.at = at /\ aggregate'.todo = Asked /\ aggregate'.reads = <<>> /\ aggregate'.reads = aggregate.reads
  BY <1>1, <1>2, <1>6 DEF ReadInOrder
<1>8. EachReadIs'
  BY <1>1, <1>3, <1>7, ReadStays DEF EachReadIs
<1>9. ReadInOrder'
  <2>1. Asked' = Asked /\ Len(<<>>) = 0
    BY DEF Asked
  <2>2. Len(Asked) \in Nat
    BY AskedListed DEF Inv
  <2>3. at # "none" /\ at # "made"
    OBVIOUS
  <2>4. \A i \in 1..Len(aggregate'.todo) : aggregate'.todo[i] = Asked'[Len(aggregate'.reads) + i]
    <3> SUFFICES ASSUME NEW i \in 1..Len(Asked) PROVE Asked[i] = Asked[Len(<<>>) + i]
      BY <1>7, <2>1
    <3>1. Len(<<>>) + i = i
      BY <2>1, <2>2
    <3> QED BY <3>1
  <2>5. Len(aggregate'.reads) + Len(aggregate'.todo) = Len(Asked') /\ \A i \in 1..Len(aggregate'.reads) : FALSE
    BY <1>7, <2>1, <2>2
  <2> QED BY <1>7, <2>3, <2>4, <2>5 DEF ReadInOrder
<1>10. PatternsAreMade'
  BY <1>1, <1>2 DEF PatternsAreMade
<1>11. MadeOfClean'
  BY <1>7 DEF MadeOfClean
<1> QED BY <1>8, <1>9, <1>10, <1>11

LEMMA ReadMetaIs ==
  ASSUME Inv, job.kind = "patterns", PatternsOK, job' = job, ReadMeta
  PROVE  EachReadIs' /\ ReadInOrder' /\ PatternsAreMade' /\ MadeOfClean'
<1> DEFINE a == Head(aggregate.todo)
           n == Len(aggregate.reads)
<1>1. EachReadIs /\ ReadInOrder /\ PatternsAreMade
  BY DEF PatternsOK
<1>2. /\ aggregate.todo \in Seq(Artifacts) /\ aggregate.todo # <<>> /\ UNCHANGED storing /\ writes' = writes
      /\ aggregate.at = "meta" /\ IsList(aggregate.reads) /\ n \in Nat
  BY DEF ReadMeta, Inv, AggregateOK, IsList, storing
<1>3. WritesLast
  BY <1>2, WritesRest DEF Inv
<1>4. PICK read : read = BeginRead(a)
  OBVIOUS
<1>5. ReadIs(read) /\ read.artifact = a
  BY <1>4, ReadBegins
<1>6. aggregate = [at |-> aggregate.at, todo |-> aggregate.todo, reads |-> aggregate.reads, made |-> aggregate.made]
  BY DEF Inv, AggregateOK
<1>7. aggregate' = [at |-> "records", todo |-> Tail(aggregate.todo), reads |-> Append(aggregate.reads, read),
                    made |-> aggregate.made]
  BY <1>4, <1>6 DEF ReadMeta
<1>8. /\ IsList(Append(aggregate.reads, read)) /\ Len(Append(aggregate.reads, read)) = n + 1
      /\ Append(aggregate.reads, read)[n + 1] = read
      /\ \A i \in 1..n : Append(aggregate.reads, read)[i] = aggregate.reads[i]
  BY <1>2, ListAppended
<1>9. /\ aggregate'.at = "records" /\ aggregate'.todo = Tail(aggregate.todo)
      /\ Len(aggregate'.reads) = n + 1 /\ aggregate'.reads[n + 1] = read
      /\ \A i \in 1..n : aggregate'.reads[i] = aggregate.reads[i]
  BY <1>7, <1>8
<1>10. \A i \in 1..(n + 1) : i \in 1..n \/ i = n + 1
  BY <1>2
<1>11. EachReadIs'
  <2> SUFFICES ASSUME NEW i \in 1..(n + 1), NEW r, r = aggregate'.reads[i] PROVE ReadIs(r)'
    BY <1>9 DEF EachReadIs
  <2>1. ReadIs(r)
    BY <1>1, <1>5, <1>9, <1>10 DEF EachReadIs
  <2> QED BY <1>3, <2>1, ReadStays
<1>12. ReadInOrder'
  <2>1. PICK t : t = aggregate.todo
    OBVIOUS
  <2>2. PICK q : q = Asked
    OBVIOUS
  <2>3. /\ t \in Seq(Artifacts) /\ t # <<>> /\ n + Len(t) = Len(q)
        /\ \A i \in 1..n : aggregate.reads[i].artifact = q[i]
        /\ \A i \in 1..Len(t) : t[i] = q[n + i]
    BY <1>1, <1>2, <2>1, <2>2 DEF ReadInOrder
  <2>4. Len(t) \in Nat /\ Len(t) > 0 /\ Len(Tail(t)) = Len(t) - 1 /\ Head(t) = t[1] /\ \A i \in 1..(Len(t) - 1) : Tail(t)[i] = t[i + 1]
    BY <2>3
  <2>10. n \in Nat
    BY <1>2
  <2> HIDE DEF n
  <2>5. read.artifact = q[n + 1]
    <3>1. 1 \in 1..Len(t)
      BY <2>4
    <3>2. read.artifact = t[1] /\ t[1] = q[n + 1]
      BY <1>5, <2>1, <2>3, <2>4, <3>1
    <3> QED BY <3>2
  <2>6. (n + 1) + Len(Tail(t)) = Len(q)
    BY <1>2, <2>3, <2>4
  <2>7. \A i \in 1..Len(Tail(t)) : Tail(t)[i] = q[(n + 1) + i]
    <3> SUFFICES ASSUME NEW i \in 1..(Len(t) - 1) PROVE Tail(t)[i] = q[(n + 1) + i]
      BY <2>4
    <3>1. i + 1 \in 1..Len(t) /\ n + (i + 1) = (n + 1) + i
      BY <2>4, <2>10
    <3>2. t[i + 1] = q[n + (i + 1)]
      BY <2>3, <3>1
    <3> QED BY <2>4, <3>1, <3>2
  <2>8. \A i \in 1..(n + 1) : aggregate'.reads[i].artifact = q[i]
    BY <1>9, <1>10, <2>3, <2>5
  <2>9. Asked' = q /\ aggregate'.todo = Tail(t)
    BY <1>9, <2>1, <2>2 DEF Asked
  <2> QED BY <1>9, <2>6, <2>7, <2>8, <2>9 DEF ReadInOrder, n
<1>13. PatternsAreMade'
  BY <1>1, <1>2 DEF PatternsAreMade
<1>14. MadeOfClean'
  BY <1>9 DEF MadeOfClean
<1> QED BY <1>11, <1>12, <1>13, <1>14

LEMMA ReadRecordsIs ==
  ASSUME Inv, job.kind = "patterns", PatternsOK, job' = job, ReadRecords
  PROVE  EachReadIs' /\ ReadInOrder' /\ PatternsAreMade' /\ MadeOfClean'
<1> DEFINE n == Len(aggregate.reads)
<1>1. EachReadIs /\ ReadInOrder /\ PatternsAreMade
  BY DEF PatternsOK
<1>2. /\ aggregate.at = "records" /\ UNCHANGED storing /\ writes' = writes
      /\ IsList(aggregate.reads) /\ n \in Nat /\ n > 0
  BY DEF ReadRecords, Inv, AggregateOK, IsList, storing
<1>3. PICK read : read = aggregate.reads[n]
  OBVIOUS
<1>4. ReadOK(read) /\ n \in 1..n
  BY <1>2, <1>3 DEF Inv, AggregateOK
<1>5. PICK shape \in ShapesRead(read.meta, files[read.artifact].records) :
        aggregate' = [aggregate EXCEPT !.at = IF shape = "error" THEN "failed" ELSE "meta",
                                       !.reads[n] = EndRead(read, shape)]
  BY <1>3 DEF ReadRecords, Last
<1>6. WritesLast
  BY <1>2, WritesRest DEF Inv
<1>7. PICK done : done = EndRead(read, shape)
  OBVIOUS
<1>8. ReadIs(done) /\ done.artifact = read.artifact
  BY <1>4, <1>7, ReadEnds DEF Inv
<1>9. PICK at : at = IF shape = "error" THEN "failed" ELSE "meta"
  OBVIOUS
<1>10. PICK reads : reads = [aggregate.reads EXCEPT ![n] = done]
  OBVIOUS
<1>11. aggregate = [at |-> aggregate.at, todo |-> aggregate.todo, reads |-> aggregate.reads, made |-> aggregate.made]
  BY DEF Inv, AggregateOK
<1>12. Len(reads) = n /\ reads[n] = done /\ \A i \in 1..n : i # n => reads[i] = aggregate.reads[i]
  <2>1. IsList(aggregate.reads) /\ n \in 1..Len(aggregate.reads)
    BY <1>2, <1>4
  <2>2. \A x : LET changed == [aggregate.reads EXCEPT ![n] = x] IN
          /\ Len(changed) = n /\ changed[n] = x
          /\ \A i \in 1..n : i # n => changed[i] = aggregate.reads[i]
    BY <2>1, ListChanged, SMTT(30)
  <2> QED BY <1>10, <2>2
<1>13. aggregate' = [at |-> at, todo |-> aggregate.todo, reads |-> reads, made |-> aggregate.made]
  BY <1>5, <1>7, <1>9, <1>10, <1>11
<1>14. aggregate'.at = at /\ at \in {"meta", "failed"} /\ aggregate'.todo = aggregate.todo /\ aggregate'.reads = reads
  BY <1>9, <1>13
<1>15. EachReadIs'
  <2> SUFFICES ASSUME NEW i \in 1..n, NEW r, r = reads[i] PROVE ReadIs(r)'
    BY <1>12, <1>14 DEF EachReadIs
  <2>1. ReadIs(r)
    BY <1>1, <1>8, <1>12 DEF EachReadIs
  <2> QED BY <1>6, <2>1, ReadStays
<1>16. ReadInOrder'
  <2>1. PICK q : q = Asked
    OBVIOUS
  <2>2. /\ n + Len(aggregate.todo) = Len(q)
        /\ \A i \in 1..n : aggregate.reads[i].artifact = q[i]
        /\ \A i \in 1..Len(aggregate.todo) : aggregate.todo[i] = q[n + i]
    BY <1>1, <1>2, <2>1 DEF ReadInOrder
  <2>3. \A i \in 1..n : reads[i].artifact = q[i]
    BY <1>3, <1>8, <1>12, <2>2
  <2>4. Asked' = q
    BY <2>1 DEF Asked
  <2>5. at # "none" /\ at # "made"
    BY <1>14
  <2> QED BY <1>12, <1>14, <2>2, <2>3, <2>4, <2>5 DEF ReadInOrder
<1>17. PatternsAreMade'
  BY <1>1, <1>2 DEF PatternsAreMade
<1>18. MadeOfClean'
  BY <1>14 DEF MadeOfClean
<1> QED BY <1>15, <1>16, <1>17, <1>18

\* From clean reads the patterns are aggregated from complete evidence.
LEMMA CleanSets ==
  ASSUME Inv, job.kind = "patterns", PatternsOK, aggregate.at = "meta", aggregate.todo = <<>>, EachReadIsClean
  PROVE  LET sets == Each(aggregate.reads, EvidenceRead) IN
         /\ Head(sets) = CompleteEvidence[job.repository]
         /\ Tail(sets) = [i \in 1..Len(job.supporting) |-> CompleteEvidence[job.supporting[i]]]
<1>1. PICK n : n = Len(job.supporting)
  OBVIOUS
<1>2. PICK s : s = job.supporting
  OBVIOUS
<1>3. /\ job.repository \in DOMAIN Trees /\ s \in Seq(DOMAIN Trees) /\ n \in Nat /\ n = Len(s)
      /\ Len(Asked) = n + 1 /\ Asked[1] = EvidenceArtifact(job.repository)
      /\ \A i \in 1..n : Asked[i + 1] = EvidenceArtifact(s[i])
  BY <1>1, <1>2, AskedListed DEF Inv
<1>4. PICK reads : reads = aggregate.reads
  OBVIOUS
<1>5. /\ IsList(reads) /\ Len(reads) = n + 1 /\ \A i \in 1..(n + 1) : reads[i].artifact = Asked[i]
  <2>1. Len(<<>>) = 0 /\ IsList(reads) /\ Len(reads) \in Nat
    BY <1>4 DEF Inv, AggregateOK, IsList
  <2>2. Len(reads) + Len(<<>>) = Len(Asked) /\ \A i \in 1..Len(reads) : reads[i].artifact = Asked[i]
    BY <1>4 DEF PatternsOK, ReadInOrder
  <2>3. Len(reads) = n + 1
    BY <1>3, <2>1, <2>2
  <2> QED BY <2>1, <2>2, <2>3
<1>6. ASSUME NEW r \in DOMAIN Trees, NEW read, CleanRead(read), read.artifact = EvidenceArtifact(r)
      PROVE  EvidenceRead(read) = CompleteEvidence[r]
  <2>1. PICK D : D = CompleteEvidence[r]
    OBVIOUS
  <2>2. D = [repository |-> r, evidence |-> D.evidence, errors |-> {}, truncated |-> FALSE]
    BY <2>1, EvidenceIsStated
  <2>3. DocumentRead(read) = D /\ Agrees(read)
    BY <1>6, <2>1, ArtifactsDiffer DEF CleanRead
  <2>4. writes[read.records.of].document.evidence = D.evidence /\ read.shape = "whole"
    BY <2>3 DEF Agrees, DocumentRead
  <2>5. EvidenceRead(read) = [D EXCEPT !.evidence = D.evidence]
    BY <2>3, <2>4 DEF EvidenceRead
  <2> QED BY <2>1, <2>2, <2>5
<1>7. PICK sets : sets = Each(aggregate.reads, EvidenceRead)
  OBVIOUS
<1>8. sets = [i \in 1..(n + 1) |-> EvidenceRead(reads[i])]
  BY <1>4, <1>5, <1>7 DEF Each
<1>9. sets[1] = CompleteEvidence[job.repository] /\ \A i \in 1..n : sets[i + 1] = CompleteEvidence[s[i]]
  <2>1. 1 \in 1..(n + 1) /\ \A i \in 1..n : i + 1 \in 1..(n + 1)
    BY <1>3
  <2>2. \A i \in 1..(n + 1) : \A read : read = reads[i] => CleanRead(read)
    BY <1>4, <1>5 DEF EachReadIsClean
  <2>3. \A i \in 1..n : s[i] \in DOMAIN Trees
    BY <1>3
  <2>4. sets[1] = CompleteEvidence[job.repository]
    <3>1. PICK read : read = reads[1]
      OBVIOUS
    <3>2. CleanRead(read) /\ read.artifact = EvidenceArtifact(job.repository) /\ sets[1] = EvidenceRead(read)
      BY <1>3, <1>5, <1>8, <2>1, <2>2, <3>1
    <3> QED BY <1>3, <1>6, <3>2
  <2>5. ASSUME NEW i \in 1..n PROVE sets[i + 1] = CompleteEvidence[s[i]]
    <3>1. PICK read : read = reads[i + 1]
      OBVIOUS
    <3>2. CleanRead(read) /\ read.artifact = EvidenceArtifact(s[i]) /\ sets[i + 1] = EvidenceRead(read)
      BY <1>3, <1>5, <1>8, <2>1, <2>2, <3>1
    <3> QED BY <1>6, <2>3, <3>2
  <2> QED BY <2>4, <2>5
<1>10. PICK S : S = {sets[i] : i \in 1..(n + 1)}
  OBVIOUS
<1>11. sets \in Seq(S) /\ Len(sets) = n + 1 /\ sets # <<>>
  <2>1. n + 1 \in Nat /\ DOMAIN sets = 1..(n + 1) /\ sets \in [1..(n + 1) -> S]
    BY <1>3, <1>8, <1>10
  <2>2. sets \in Seq(S)
    BY <2>1
  <2>3. Len(sets) = n + 1
    BY <2>1, <2>2
  <2>4. n + 1 # 0 /\ Len(<<>>) = 0
    BY <1>3
  <2> QED BY <2>2, <2>3, <2>4
<1>12. Head(sets) = sets[1]
  BY <1>11
<1>13. Tail(sets) = [i \in 1..n |-> CompleteEvidence[s[i]]]
  <2>1. PICK t : t = Tail(sets)
    OBVIOUS
  <2>2. t \in Seq(S) /\ Len(t) = n /\ \A i \in 1..n : t[i] = sets[i + 1]
    BY <1>3, <1>11, <2>1
  <2>3. t = [i \in 1..n |-> t[i]]
    BY <1>3, <2>2
  <2> QED BY <1>9, <2>1, <2>2, <2>3
<1> QED BY <1>1, <1>2, <1>7, <1>9, <1>12, <1>13

LEMMA MakePatternsIs ==
  ASSUME Inv, job.kind = "patterns", PatternsOK, job' = job, MakePatterns
  PROVE  EachReadIs' /\ ReadInOrder' /\ PatternsAreMade' /\ MadeOfClean' /\ WritesLast
<1> DEFINE a == PatternArtifact(job.repository)
           sets == Each(aggregate.reads, EvidenceRead)
<1>1. EachReadIs /\ ReadInOrder /\ PatternsAreMade
  BY DEF PatternsOK
<1>2. aggregate.at = "meta" /\ aggregate.todo = <<>> /\ a \in Artifacts
  BY ArtifactsAssumption DEF MakePatterns, Inv
<1>3. aggregate = [at |-> aggregate.at, todo |-> aggregate.todo, reads |-> aggregate.reads, made |-> aggregate.made]
  BY DEF Inv, AggregateOK
<1>4. PICK answer : answer = Aggregate(Head(sets), Tail(sets), job.minOccurrences)
  OBVIOUS
<1>5. \/ aggregate' = [aggregate EXCEPT !.at = "failed"] /\ UNCHANGED storing
      \/ /\ answer.error = None /\ aggregate' = [aggregate EXCEPT !.at = "made", !.made = answer.value]
         /\ BeginWrite(a, answer.value)
  BY <1>4 DEF MakePatterns
<1>6. \A w \in 1..Len(writes) : writes[w].artifact # a
  BY <1>1, <1>2 DEF PatternsAreMade
<1>7. Asked' = Asked
  BY DEF Asked
<1>8. CASE aggregate' = [aggregate EXCEPT !.at = "failed"] /\ UNCHANGED storing
  <2>1. aggregate'.at = "failed" /\ aggregate'.reads = aggregate.reads /\ writes' = writes
    BY <1>3, <1>8 DEF storing
  <2>2. WritesLast
    BY <1>8, WritesRest DEF Inv
  <2>3. EachReadIs'
    BY <1>1, <2>1, <2>2, ReadStays DEF EachReadIs
  <2>4. ReadInOrder' /\ MadeOfClean'
    BY <2>1 DEF ReadInOrder, MadeOfClean
  <2>5. PatternsAreMade'
    BY <1>6, <2>1 DEF PatternsAreMade
  <2> QED BY <2>2, <2>3, <2>4, <2>5
<1>9. CASE /\ answer.error = None /\ aggregate' = [aggregate EXCEPT !.at = "made", !.made = answer.value]
           /\ BeginWrite(a, answer.value)
  <2>1. aggregate' = [at |-> "made", todo |-> aggregate.todo, reads |-> aggregate.reads, made |-> answer.value]
    BY <1>3, <1>9
  <2>2. /\ aggregate'.at = "made" /\ aggregate'.todo = <<>> /\ aggregate'.todo = aggregate.todo
        /\ aggregate'.reads = aggregate.reads /\ aggregate'.made = answer.value
    BY <1>2, <2>1
  <2>3. PICK n : n = Len(writes)
    OBVIOUS
  <2>4. /\ WritesLast /\ n \in Nat /\ Len(writes') = n + 1
        /\ writes'[n + 1].artifact = a /\ writes'[n + 1].document = answer.value
    BY <1>2, <1>9, <2>3, WriteBegins DEF Inv
  <2>5. EachReadIs'
    BY <1>1, <2>2, <2>4, ReadStays DEF EachReadIs
  <2>6. ReadInOrder'
    BY <1>1, <1>2, <1>7, <2>2 DEF ReadInOrder
  <2>7. PatternsAreMade'
    <3> SUFFICES ASSUME NEW w \in 1..(n + 1), writes'[w].artifact = a
                 PROVE  aggregate'.at = "made" /\ writes'[w].document = aggregate'.made
      BY <2>4 DEF PatternsAreMade
    <3>1. w \notin 1..n
      BY <1>6, <2>3, <2>4 DEF WritesLast, StoreGoesOn
    <3>2. w = n + 1
      BY <2>4, <3>1
    <3> QED BY <2>2, <2>4, <3>2
  <2>8. MadeOfClean'
    <3> SUFFICES ASSUME EachReadIsClean' PROVE HooksAreTold(answer.value, ToSet(job.supporting))
      BY <2>2 DEF MadeOfClean
    <3>1. EachReadIsClean
      <4> SUFFICES ASSUME NEW i \in 1..Len(aggregate.reads), NEW read, read = aggregate.reads[i] PROVE CleanRead(read)
        BY DEF EachReadIsClean
      <4>1. CleanRead(read)' /\ ReadIs(read)
        BY <1>1, <2>2 DEF EachReadIsClean, EachReadIs
      <4>2. Agrees(read)
        BY <2>4, <4>1, ReadStays DEF CleanRead
      <4>3. DocumentRead(read)' = DocumentRead(read)
        BY <2>4, <4>1, <4>2, ReadStays
      <4> QED BY <4>1, <4>2, <4>3 DEF CleanRead
    <3>2. PICK others : others = [i \in 1..Len(job.supporting) |-> CompleteEvidence[job.supporting[i]]]
      OBVIOUS
    <3>3. Head(sets) = CompleteEvidence[job.repository] /\ Tail(sets) = others
      BY <1>2, <3>1, <3>2, CleanSets
    <3>4. PICK r : r = job.repository
      OBVIOUS
    <3>5. PICK s : s = job.supporting
      OBVIOUS
    <3>6. PICK min : min = job.minOccurrences
      OBVIOUS
    <3>7. r \in DOMAIN Trees /\ s \in Seq(DOMAIN Trees)
      BY <3>4, <3>5, AskedListed DEF Inv
    <3>8. others = [i \in 1..Len(s) |-> CompleteEvidence[s[i]]] /\ answer = Aggregate(CompleteEvidence[r], others, min)
      BY <1>4, <3>2, <3>3, <3>4, <3>5, <3>6
    <3>9. HooksAreTold(answer.value, ToSet(s))
      BY <1>9, <3>7, <3>8, PatternsTell
    <3> QED BY <3>5, <3>9
  <2> QED BY <2>4, <2>5, <2>6, <2>7, <2>8
<1> QED BY <1>5, <1>8, <1>9

LEMMA BeginReportIs ==
  ASSUME Inv, job.kind = "patterns", PatternsOK, job' = job, BeginReport
  PROVE  ReportIs'
<1>1. PICK read : read = BeginRead(PatternArtifact(job.repository))
  OBVIOUS
<1>2. UNCHANGED storing /\ report' = [at |-> "records", read |-> read]
  BY <1>1 DEF BeginReport
<1>3. ReadIs(read) /\ read.artifact = PatternArtifact(job.repository)
  BY <1>1, ReadBegins
<1>4. WritesLast
  BY <1>2, WritesRest DEF Inv
<1>5. ReadIs(read)'
  BY <1>3, <1>4, ReadStays
<1>6. report'.read = read
  BY <1>2
<1> QED BY <1>3, <1>5, <1>6 DEF ReportIs

LEMMA ReadPatternsIs ==
  ASSUME Inv, job.kind = "patterns", PatternsOK, job' = job, ReadPatterns
  PROVE  ReportIs'
<1>1. PICK read : read = report.read
  OBVIOUS
<1>2. report.at = "records" /\ UNCHANGED storing
  BY DEF ReadPatterns
<1>3. ReadOK(read) /\ read.artifact = PatternArtifact(job.repository)
  <2>1. ReportIs
    BY DEF PatternsOK
  <2>2. ReadOK(read)
    BY <1>1, <1>2 DEF Inv, ReportOK
  <2> QED BY <1>1, <1>2, <2>1, <2>2 DEF ReportIs
<1>4. PICK shape \in ShapesRead(read.meta, files[read.artifact].records) :
        report' = [at |-> IF shape = "error" THEN "failed" ELSE "shown", read |-> EndRead(read, shape)]
  BY <1>1 DEF ReadPatterns
<1>5. PICK done : done = EndRead(read, shape)
  OBVIOUS
<1>6. ReadIs(done) /\ done.artifact = PatternArtifact(job.repository)
  BY <1>3, <1>5, ReadEnds DEF Inv
<1>7. WritesLast
  BY <1>2, WritesRest DEF Inv
<1>8. ReadIs(done)'
  BY <1>6, <1>7, ReadStays
<1>9. report'.read = done
  BY <1>4, <1>5
<1> QED BY <1>6, <1>8, <1>9 DEF ReportIs

LEMMA CommandsKeepPatterns ==
  ASSUME Inv, PatternsOK, Commands
  PROVE  PatternsOK'
<1>1. job.kind = "patterns" /\ job' = job /\ job'.kind = "patterns" /\ ReportIs
  BY DEF Commands, PatternsOK
<1>2. SUFFICES EachReadIs' /\ ReadInOrder' /\ PatternsAreMade' /\ MadeOfClean' /\ ReportIs'
  BY <1>1, <1>2 DEF PatternsOK
<1>3. ASSUME UNCHANGED storing PROVE WritesLast /\ \A w \in 1..Len(writes') : w \in 1..Len(writes)
  BY <1>3, WritesRest DEF Inv
<1>4. CASE ExtractCommand
  <2>1. PICK repository \in DOMAIN Trees : \E document : BeginWrite(EvidenceArtifact(repository), document)
    BY <1>4 DEF ExtractCommand
  <2>2. PICK document : BeginWrite(EvidenceArtifact(repository), document)
    BY <2>1
  <2>3. PICK n : n = Len(writes)
    OBVIOUS
  <2>4. WritesLast /\ n \in Nat /\ Len(writes') = n + 1 /\ writes'[n + 1].artifact = EvidenceArtifact(repository)
    BY <2>2, <2>3, WriteBegins, ArtifactsAssumption DEF Inv
  <2>5. ASSUME NEW w \in 1..Len(writes') PROVE w \in 1..Len(writes) \/ writes'[w].artifact # PatternArtifact(job.repository)
    <3>1. w \in 1..n \/ w = n + 1
      BY <2>4
    <3> QED BY <2>3, <2>4, <3>1, ArtifactsDiffer
  <2>6. aggregate' = aggregate /\ report' = report
    BY <1>4 DEF ExtractCommand
  <2> QED BY <1>1, <2>4, <2>5, <2>6, AggregateStays, ReportStays
<1>5. CASE \E w \in DOMAIN writes : Process(w)
  <2>1. PICK w \in DOMAIN writes : WriteArtifact(w) \/ CrashWrite(w)
    BY <1>5 DEF Process
  <2>2. WritesLast /\ Len(writes') = Len(writes)
    BY <2>1, WriteGoesOnToLast DEF Inv
  <2>3. aggregate' = aggregate /\ report' = report
    BY <1>5 DEF Process, commands
  <2> QED BY <1>1, <2>2, <2>3, AggregateStays, ReportStays
<1>6. CASE BeginAggregate
  <2>1. UNCHANGED storing /\ UNCHANGED report
    BY <1>6 DEF BeginAggregate
  <2> QED BY <1>1, <1>3, <1>6, <2>1, BeginAggregateIs, ReportStays
<1>7. CASE ReadMeta
  <2>1. UNCHANGED storing /\ UNCHANGED report
    BY <1>7 DEF ReadMeta
  <2> QED BY <1>1, <1>3, <1>7, <2>1, ReadMetaIs, ReportStays
<1>8. CASE ReadRecords
  <2>1. UNCHANGED storing /\ UNCHANGED report
    BY <1>8 DEF ReadRecords
  <2> QED BY <1>1, <1>3, <1>8, <2>1, ReadRecordsIs, ReportStays
<1>9. CASE MakePatterns
  <2>1. UNCHANGED report
    BY <1>9 DEF MakePatterns
  <2> QED BY <1>1, <1>9, <2>1, MakePatternsIs, ReportStays
<1>10. CASE BeginReport
  <2>1. UNCHANGED storing /\ UNCHANGED aggregate
    BY <1>10 DEF BeginReport
  <2> QED BY <1>1, <1>3, <1>10, <2>1, AggregateStays, BeginReportIs
<1>11. CASE ReadPatterns
  <2>1. UNCHANGED storing /\ UNCHANGED aggregate
    BY <1>11 DEF ReadPatterns
  <2> QED BY <1>1, <1>3, <1>11, <2>1, AggregateStays, ReadPatternsIs
<1> QED BY <1>4, <1>5, <1>6, <1>7, <1>8, <1>9, <1>10, <1>11 DEF Commands

LEMMA NextKeepsPatterns ==
  ASSUME Inv, PatternsOK, [Next]_vars
  PROVE  PatternsOK'
<1>1. ASSUME job' = job, UNCHANGED storing, UNCHANGED commands
      PROVE  PatternsOK'
  <2>1. aggregate' = aggregate /\ report' = report
    BY <1>1 DEF commands
  <2>2. WritesLast /\ Len(writes') = Len(writes)
    BY <1>1, WritesRest DEF Inv
  <2>3. CASE job.kind = "patterns"
    <3>1. ReportIs
      BY <2>3 DEF PatternsOK
    <3>2. EachReadIs' /\ ReadInOrder' /\ PatternsAreMade' /\ MadeOfClean' /\ ReportIs'
      BY <1>1, <2>1, <2>2, <2>3, <3>1, AggregateStays, ReportStays
    <3> QED BY <1>1, <2>3, <3>2 DEF PatternsOK
  <2>4. CASE job.kind # "patterns"
    BY <1>1, <2>1, <2>4 DEF PatternsOK
  <2> QED BY <2>3, <2>4
<1>2. CASE Edit
  BY <1>1, <1>2 DEF Edit
<1>3. CASE Calls
  BY <1>1, <1>3 DEF Calls
<1>4. CASE Analyse
  BY <1>1, <1>4 DEF Analyse
<1>5. CASE ExtractFromTree
  BY <1>1, <1>5 DEF ExtractFromTree
<1>6. CASE Commands
  BY <1>6, CommandsKeepPatterns
<1>7. CASE UNCHANGED vars
  BY <1>1, <1>7 DEF vars
<1> QED BY <1>2, <1>3, <1>4, <1>5, <1>6, <1>7 DEF Next

LEMMA PatternsBegin ==
  ASSUME Init
  PROVE  PatternsOK
<1>1. report.at = "none" /\ aggregate.at = "none" /\ aggregate.reads = <<>>
  BY DEF Init
<1>2. ASSUME job.kind = "patterns"
      PROVE  EachReadIs /\ ReadInOrder /\ PatternsAreMade /\ MadeOfClean /\ ReportIs
  <2>1. Len(<<>>) = 0 /\ 1..0 = {}
    OBVIOUS
  <2>2. EachReadIs
    BY <1>1, <2>1 DEF EachReadIs
  <2>3. ReadInOrder /\ MadeOfClean /\ ReportIs
    BY <1>1 DEF ReadInOrder, MadeOfClean, ReportIs
  <2>4. PatternsAreMade
    <3>1. writes = [i \in DOMAIN job.stored |->
                      Written(EvidenceArtifact(job.stored[i]), CompleteEvidence[job.stored[i]])]
      BY DEF Init, StoreInit
    <3>2. \A w \in DOMAIN writes : writes[w].artifact = EvidenceArtifact(job.stored[w])
      BY <3>1 DEF Written
    <3>3. DOMAIN writes = 1..Len(writes)
      BY InitHolds DEF Inv, StoreOK, WritesOK, IsList
    <3> QED BY <3>2, <3>3, ArtifactsDiffer DEF PatternsAreMade
  <2> QED BY <2>2, <2>3, <2>4
<1> QED BY <1>1, <1>2 DEF PatternsOK

\* aggregation/admission.py:163-212, inheritance.py:110-211, resolvers.py:154-176,
\* persistence.py: for any repositories, extractions, crashes and readings, whoever
\* is shown patterns that were aggregated from complete evidence, neither
\* interrupted, is told the number of controllers in the repository, those that
\* reach Document through other repositories included, and which of them have each
\* hook, and which repositories were used, if each qualified name stands for one class.
THEOREM PublishedIsTrue == Spec => []PublishedPatternsAreTrue
<1>1. Init => Inv /\ PatternsOK
  BY InitHolds, PatternsBegin
<1>2. Inv /\ PatternsOK /\ [Next]_vars => (Inv /\ PatternsOK)'
  BY NextKeeps, NextKeepsPatterns
<1>3. Inv /\ PatternsOK => PublishedPatternsAreTrue
  <2> SUFFICES ASSUME Inv, PatternsOK, report.at = "shown", Clean
               PROVE  HooksAreTold(DocumentRead(report.read), ToSet(job.supporting))
    BY DEF PublishedPatternsAreTrue
  <2>1. /\ job.kind = "patterns" /\ EachReadIs /\ ReadInOrder /\ PatternsAreMade /\ MadeOfClean /\ ReportIs
    BY DEF PatternsOK
  <2>2. PICK read : read = report.read
    OBVIOUS
  <2>3. ReadIs(read) /\ read.artifact = PatternArtifact(job.repository) /\ read \in AllReads
    BY <2>1, <2>2 DEF ReportIs, AllReads
  <2>4. Agrees(read)
    BY <2>3 DEF Clean
  <2>5. /\ read.meta.of \in 1..Len(writes) /\ writes[read.meta.of].artifact = PatternArtifact(job.repository)
    BY <2>3, <2>4 DEF ReadIs
  <2>6. aggregate.at = "made" /\ writes[read.meta.of].document = aggregate.made
    BY <2>1, <2>5 DEF PatternsAreMade
  <2>7. EachReadIsClean
    <3> SUFFICES ASSUME NEW i \in 1..Len(aggregate.reads), NEW r, r = aggregate.reads[i] PROVE CleanRead(r)
      BY DEF EachReadIsClean
    <3>1. DOMAIN aggregate.reads = 1..Len(aggregate.reads)
      BY DEF Inv, AggregateOK, IsList
    <3>2. r \in AllReads
      BY <3>1 DEF AllReads, ToSet
    <3>3. PICK n : n = Len(job.supporting)
      OBVIOUS
    <3>4. /\ n \in Nat /\ Len(Asked) = n + 1 /\ Asked[1] = EvidenceArtifact(job.repository)
          /\ \A k \in 1..n : Asked[k + 1] = EvidenceArtifact(job.supporting[k])
      BY <2>1, <3>3, AskedListed DEF Inv
    <3>5. r.artifact = Asked[i] /\ i \in 1..(n + 1)
      <4>1. Len(<<>>) = 0 /\ Len(aggregate.reads) \in Nat
        BY DEF Inv, AggregateOK, IsList
      <4>2. aggregate.todo = <<>> /\ Len(aggregate.reads) + Len(aggregate.todo) = Len(Asked) /\ aggregate.reads[i].artifact = Asked[i]
        BY <2>1, <2>6 DEF ReadInOrder
      <4>3. Len(aggregate.reads) = n + 1
        BY <3>4, <4>1, <4>2
      <4> QED BY <4>2, <4>3
    <3>6. \E repository : r.artifact = EvidenceArtifact(repository)
      <4>1. CASE i = 1
        BY <3>4, <3>5, <4>1
      <4>2. CASE i # 1
        <5>1. i - 1 \in 1..n /\ (i - 1) + 1 = i
          BY <3>4, <3>5, <4>2
        <5>2. Asked[(i - 1) + 1] = EvidenceArtifact(job.supporting[i - 1])
          BY <3>4, <5>1
        <5> QED BY <3>5, <5>1, <5>2
      <4> QED BY <4>1, <4>2
    <3>7. r.artifact[1] = "evidence"
      BY <3>6, ArtifactsDiffer
    <3> QED BY <3>2, <3>7 DEF Clean, CleanRead
  <2>8. PICK made : made = aggregate.made
    OBVIOUS
  <2>9. HooksAreTold(made, ToSet(job.supporting))
    BY <2>1, <2>6, <2>7, <2>8 DEF MadeOfClean
  <2> QED BY <2>2, <2>6, <2>8, <2>9 DEF DocumentRead
<1> QED BY <1>1, <1>2, <1>3, PTL DEF Spec
================================================================================
