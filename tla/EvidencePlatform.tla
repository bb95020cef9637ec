---------------------------- MODULE EvidencePlatform ---------------------------
(***************************************************************************)
(* The jobs that work on a repository's files, each alone in its process:  *)
(* calls of connectors; the analysis of a repository from walk to          *)
(* recommendations; the extraction of evidence from a tree; and the        *)
(* commands over evidence, `evidence extract`, `patterns aggregate` and    *)
(* `patterns report` (runtime/cli.py), which meet in the artifacts they    *)
(* write and read, and may each end anywhere.  Whoever else uses the disk  *)
(* changes it meanwhile.                                                   *)
(***************************************************************************)
EXTENDS ConnectorInvoker, Recommendation, Aggregation, TwoFileStore

CONSTANTS
  Jobs,           \* the jobs there are to begin with: [kind, ...]
  Edits,          \* [path, becomes]: what others do to the disk; None removes
  MaxEdits,       \* bound: edits of the disk in a run
  Trees,          \* Trees[repository]: [path, text] of the sources evidence is extracted from, as they are walked
  MaxExtractions  \* bound: `evidence extract` commands in a run

VARIABLES
  job,       \* the job of this run
  edits,     \* edits made
  extracted, \* `evidence extract` commands begun
  aggregate, \* the `patterns aggregate` command: [at, todo, reads, made]
  report     \* the `patterns report` command: [at, read]

commands == <<extracted, aggregate, report>>

analysis == <<walking, synthesizing, evaluation, recommendations, extracting>>

EvidenceArtifact(repository) == <<"evidence", repository>>
PatternArtifact(repository) == <<"patterns", repository>>

\* --repository and --supporting name repositories that may have evidence; none
\* is stored twice.
ASSUME ArtifactsAssumption ==
  /\ \A r \in DOMAIN Trees : EvidenceArtifact(r) \in Artifacts
  /\ \A j \in Jobs :
       /\ j.stored \in Seq(DOMAIN Trees) /\ IsInjective(j.stored)
       /\ j.kind = "patterns" =>
            /\ j.repository \in DOMAIN Trees /\ j.supporting \in Seq(DOMAIN Trees)
            /\ PatternArtifact(j.repository) \in Artifacts

\* A walk needs a tree; budgets are numbers.
ASSUME TreesAssumption ==
  /\ \A j \in Jobs : (j.kind # "calls" => IsTree(j.disk)) /\ \A w \in j.walks : w.maxFiles \in Nat
  /\ \A e \in Edits : e.path \in Paths

\* The sources of a repository are a list of files, and what they state is known.
ASSUME SourcesAssumption ==
  \A r \in DOMAIN Trees :
    /\ Trees[r] \in Seq(ToSet(Trees[r]))
    /\ \A f \in ToSet(Trees[r]) : f.text \in DOMAIN Parsed /\ f.path \in Seq(STRING) /\ f.path # <<>>

\* So does what reads its files: Parsed tells of whatever is there to read.
Contents == DOMAIN Parsed \cup {Dir, Locked, Outside, NotUtf8}

ASSUME ContentsAssumption ==
  /\ \A j \in Jobs : j.kind # "calls" => \A p \in DOMAIN j.disk : j.disk[p] \in Contents
  /\ \A j \in Jobs : \A s \in j.syntheses : s.maxFiles \in Nat
  /\ \A e \in Edits : e.becomes \in Contents \cup {None}

\* An evaluation there is to begin with is one of the rules'.
ASSUME EvaluationsAssumption ==
  \A j \in Jobs : j.evaluation # None => DifferentRules(ToSet(j.evaluation.findings))

------------------------------------------------------------------------------
(* What `evidence extract` makes of a tree: of its first files when the    *)
(* walk was truncated, without some it could not parse.                    *)

ExtractEvidence(repository, first, errors, truncated) ==
  LET parsed == {f \in ToSet(SubSeq(Trees[repository], 1, first)) : f.path \notin errors}
  IN EvidenceSetOf(repository, UNION {CollectFromText(f.path, f.text) : f \in parsed}, errors, truncated)

CompleteEvidence ==
  [repository \in DOMAIN Trees |-> ExtractEvidence(repository, Len(Trees[repository]), {}, FALSE)]

\* The outcomes of one extraction: complete, truncated, or with one file that was not parsed.
Extractions ==
  [repository \in DOMAIN Trees |->
     LET all == Len(Trees[repository])
     IN {CompleteEvidence[repository]}
        \cup {ExtractEvidence(repository, first, {}, TRUE) : first \in 0..(all - 1)}
        \cup {ExtractEvidence(repository, all, {Trees[repository][i].path}, FALSE) : i \in 1..all}]

------------------------------------------------------------------------------
Init ==
  /\ job \in Jobs
  /\ disk = job.disk
  /\ InvokerInit(job.manifests)
  /\ WalkInit /\ SynthesisInit /\ RecommendationInit /\ ExtractionInit
  /\ evaluation = job.evaluation
  /\ StoreInit([i \in DOMAIN job.stored |->
                 Written(EvidenceArtifact(job.stored[i]), CompleteEvidence[job.stored[i]])])
  /\ edits = 0 /\ extracted = 0
  /\ aggregate = [at |-> "none", todo |-> <<>>, reads |-> <<>>, made |-> None]
  /\ report = [at |-> "none", read |-> None]

\* Others create, change and remove files and directories, the root included.
Edit ==
  /\ job.kind # "patterns" /\ edits < MaxEdits
  /\ edits' = edits + 1
  /\ \E e \in Edits :
       LET below == {p \in DOMAIN disk : IsPrefix(e.path, p)}
           exists == e.path = Root \/ (e.path # Root /\ IsDir(Front(e.path)))
       IN /\ exists
          /\ DiskBecomes(IF e.becomes = None THEN [p \in DOMAIN disk \ below |-> disk[p]]
                         ELSE [p \in (DOMAIN disk \ below) \cup {e.path} |-> IF p = e.path THEN e.becomes ELSE disk[p]])
  /\ IF job.kind = "calls" THEN UNCHANGED <<lasting, ever>> ELSE RecordDisk
  /\ UNCHANGED <<job, analysis, storing, commands>>

Calls ==
  /\ job.kind = "calls" /\ InvokerNext
  /\ UNCHANGED <<job, edits, analysis, storing, commands>>

\* Discovery, synthesis, evaluation and recommendation, one after the other.
Analyse ==
  /\ job.kind \in {"analysis", "recommendation"}
  /\ \/ /\ \E request \in job.walks : BeginWalk(request)
        /\ UNCHANGED <<synthesizing, evaluation, recommendations>>
     \/ WalkNext /\ UNCHANGED <<synthesizing, evaluation, recommendations>>
     \/ /\ \E request \in job.syntheses : BeginSynthesis(request)
        /\ UNCHANGED <<walking, evaluation, recommendations>>
     \/ SynthesisNext /\ UNCHANGED <<walking, evaluation, recommendations>>
     \/ /\ EvaluateArchitecture(job.maxFindings)
        /\ UNCHANGED <<walking, synthesizing, recommendations>>
     \/ GenerateRecommendations /\ UNCHANGED <<walking, synthesizing, evaluation>>
  /\ UNCHANGED <<job, edits, disk, invoker, extracting, storing, commands>>

ExtractFromTree ==
  /\ job.kind = "extraction"
  /\ \/ (\E request \in job.walks : BeginWalk(request)) /\ UNCHANGED extracting
     \/ WalkNext /\ UNCHANGED extracting
     \/ (BeginExtraction(job.repository) \/ ExtractionNext) /\ UNCHANGED walking
  /\ UNCHANGED <<job, edits, disk, invoker, synthesizing, evaluation, recommendations, storing, commands>>

------------------------------------------------------------------------------
(* The commands.                                                           *)

ExtractCommand ==
  /\ extracted < MaxExtractions
  /\ \E repository \in DOMAIN Trees : \E document \in Extractions[repository] :
       BeginWrite(EvidenceArtifact(repository), document)
  /\ extracted' = extracted + 1
  /\ UNCHANGED <<aggregate, report>>

Process(w) ==
  /\ WriteArtifact(w) \/ CrashWrite(w)
  /\ UNCHANGED commands

\* patterns_aggregate: without the evidence files there is nothing to do; else the
\* measured artifact is read, then the supporting ones.
BeginAggregate ==
  /\ aggregate.at = "none"
  /\ LET artifacts == Each(<<job.repository>> \o job.supporting, EvidenceArtifact)
         found == \A i \in DOMAIN artifacts : files[artifacts[i]].records.shape # "absent"
     IN aggregate' = [aggregate EXCEPT !.at = IF found THEN "meta" ELSE "failed", !.todo = artifacts]
  /\ UNCHANGED <<extracted, report, storing>>

ReadMeta ==
  /\ aggregate.at = "meta" /\ aggregate.todo # <<>>
  /\ aggregate' = [aggregate EXCEPT !.at = "records", !.todo = Tail(@),
                                    !.reads = Append(@, BeginRead(Head(aggregate.todo)))]
  /\ UNCHANGED <<extracted, report, storing>>

ReadRecords ==
  /\ aggregate.at = "records"
  /\ LET read == Last(aggregate.reads) IN
     \E shape \in ShapesRead(read.meta, files[read.artifact].records) :
       aggregate' = [aggregate EXCEPT !.at = IF shape = "error" THEN "failed" ELSE "meta",
                                      !.reads[Len(aggregate.reads)] = EndRead(read, shape)]
  /\ UNCHANGED <<extracted, report, storing>>

\* The evidence set a read makes: the metadata of one write, the records of one.
EvidenceRead(read) ==
  LET records == writes[read.records.of].document.evidence
  IN [DocumentRead(read) EXCEPT !.evidence = IF read.shape = "whole" THEN records ELSE SubSeq(records, 1, Len(records) \div 2)]

MakePatterns ==
  /\ aggregate.at = "meta" /\ aggregate.todo = <<>>
  /\ LET sets == Each(aggregate.reads, EvidenceRead)
         answer == Aggregate(Head(sets), Tail(sets), job.minOccurrences)
     IN IF answer.error # None
        THEN aggregate' = [aggregate EXCEPT !.at = "failed"] /\ UNCHANGED storing
        ELSE /\ aggregate' = [aggregate EXCEPT !.at = "made", !.made = answer.value]
             /\ BeginWrite(PatternArtifact(job.repository), answer.value)
  /\ UNCHANGED <<extracted, report>>

\* patterns_report, at any time.
BeginReport ==
  /\ report.at = "none" /\ files[PatternArtifact(job.repository)].records.shape # "absent"
  /\ report' = [at |-> "records", read |-> BeginRead(PatternArtifact(job.repository))]
  /\ UNCHANGED <<extracted, aggregate, storing>>

ReadPatterns ==
  /\ report.at = "records"
  /\ \E shape \in ShapesRead(report.read.meta, files[report.read.artifact].records) :
       report' = [at |-> IF shape = "error" THEN "failed" ELSE "shown", read |-> EndRead(report.read, shape)]
  /\ UNCHANGED <<extracted, aggregate, storing>>

Commands ==
  /\ job.kind = "patterns"
  /\ \/ ExtractCommand \/ (\E w \in DOMAIN writes : Process(w))
     \/ BeginAggregate \/ ReadMeta \/ ReadRecords \/ MakePatterns \/ BeginReport \/ ReadPatterns
  /\ UNCHANGED <<job, edits, disk, invoker, analysis>>

Next ==
  \/ Edit
  \/ (Calls \/ Analyse \/ ExtractFromTree \/ Commands) /\ UNCHANGED <<lasting, ever>>

vars == <<job, edits, disk, invoker, analysis, lasting, ever, storing, commands>>

Spec == Init /\ [][Next]_vars

------------------------------------------------------------------------------
(* Properties.                                                             *)

AllReads == ToSet(aggregate.reads) \cup (IF report.at = "none" THEN {} ELSE {report.read})

\* evidence/persistence.py:75-80: every artifact that is accepted is one write's,
\* whole, unless a later write interrupted it.
PairsAgreeUnlessInterrupted == \A read \in AllReads : AgreesUnlessInterrupted(read)

\* The classes of a repository, from the classes themselves.
ClassesOf(repository) ==
  UNION {{[symbol |-> QualifiedClassSymbol(f.path, c.name), name |-> c.name, bases |-> c.bases, methods |-> c.methods] :
            c \in ToSet(Parsed[f.text].classes)} : f \in ToSet(Trees[repository])}

\* With a class, S has the classes that have it as a base; it has those of Document.
HasSubclasses(S, classes) ==
  \A c \in classes : (\E b \in c.bases : Last(b) \in {DocumentName} \cup {d.name : d \in S}) => c \in S

\* The classes that descend from Document, in the least such set.
Controllers(classes) ==
  {c \in classes : \A S \in SUBSET classes : HasSubclasses(S, classes) => c \in S}

\* The evidence was complete, and neither it nor the patterns were interrupted.
Clean == \A read \in AllReads :
           Agrees(read) /\ (read.artifact[1] = "evidence" => DocumentRead(read) = CompleteEvidence[read.artifact[2]])

\* The patterns of lifecycle hooks tell the number of controllers in a repository,
\* those that reach Document through other repositories included, and which of
\* them have each hook, and name the other repositories that were used.
HooksAreTold(shown, supporting) ==
  LET classes == UNION {ClassesOf(r) : r \in {shown.repository} \cup RequiredSupporting[shown.repository] \cup supporting}
      own == Controllers(classes) \cap ClassesOf(shown.repository)
  IN (\A c, d \in classes : c.symbol = d.symbol => c = d) =>
       \A p \in {q \in shown.patterns : q.category = "controller_lifecycle_hook"} :
         /\ p.population = Cardinality(own)
         /\ p.symbols = {Append(c.symbol, p.subject[1]) : c \in {d \in own : p.subject[1] \in d.methods}}
         /\ shown.provenance.supporting = supporting

\* aggregation/admission.py:163-212, inheritance.py:110-211, resolvers.py:154-176:
\* what a report shows of complete evidence is true of the trees, as long as no
\* qualified name stands for two classes.
PublishedPatternsAreTrue ==
  report.at = "shown" /\ Clean => HooksAreTold(DocumentRead(report.read), ToSet(job.supporting))

\* aggregation/resolvers.py:182-186, population.py:72-73: the comments say of
\* whitelisted functions that a pattern's occurrences and its population are drawn
\* from one set, by construction, so that no occurrence is outside the population.
OccurrencesAreDrawnFromThePopulation ==
  aggregate.made # None =>
    \A p \in {q \in aggregate.made.patterns : q.category = "whitelisted_api_decoration"} :
      p.symbols \subseteq {r.symbol : r \in {q \in ToSet(EvidenceRead(aggregate.reads[1]).evidence) :
                                               q.subject \in WhitelistFamily}}
==============================================================================
