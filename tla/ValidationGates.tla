---------------------------- MODULE ValidationGates ---------------------------
(***************************************************************************)
(* knowledge/validation: the eight gates of the knowledge.validation       *)
(* pipeline over the knowledge store and the pending approvals, which all  *)
(* runs share and no lock protects.  An artifact is                        *)
(*   [id, kind, content, version, inferred, refs, method, schema, tags,    *)
(*    links, provenance, status, confidence],                              *)
(* its content [identity, body, thirdParty].  Confidence is counted in     *)
(* 1/100000.  Publishing an event may raise at any gate that does it.      *)
(***************************************************************************)
EXTENDS ConflictRules, Functions

CONSTANTS
  Runs,       \* pipeline runs
  TrustScore, \* TrustScore[id], 0..100: the answer of the trust score provider
  SourceOk,   \* SourceOk[id]: the answer of the source verifier
  TierOf      \* TierOf[id]: the answer of the precedence provider

ASSUME ProviderAssumption ==
  /\ \A id \in DOMAIN TrustScore : TrustScore[id] \in 0..100
  /\ \A id \in DOMAIN TierOf : TierOf[id] \in Tiers

VARIABLES
  run,      \* run[r]: [at, artifact, found, brought], at the gate it comes to next; found
            \* has the exact duplicate if there was one, brought the references it stored
  contents, \* _by_content_hash: <<kind, content>> -> artifact
  versions, \* _by_type_and_version: <<kind, version>> -> artifacts, oldest first
  pending,  \* _pending: id -> artifact held for a human
  returned, \* history: the artifacts runs and resolve() returned
  approved, \* history: ids a human approved
  decided   \* history: the runs whose hold a decision was made on, published or not

store == <<contents, versions>>
validation == <<run, store, pending, returned, approved, decided>>

Gates ==
  <<"schema_validation", "duplicate_detection", "remember", "version_conflict_detection",
    "source_verification", "trust_verification", "engineering_review", "human_approval_gate",
    "confidence_scoring", "done">>

PassesThrough == {"rejected", "superseded"} \cup Held

GatesInit ==
  /\ run = [r \in Runs |-> [at |-> "none", artifact |-> None, found |-> {}, brought |-> <<>>]]
  /\ contents = <<>> /\ versions = <<>>
  /\ pending = <<>>
  /\ returned = {} /\ approved = {} /\ decided = {}

(* Confidence.                                                             *)

ExtractionConfidence(method) ==
  CASE method = "source_code" -> 100
    [] method = "official_documentation" -> 85
    [] method = "merged_pull_request" -> 90
    [] method = "video_transcript" -> 60
    [] method = "forum_reply" -> 65
    [] OTHER -> 75

\* In tenths; every reference counts as a source of its own.
Corroboration(artifact) ==
  LET sources == IF artifact.refs = <<>> THEN 1 ELSE Len(artifact.refs)
  IN IF sources > 4 THEN 13 ELSE 9 + sources

ConfidenceOf(artifact) ==
  LET raw == TrustScore[artifact.id] * ExtractionConfidence(artifact.method) * Corroboration(artifact)
  IN IF raw > 100000 THEN 100000 ELSE raw

AmbiguousConfidences == 40000..60000
Ambiguous(artifact) == ConfidenceOf(artifact) \in AmbiguousConfidences

Threshold(artifact) ==
  CASE artifact.kind = "pattern" /\ artifact.content.thirdParty -> 50
    [] artifact.kind = "knowledge_api" -> 80
    [] artifact.kind \in {"pattern", "anti_pattern"} -> 70
    [] artifact.kind = "workflow" -> 60
    [] artifact.kind = "best_practice" -> 50
    [] artifact.kind = "example" -> 40
    [] OTHER -> 0

(* The knowledge store.                                                    *)

Key(artifact) == <<artifact.kind, artifact.content>>
FindExactDuplicate(artifact) == {contents[key] : key \in {Key(artifact)} \cap DOMAIN contents}

VersionKey(artifact) == <<artifact.kind, artifact.version>>
SameTypeSameVersion(artifact) ==
  IF VersionKey(artifact) \in DOMAIN versions THEN versions[VersionKey(artifact)] ELSE <<>>

\* dict[key] = value.
With(f, key, value) == [k \in DOMAIN f \cup {key} |-> IF k = key THEN value ELSE f[k]]

OtherVersions(artifact) == SelectSeq(SameTypeSameVersion(artifact), LAMBDA e : e.id # artifact.id)

Remember(artifact) ==
  /\ contents' = With(contents, Key(artifact), artifact)
  /\ versions' = IF artifact.version = None THEN versions
                 ELSE With(versions, VersionKey(artifact), Append(OtherVersions(artifact), artifact))

(* The gates: a run carries its artifact from one to the next.             *)

NextGate(g) == Gates[1 + CHOOSE i \in 1..Len(Gates) : Gates[i] = g]

Carry(r, artifact) == run' = [run EXCEPT ![r].at = NextGate(@), ![r].artifact = artifact]

\* A gate that raises fails the run; the pipeline has nothing to compensate.
Fail(r) == run' = [run EXCEPT ![r].at = "failed"]

At(r, g) == run[r].at = g
Stopped(r) == run[r].artifact.status \in PassesThrough

Submit(r, artifact) ==
  /\ At(r, "none")
  /\ run' = [run EXCEPT ![r].at = Gates[1], ![r].artifact = artifact]
  /\ UNCHANGED <<store, pending, returned, approved, decided>>

Rejected(artifact) == [artifact EXCEPT !.status = "rejected"]

AfterSchema(artifact) ==
  IF artifact.status \notin PassesThrough /\ (artifact.refs = <<>> \/ ~artifact.schema)
  THEN Rejected(artifact) ELSE artifact

SchemaValidation(r) ==
  /\ At(r, "schema_validation")
  /\ Carry(r, AfterSchema(run[r].artifact))
  /\ UNCHANGED <<store, pending, returned, approved, decided>>

DuplicateDetection(r) ==
  /\ At(r, "duplicate_detection")
  /\ run' = [run EXCEPT ![r].at = "remember",
                        ![r].found = IF Stopped(r) THEN {} ELSE FindExactDuplicate(run[r].artifact)]
  /\ UNCHANGED <<store, pending, returned, approved, decided>>

MergedRefs_New(existing, artifact) == artifact.refs \* mutant: the stored references are replaced

MergedRefs(existing, artifact) == existing.refs \o artifact.refs

\* The merged artifact is the stored one, which has the status it had then.
Merged(r) ==
  LET existing == CHOOSE e \in run[r].found : TRUE
  IN IF run[r].found = {} THEN run[r].artifact
     ELSE [existing EXCEPT !.refs = MergedRefs(existing, run[r].artifact)]

RememberArtifact(r) ==
  /\ At(r, "remember")
  /\ IF Stopped(r) THEN UNCHANGED store /\ Carry(r, run[r].artifact)
     ELSE /\ Remember(Merged(r))
          /\ run' = [run EXCEPT ![r].at = NextGate(@), ![r].artifact = Merged(r),
                                ![r].brought = run[r].artifact.refs]
  /\ UNCHANGED <<pending, returned, approved, decided>>

\* The stored artifacts that say something else of the same thing.
Conflicting(artifact) ==
  SelectSeq(SameTypeSameVersion(artifact), LAMBDA e :
    /\ e.id # artifact.id
    /\ e.content.identity = artifact.content.identity
    /\ e.content.body # artifact.content.body)

Verdict(artifact, existing) ==
  LET resolution == Resolve(ClaimOf(artifact, TierOf[artifact.id]), ClaimOf(existing, TierOf[existing.id]))
  IN IF resolution.human THEN "pending-conflict-resolution"
     ELSE IF resolution.winner = existing.id THEN "superseded"
     ELSE artifact.status

\* The first of those it does not win against decides.
Stronger(artifact) == SelectSeq(Conflicting(artifact), LAMBDA e : Verdict(artifact, e) # artifact.status)

AfterConflicts(artifact) ==
  IF Stronger(artifact) = <<>> THEN artifact
  ELSE [artifact EXCEPT !.status = Verdict(artifact, Head(Stronger(artifact)))]

VersionConflictDetection(r) ==
  /\ At(r, "version_conflict_detection")
  /\ LET artifact == run[r].artifact
         compared == ~Stopped(r) /\ artifact.version # None
     IN \/ Carry(r, IF compared THEN AfterConflicts(artifact) ELSE artifact)
        \/ compared /\ Conflicting(artifact) # <<>> /\ Fail(r)
  /\ UNCHANGED <<store, pending, returned, approved, decided>>

SourceVerification(r) ==
  /\ At(r, "source_verification")
  /\ Carry(r, IF Stopped(r) \/ SourceOk[run[r].artifact.id] THEN run[r].artifact
              ELSE Rejected(run[r].artifact))
  /\ UNCHANGED <<store, pending, returned, approved, decided>>

TrustVerification(r) ==
  /\ At(r, "trust_verification")
  /\ LET artifact == run[r].artifact
         low == ~Stopped(r) /\ TrustScore[artifact.id] < Threshold(artifact)
     IN Carry(r, IF low THEN [artifact EXCEPT !.tags = @ \cup {"low-confidence"}] ELSE artifact)
  /\ UNCHANGED <<store, pending, returned, approved, decided>>

EngineeringReview(r) ==
  /\ At(r, "engineering_review")
  /\ LET artifact == run[r].artifact
         contradicts == ~Stopped(r) /\ "contradicts-stable-rule" \in artifact.tags
     IN Carry(r, IF contradicts THEN [artifact EXCEPT !.status = "pending-human-approval"] ELSE artifact)
  /\ UNCHANGED <<store, pending, returned, approved, decided>>

NeedsHuman_Ambiguous(artifact) == \* mutant: what earlier gates held is not recorded
  artifact.status \notin PassesThrough /\ Ambiguous(artifact)

NeedsHuman(artifact) ==
  artifact.status \notin {"rejected", "superseded"} /\ (artifact.status \in Held \/ Ambiguous(artifact))

\* The artifact is recorded before the request is published.
HumanApprovalGate(r) ==
  /\ At(r, "human_approval_gate")
  /\ LET artifact == run[r].artifact
         held == [artifact EXCEPT !.status = "pending-human-approval"]
     IN IF NeedsHuman(artifact)
        THEN pending' = With(pending, artifact.id, held) /\ (Carry(r, held) \/ Fail(r))
        ELSE Carry(r, artifact) /\ UNCHANGED pending
  /\ UNCHANGED <<store, returned, approved, decided>>

Scored_Anything(artifact) == TRUE \* mutant: held artifacts are scored as well

Scored(artifact) == artifact.status \notin PassesThrough

Validated(artifact) ==
  [artifact EXCEPT !.status = "validated", !.confidence = ConfidenceOf(artifact)]

ConfidenceScoring(r) ==
  /\ At(r, "confidence_scoring")
  /\ LET artifact == run[r].artifact
         result == IF Scored(artifact) THEN Validated(artifact) ELSE artifact
     IN \/ Carry(r, result) /\ returned' = returned \cup {result}
        \/ Scored(artifact) /\ Fail(r) /\ UNCHANGED returned
  /\ UNCHANGED <<store, pending, approved, decided>>

(* PendingApprovalStore.resolve: the entry leaves before the event is out; *)
(* when publishing it raises, nothing is returned.                         *)

\* The run has passed the human approval gate with an artifact on hold.
Holds(r) == run[r].at \in {"confidence_scoring", "done"} /\ run[r].artifact.status \in Held

Answered(id, decision) ==
  IF decision = "approved" THEN Validated(pending[id]) ELSE Rejected(pending[id])

Resolved(id, decision) ==
  /\ id \in DOMAIN pending
  /\ pending' = Restrict(pending, DOMAIN pending \ {id})
  /\ approved' = IF decision = "approved" THEN approved \cup {id} ELSE approved
  /\ decided' = decided \cup {r \in Runs : Holds(r) /\ run[r].artifact.id = id}
  /\ returned' = returned \cup {Answered(id, decision)} \/ UNCHANGED returned
  /\ UNCHANGED <<run, store>>

Gate(r) ==
  \/ SchemaValidation(r) \/ DuplicateDetection(r) \/ RememberArtifact(r)
  \/ VersionConflictDetection(r) \/ SourceVerification(r) \/ TrustVerification(r)
  \/ EngineeringReview(r) \/ HumanApprovalGate(r) \/ ConfidenceScoring(r)
==============================================================================
