SPECIFICATION Spec
CONSTANTS
  None = None
  Runs = {r1, r2, r3}
  TrustScore <- MCTrustScore
  SourceOk <- MCSourceOk
  TierOf <- MCTierOf
  Artifacts <- MCArtifacts
  Batches <- MCBatches
  Versions <- MCVersions
  Raws <- MCRaws
  Candidates <- MCCandidates
  Collections <- MCCollections
SYMMETRY RunSymmetry
INVARIANTS
  HeldArtifactsAreRetained
CHECK_DEADLOCK FALSE
