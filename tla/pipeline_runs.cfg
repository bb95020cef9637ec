SPECIFICATION FairSpec
CONSTANTS
  r1 = r1
  r2 = r2
  Runs = {r1, r2}
  Definitions <- MCDefinitions
  Capabilities <- MCCapabilities
  NoCapability = NoCapability
  Wirings <- MCWirings
INVARIANTS
  StageCallsFollowTheDefinition
  ResultTellsWhatHappened
PROPERTIES
  ImplementsCompensatedRun
  RunsEnd
CHECK_DEADLOCK FALSE
