SPECIFICATION GoalFairSpec
CONSTANTS
  Steps <- MCSteps
  Capabilities <- MCCapabilities
  Available <- MCAvailable
  Idempotent <- MCIdempotent
  MaxAttempts <- MCMaxAttempts
  Plans <- MCPlans
  Catalogs <- MCCatalogs
  Desires <- MCDesires
INVARIANTS
  RunsInFirstTopologicalOrder
  ConnectorCallsAreJustified
  ResultTellsWhatHappened
  ConsentBeforeEffect
  BuiltInStrategiesPlanWhatIsDesired
  ValidatedPlansAreOrdered
PROPERTIES
  ImplementsPlanRun
  RunEnds
CHECK_DEADLOCK FALSE
