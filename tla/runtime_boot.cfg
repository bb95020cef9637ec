SPECIFICATION Spec
CONSTANTS
  Names <- MCNames
  Manifests <- MCManifests
  ModuleConfigs <- MCConfigs
  MaxChanges = 1
  MaxShutdowns = 2
INVARIANTS
  RequirementsAreMetBeforeInit
  ReadyMeansComplete
  ShutdownStopsDependentsFirst
  ValidatedIsNeverStale
  LoopsAreRight
CHECK_DEADLOCK FALSE
