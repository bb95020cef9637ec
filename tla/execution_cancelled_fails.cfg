SPECIFICATION Spec
CONSTANTS
  a = a
  b = b
  Steps = {a, b}
  Capabilities <- MCCapabilities
  Available <- MCAvailable
  Idempotent <- MCIdempotent
  MaxAttempts <- MCMaxAttempts
  Plans <- ShortPlans
INVARIANTS
  CancelledRunsNeverFail
CHECK_DEADLOCK FALSE
