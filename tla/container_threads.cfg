SPECIFICATION Spec
CONSTANTS
  Capabilities = {"planner"}
  Callers = {u, v}
  ScopeIds = {r1, r2}
  NoScopeId = "none"
  MaxGeneration = 2
  MaxMade = 3
SYMMETRY Symmetry
INVARIANTS
  SingletonsFollowTheirRegistration
  ScopedInstancesAreNotShared
PROPERTIES
  EvictedInstancesStayGone
