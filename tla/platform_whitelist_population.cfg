SPECIFICATION Spec
CONSTANTS
  None = None
  c1 = c1
  c2 = c2
  MaxEdits = 2
  MaxExtractions = 1
  Callers <- MC_Callers
  Requests <- MC_Requests
  NameOrder <- MC_NameOrder
  TypeOf <- MC_TypeOf
  Parsed <- MC_Parsed
  RequiredSupporting <- MC_RequiredSupporting
  Artifacts <- MC_Artifacts
  Jobs <- MC_WhitelistJobs
  Edits <- MC_Edits
  Trees <- MC_Trees
INVARIANT OccurrencesAreDrawnFromThePopulation
CHECK_DEADLOCK FALSE
