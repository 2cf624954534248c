SPECIFICATION Spec
CONSTANTS
  None = None
  c1 = c1
  c2 = c2
  Calls <- MCCalls
  Requests <- MCRequests
  Asked <- MCAsked
  Runs <- MCRuns
SYMMETRY MCSymmetry
INVARIANTS
  RecordsAreIsolated
  EligibleMeansVerified
CHECK_DEADLOCK FALSE
