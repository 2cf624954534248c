SPECIFICATION ProofSpec
CONSTANTS
  None = None
  Runs <- MCRuns
  Proofs <- MCProofs
  Candidates <- MCCandidates
  Settings <- MCSettings
  DefaultTestUrl <- MCDefaultTestUrl
  MaxFaults = 2
INVARIANTS
  OnlyTheTestDatabaseChanges
  PassMeansSoundWithoutRivals
  EvidenceLeavesNothingBehind
CHECK_DEADLOCK FALSE
