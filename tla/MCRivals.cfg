SPECIFICATION ProofSpec
CONSTANTS
  None = None
  Runs <- MCRuns
  Proofs <- MCProofs
  Candidates <- MCRivals
  Settings <- MCLocal
  DefaultTestUrl <- MCDefaultTestUrl
  MaxFaults = 0
INVARIANT PassMeansSound
CHECK_DEADLOCK FALSE
