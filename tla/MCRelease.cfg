SPECIFICATION ReleaseSpec
CONSTANTS
  None = None
  Slices <- MCSlices
  Root <- MCRoot
  Edits <- MCEdits
  Stray <- MCStray
  SliceKind <- MCSliceKind
  Gates <- MCGates
  MaxCandidates <- MCMaxCandidates
  MaxMistakes = 2
INVARIANTS
  PublishedAsVerifiedAndApproved
  EveryMigrationWasTested
CHECK_DEADLOCK FALSE
