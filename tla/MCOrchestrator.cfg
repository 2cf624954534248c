SPECIFICATION Spec
CONSTANTS
  None = None
  Providers <- MCProviders
  Sources <- MCSources
  Results <- MCResults
  Names <- MCNames
  Searches <- MCSearches
  Registry <- MCRegistry
  Selections <- MCSelections
INVARIANTS
  TypeOK
  TerminalRollupIsSum
  OutcomeIsRecorded
  CountersAccountForPostings
  FailuresRecordedOnce
  CompletedMeansClean
PROPERTIES
  SettledStaysSettled
  ImplementsContract
CHECK_DEADLOCK FALSE
