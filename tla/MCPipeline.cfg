SPECIFICATION Spec
CONSTANTS
  None = None
  Providers <- MCProviders
  Sources <- MCSources
  Results <- MCResults
  Selections <- MCSelections
INVARIANT SettledRight
PROPERTY ImplementsContract
CHECK_DEADLOCK FALSE
