SPECIFICATION Spec
CONSTANTS
  None = None
  Providers <- MCProviders
  Sources <- MCSources
  Texts <- MCTexts
  Urls <- MCUrls
  Trim <- MCTrim
  NormalizeUrl <- MCNormalizeUrl
  Procs = {p1, p2, p3}
  Raws = {r1, r2, r3}
  Postings <- MCPostings
  Times <- MCTimes
  MaxDeletes = 1
CONSTRAINT OneFeed
SYMMETRY Symmetry
INVARIANTS
  IInv
  NaturalKeyUnique
  CanonicalUrlOneJob
  LastSeenIsLatest
  RawLinksItsOccurrence
  NoFalseMerge
  OneConflictPerRaw
  AmbiguityIsGenuine
  UnstableOnlyAfterDelete
  NoWaitCycle
PROPERTIES
  ObservationsOnlyAdvance
  ImplementsLedger
  RawSettledOnce
CHECK_DEADLOCK FALSE
