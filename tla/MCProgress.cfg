SPECIFICATION FairSpec
CONSTANTS
  None = None
  Providers <- MCProviders
  Sources <- MCSources
  Texts <- MCTexts
  Urls <- MCUrls
  Trim <- MCTrim
  NormalizeUrl <- MCNormalizeUrl
  Procs = {p1, p2}
  Raws = {r1, r2}
  Postings <- MCContended
  Times <- MCOneTime
  MaxDeletes = 1
PROPERTY EveryCallEnds
CHECK_DEADLOCK FALSE
