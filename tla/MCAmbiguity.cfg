SPECIFICATION Spec
CONSTANTS
  None = None
  Providers <- MCProviders
  Sources <- MCSources
  Texts <- MCTexts
  Urls <- MCUrls
  Trim <- MCTrim
  NormalizeUrl <- MCNormalizeUrl
  Procs = {p1, p2}
  Raws = {r1, r2, r3, r4}
  Postings <- MCAmbiguous
  Times <- MCOneTime
  MaxDeletes = 0
SYMMETRY Symmetry
INVARIANT AmbiguityEvidenceStable
CHECK_DEADLOCK FALSE
