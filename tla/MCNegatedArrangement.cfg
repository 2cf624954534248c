INIT NormalizationInit
NEXT NormalizationNext
CONSTANTS
  Segments <- MCNoSegments
  Sentences <- MCArrangements
  MaxTokens <- MCMaxTokens
  Compensations <- MCNoCompensations
  Figures <- MCFigures
  Int32Max = 4000
INVARIANT ArrangementDeniedNeverClaimed
CHECK_DEADLOCK FALSE
