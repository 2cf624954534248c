INIT NormalizationInit
NEXT NormalizationNext
CONSTANTS
  Segments <- MCSegments
  Sentences <- MCSentences
  MaxTokens <- MCMaxTokens
  Compensations <- MCCompensations
  Figures <- MCFigures
  Int32Max = 4000
INVARIANTS
  TierFoundIffStated
  NegatedNeverClaimed
  OfficeAttendanceBlocks
  SalaryNeverMisread
PROPERTY EvidenceNeverFlips
CHECK_DEADLOCK FALSE
