SPECIFICATION Spec
CONSTANTS
  MaxCalls = 6
  Blank = "blank"
  Rows <- MCRows
  Texts <- MCTexts
  TextOf <- MCTextOf
  Corpora <- MCCorpora
CHECK_DEADLOCK FALSE
INVARIANTS Attribution Isolation ReportAddsUp
