SPECIFICATION FairSpec
CONSTANTS
  MaxCalls = 3
  InCap = 2
  OutCap = 2
CHECK_DEADLOCK FALSE
PROPERTY CallEnds
