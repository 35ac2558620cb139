SPECIFICATION Spec
CONSTANTS
  Paths <- MCPaths
  Rank <- MCRank
  Bodies = {"old", "new"}
  Files <- MCFiles
  FileOf <- MCFileOf
  Absent = "absent"
  Torn = "torn"
  MaxRuns = 3
  MaxEdits = 2
CHECK_DEADLOCK FALSE
INVARIANTS CacheTruthUnlessSuspect ForceRepairs
