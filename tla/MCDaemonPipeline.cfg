SPECIFICATION FairSpec
CONSTANTS
  convA = convA
  convB = convB
  D1 = D1
  D2 = D2
  Sample <- MCSample
  Session <- MCSession
  Posts <- MCPosts
  Questions <- MCQuestions
  TopK = 2
  MaxRuns = 2
CHECK_DEADLOCK FALSE
INVARIANTS ScoreIsReal NoForeignDrawers
PROPERTIES PollEnds
