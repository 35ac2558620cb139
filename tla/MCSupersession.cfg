SPECIFICATION Spec
CONSTANTS
  Entities = {1, 2, 3, 4}
  MaxEdges = 3
CHECK_DEADLOCK FALSE
INVARIANTS MarksAgree ChainsComplete
