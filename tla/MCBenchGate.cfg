SPECIFICATION LockSpec
CONSTANTS
  ingest1 = ingest1
  ingest2 = ingest2
  reader = reader
  Bench <- MCIngest
  Ingest <- MCIngest
  Allowed = {}
  MaxIngest = 2
  StaleAge = 2
  MaxKills = 0
CHECK_DEADLOCK FALSE
INVARIANTS SecondRefused
