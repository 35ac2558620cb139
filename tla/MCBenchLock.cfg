SPECIFICATION FairLockSpec
CONSTANTS
  ingest1 = ingest1
  ingest2 = ingest2
  reader = reader
  Bench <- MCBench
  Ingest <- MCIngest
  Allowed <- MCAllowed
  MaxIngest = 2
  StaleAge = 2
  MaxKills = 1
CHECK_DEADLOCK FALSE
INVARIANTS KeepsMarker AdmittedWithin
PROPERTIES MarkersGo
