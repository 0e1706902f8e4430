SPECIFICATION FairSpec
CONSTANTS
  MaxSessions = 4
  Timeout = 3
  MaxPending = 2
  Setups <- SetupsClient
INVARIANTS TypeOK ServerAgrees NoOrphans
PROPERTIES Obeys
CHECK_DEADLOCK FALSE
