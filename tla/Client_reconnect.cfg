SPECIFICATION FairSpec
CONSTANTS
  MaxSessions = 4
  Timeout = 3
  MaxPending = 2
  Setups <- SetupsReconnect
PROPERTIES RestartsAfterLoss
CHECK_DEADLOCK FALSE
