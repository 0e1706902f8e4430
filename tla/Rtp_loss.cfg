SPECIFICATION Spec
CONSTANTS
  SeqModulus = 16
  MaxWait = 2
  MaxPayload = 5
  HeaderSize = 1
  Second = 4
  Pause = 2
  IntMax = 31
  MaxSince = 6
  Setups <- SetupsLoss
INVARIANTS OneFrameLost
CHECK_DEADLOCK FALSE
