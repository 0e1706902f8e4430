SPECIFICATION FairSpec
CONSTANTS
  SeqModulus = 16
  MaxWait = 2
  MaxPayload = 5
  HeaderSize = 1
  Second = 4
  Pause = 2
  IntMax = 31
  MaxSince = 6
  Setups <- SetupsLink
INVARIANTS TypeOK WholeFrames InOrder LossCost WaitBound RateBound
PROPERTIES Sent
CHECK_DEADLOCK FALSE
