SPECIFICATION FairSpec
CONSTANTS
  t1 = t1
  t2 = t2
  t3 = t3
  Takers = {t1, t2, t3}
  Deleters = 2
  MaxMem = 2
  Setups <- SetupsDecoder
PROPERTIES FinalizeReturns
CHECK_DEADLOCK FALSE
