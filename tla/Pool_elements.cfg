SPECIFICATION FairSpec
CONSTANTS
  t1 = t1
  t2 = t2
  t3 = t3
  Takers = {t1, t2, t3}
  Deleters = 2
  MaxMem = 6
  Setups <- SetupsAll
INVARIANTS TypeOK Exclusive Accounted NoLostWakeup
PROPERTIES TakeReturns
CHECK_DEADLOCK FALSE
