SPECIFICATION FairSpec
CONSTANTS
  p1 = p1
  p2 = p2
  c1 = c1
  c2 = c2
  Producers = {p1}
  Consumers = {c1}
  Setups <- SetupsStop
  StopPermits = 3
  Sizes = {1}
  MaxAdds = 2
PROPERTIES ClearReturns
CHECK_DEADLOCK FALSE
