SPECIFICATION FairSpec
CONSTANTS
  p1 = p1
  p2 = p2
  c1 = c1
  c2 = c2
  Producers = {p1, p2}
  Consumers = {c1, c2}
  Setups <- SetupsAll
  StopPermits = 2
  Sizes = {0, 1, 2}
  MaxAdds = 2
INVARIANTS TypeOK CountBound NoStranded TotalBound
PROPERTIES EmptyOnlyWhenStopped FifoSpec StopWakes Delivered
CHECK_DEADLOCK FALSE
