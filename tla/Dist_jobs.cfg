SPECIFICATION FairSpec
CONSTANTS
  h1 = h1
  h2 = h2
  Handlers = {h1, h2}
  MaxBuffers = 3
  Setups <- SetupsDist
INVARIANTS TypeOK NoHandlerLost AllDone
PROPERTIES PoolSpec Delivered HandlersEnd
CHECK_DEADLOCK FALSE
