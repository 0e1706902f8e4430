SPECIFICATION FairSpec
CONSTANTS
  N = 2
  QuitOnThreadError = FALSE
  Script <- ScriptRestart
  MayFail = {1, 2}
  Joins = TRUE
  MaxQueue = 2
INVARIANTS
  TypeOK
  StopSettles
  FreshQueues
PROPERTIES
  EmittedAtEnd
  ThreadsEnd
CHECK_DEADLOCK FALSE
