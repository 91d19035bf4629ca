SPECIFICATION FairSpec
CONSTANTS
  Tasks = {t1, t2, t3}
  MaxConcurrent = 2
  Ttl = 1
  MaxRestarts = 2
INVARIANTS
  TypeOK
  RunningIsBacked
  ConcurrencyCap
  UncountedWorkIsAccountedFor
  IndexAgrees
PROPERTIES
  TerminalIsFinal
  ImplementsLifecycle
  
CHECK_DEADLOCK FALSE
