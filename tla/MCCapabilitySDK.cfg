SPECIFICATION FairSpec
CONSTANTS
  t1 = t1
  t2 = t2
  Threads <- MCThreads
  FailureThreshold = 2
  ResetTimeout = 1
  MaxRetries = 1
  MaxClock = 3
INVARIANTS
  TypeOK
  CountsMatchState
  RetryStormBounded
PROPERTY InvocationEnds
