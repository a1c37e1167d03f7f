SPECIFICATION LifecycleSpec
CONSTANTS
  s1 = s1
  t1 = t1
  t2 = t2
  Services <- OneService
  Operators <- MCOperators
  MaxEvents = 5
\* The chain of evidence is bounded.
CHECK_DEADLOCK FALSE
INVARIANTS
  LifecycleTypeOK
  MovesReplay
PROPERTY MovesAreValid
