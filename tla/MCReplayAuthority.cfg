SPECIFICATION GatewaySpec
CONSTANTS
  m1 = m1
  m2 = m2
  m3 = m3
  t1 = t1
  t2 = t2
  Messages <- MCMessages
  Threads <- MCThreads
  Capacity = 0
  MaxCounter = 3
SYMMETRY Symmetry
INVARIANTS
  TypeOK
  RejectedCountShort
  LineageMatchesRegistry
PROPERTIES
  KeepsContract
