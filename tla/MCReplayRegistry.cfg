SPECIFICATION FairSpec
CONSTANTS
  m1 = m1
  m2 = m2
  m3 = m3
  t1 = t1
  t2 = t2
  r1 = r1
  NoThread = NoThread
  NoFile = NoFile
  Messages <- MCMessages
  Threads <- MCThreads
  Instances <- OneObject
  Home <- HomeOfOne
  TTL = 0
  MaxClock = 1
INVARIANTS
  TypeOK
  AtMostOnceValid
  ValidIsDurable
  SequencesContiguous
PROPERTIES
  KeepsContract
  LockIsReleased
