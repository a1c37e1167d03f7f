SPECIFICATION ReceiverSpec
CONSTANTS
  m1 = m1
  m2 = m2
  m3 = m3
  t1 = t1
  t2 = t2
  Messages <- MCMessages
  Threads <- MCThreads
  Capacity = 2
  MaxCounter = 3
SYMMETRY Symmetry
PROPERTY EvictsOldestOnly
