SPECIFICATION Spec
CONSTANTS
  n1 = n1
  n2 = n2
  main = main
  http = http
  Nodes = {n1, n2}
  Services = {"s1"}
  Workers = {main, http}
  NodeOf <- MCNodeOf
  Asks <- MCBeats
  Versions = {1}
  MaxStamp = 1
  TTL = 3
PROPERTY InForceStays
CHECK_DEADLOCK FALSE
