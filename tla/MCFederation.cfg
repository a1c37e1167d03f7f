SPECIFICATION Spec
CONSTANTS
  n1 = n1
  n2 = n2
  main = main
  http = http
  Nodes = {n1, n2}
  Services = {"s1"}
  Workers = {main, http}
  NodeOf <- MCNodeOf
  Asks <- MCAsks
  Versions = {1, 2}
  MaxStamp = 2
  TTL = 1
INVARIANT TypeOK
PROPERTIES UnwatchedOnlyByRace ExpiredIsRemoved
CHECK_DEADLOCK FALSE
