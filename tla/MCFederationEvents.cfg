SPECIFICATION Spec
CONSTANTS
  n1 = n1
  n2 = n2
  reaper = reaper
  http = http
  other = other
  Nodes = {n1, n2}
  Threads = {reaper, http, other}
  NodeOf <- MCNodeOf
  MaxEvents = 3
  MaxNonces = 2
  MaxReplays = 1
INVARIANTS TypeOK ClockSound AcceptedIsCovered RecordedOnce
CHECK_DEADLOCK FALSE
