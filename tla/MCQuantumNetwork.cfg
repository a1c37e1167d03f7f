SPECIFICATION Spec
CONSTANTS
  alice = alice
  relay = relay
  bob = bob
  NodeIds = {alice, relay, bob}
  InitialNodes <- MCInitialNodes
  Callers = {"c1", "c2"}
  Workloads <- MCWorkloads
  Declarations <- MCDeclarations
  Links <- MCLinks
  Fidelities = {2}
  MaxPairs = 2
  MaxDeclares = 1
  MaxWorkloads = 2
INVARIANTS TypeOK PairUsedOnce CompletedIsBacked
PROPERTY WorkloadEnds
CHECK_DEADLOCK FALSE
