SPECIFICATION Spec
CONSTANTS
  aer = aer
  remote = remote
  ProviderIds = {aer, remote}
  DefaultProviders <- MCDefaultProviders
  Records <- MCRecords
  Workloads <- MCWorkloads
  MaxSubmits = 2
  MaxChanges = 3
  MaxRestarts = 1
INVARIANTS TypeOK NeverMasquerades AnsweredHasEvidence
PROPERTY EvidenceOnlyGrows
CHECK_DEADLOCK FALSE
