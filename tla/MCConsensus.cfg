SPECIFICATION Spec
CONSTANTS
  n1 = n1
  n2 = n2
  n3 = n3
  h1 = h1
  h2 = h2
  NoHash = NoHash
  Forged = Forged
  Missing = Missing
  Nodes <- ThreeNodes
  Hashes <- MCHashes
  Threshold = 66
  MaxRounds = 2
\* The rounds are bounded.
CHECK_DEADLOCK FALSE
SYMMETRY SymmetryOfThree
INVARIANTS
  TypeOK
  CertifiedIsHonest
  HonestQuorumPrevails
  DissentIsNamed
  ConflictConvicts
