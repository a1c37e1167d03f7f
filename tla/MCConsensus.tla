---------------------------- MODULE MCConsensus ----------------------------
(* Three nodes and two hashes for TLC.                                     *)
EXTENDS Consensus, TLC

CONSTANTS n1, n2, n3, h1, h2

ThreeNodes == {n1, n2, n3}
MCHashes == {h1, h2}

SymmetryOfThree == Permutations(ThreeNodes) \union Permutations(MCHashes)
=============================================================================
