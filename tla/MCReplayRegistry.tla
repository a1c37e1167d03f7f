-------------------------- MODULE MCReplayRegistry --------------------------
(* One registry object over one file, for TLC.                             *)
EXTENDS ReplayRegistry, TLC

CONSTANTS m1, m2, m3, t1, t2, r1

MCMessages == {m1, m2, m3}
MCThreads == {t1, t2}

\* One process with two threads: the deployment the documents describe.
OneObject == {r1}
HomeOfOne == [t \in MCThreads |-> r1]

Symmetry == Permutations(MCMessages) \union Permutations(MCThreads)
=============================================================================
