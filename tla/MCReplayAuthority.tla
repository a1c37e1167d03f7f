------------------------- MODULE MCReplayAuthority -------------------------
(* A few messages and threads for TLC.                                     *)
EXTENDS ReplayAuthority, TLC

CONSTANTS m1, m2, m3, t1, t2

MCMessages == {m1, m2, m3}
MCThreads == {t1, t2}

Symmetry == Permutations(MCMessages) \union Permutations(MCThreads)
=============================================================================
