------------------------- MODULE MCFederationEvents -------------------------
(* Two nodes, one of them with two threads.                                *)
EXTENDS FederationEvents

CONSTANTS n1, n2, reaper, http, other

MCNodeOf == [t \in {reaper, http, other} |-> IF t = other THEN n1 ELSE n2]
=============================================================================
