---------------------------- MODULE MCFederation ----------------------------
(* Two nodes, one service.  The thread that starts the nodes registers and  *)
(* syncs on the first, the requests all reach the last, whose globals every *)
(* server shares.                                                          *)
EXTENDS Federation

CONSTANTS n1, n2, main, http

MCNodeOf == [t \in {main, http} |-> IF t = main THEN n1 ELSE n2]
MCAsks == [t \in {main, http} |->
  IF t = main THEN {"register", "sync"} ELSE {"register", "revoke", "heartbeat"}]
MCBeats == [t \in {main, http} |-> IF t = main THEN {} ELSE {"register", "heartbeat"}]
=============================================================================
