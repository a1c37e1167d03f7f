-------------------------- MODULE MCQuantumNetwork --------------------------
(* A line of three nodes; one workload needs both links, one the first     *)
(* link the other way round.                                               *)
EXTENDS QuantumNetwork

CONSTANTS alice, relay, bob

Up == [status |-> "ACTIVE", protocols |-> {"E91"}]
MCInitialNodes == [n \in {alice, relay, bob} |-> Up]
MCDeclarations == {[status |-> "UNKNOWN", protocols |-> {"E91"}],
                   [status |-> "OFFLINE", protocols |-> {}],
                   [status |-> "DEGRADED", protocols |-> {}]}
MCLinks == {<<alice, relay>>, <<relay, bob>>}
Strict == [path |-> <<alice, relay, bob>>, protocol |-> "E91", fallback |-> FALSE,
           minFidelity |-> 1, slow |-> FALSE]
MCWorkloads ==
  {Strict, [Strict EXCEPT !.path = <<relay, alice>>, !.fallback = TRUE, !.slow = TRUE],
   [Strict EXCEPT !.path = <<alice>>]}
=============================================================================
