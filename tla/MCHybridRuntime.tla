--------------------------- MODULE MCHybridRuntime ---------------------------
(* The built-in simulator and a second provider; workloads of every        *)
(* suitability, with and without fallback, one with a size that is none.   *)
EXTENDS HybridRuntime

CONSTANTS aer, remote

Local == [type |-> "LOCAL_SIMULATOR", status |-> "AVAILABLE", qubits |-> 30, endpoint |-> FALSE]
MCDefaultProviders == [p \in {aer, remote} |-> IF p = aer THEN Local ELSE Absent]
MCRecords ==
  {[type |-> "LIVE_HARDWARE", status |-> "AVAILABLE", qubits |-> 127, endpoint |-> TRUE],
   [type |-> "REMOTE_SIMULATOR", status |-> "UNKNOWN", qubits |-> 40, endpoint |-> FALSE],
   [Local EXCEPT !.status = "DEGRADED"]}

Small == [size |-> 2, sized |-> TRUE, qubo |-> FALSE, simulation |-> FALSE,
          demands |-> FALSE, live |-> FALSE, fallback |-> FALSE]
MCWorkloads ==
  {Small,
   [Small EXCEPT !.demands = TRUE],
   [Small EXCEPT !.demands = TRUE, !.live = TRUE, !.fallback = TRUE],
   [Small EXCEPT !.qubo = TRUE, !.size = 101],
   [Small EXCEPT !.simulation = TRUE, !.sized = FALSE]}
=============================================================================
