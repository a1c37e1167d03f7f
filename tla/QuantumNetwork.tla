--------------------------- MODULE QuantumNetwork ---------------------------
(***************************************************************************)
(* quantum_network_contract.py: the nodes of the quantum network, the      *)
(* routes negotiated between them, the pool of entangled pairs, and the    *)
(* workloads that need a route and a pair for every hop.  Callers are      *)
(* threads; the nodes and routes are under one lock, the pool under        *)
(* another, and a workload is many critical sections.                      *)
(***************************************************************************)
EXTENDS Naturals, Sequences, FiniteSets

CONSTANTS
  NodeIds,
  InitialNodes,   \* what start-up declared
  Callers,        \* threads that coordinate workloads
  Workloads,      \* the workloads they may ask for
  Declarations,   \* what a node may later be declared to be
  Links,          \* the two ends pairs are allocated for
  Fidelities,     \* levels a new pair may have; one is lost per tick
  MaxPairs,       \* bound on the pairs ever generated
  MaxDeclares,    \* bound on the later declarations
  MaxWorkloads    \* bound on the workloads asked for

Entangling == {"E91", "ENTANGLEMENT_SWAPPING"}
Protocols == Entangling \union {"BB84", "CLASSICAL_CONTROL"}
Statuses == {"ACTIVE", "DEGRADED", "OFFLINE", "UNKNOWN"}
Node == [status : Statuses, protocols : SUBSET Protocols]
Absent == [status |-> "UNDECLARED", protocols |-> {}]
MaybeNode == Node \union {Absent}
Workload == [path : Seq(NodeIds), protocol : Protocols, fallback : BOOLEAN,
             minFidelity : Nat, slow : BOOLEAN]     \* slow: over max_latency_ms

PairIds == 1..MaxPairs
Level == UNION {0..f : f \in Fidelities}
Pair == [ends : NodeIds \X NodeIds, level : Level, state : {"free", "consumed", "purged"}]

ASSUME NetworkAssumption ==
  /\ InitialNodes \in [NodeIds -> MaybeNode]
  /\ Workloads \subseteq Workload
  /\ Declarations \subseteq Node
  /\ Links \subseteq NodeIds \X NodeIds
  /\ Fidelities \subseteq Nat
  /\ MaxPairs \in Nat /\ MaxDeclares \in Nat /\ MaxWorkloads \in Nat

VARIABLES
  nodes,      \* _nodes
  routes,     \* _routes; the ids are left out
  pairs,      \* the pool, by order of generation; "purged" is no longer in it
  declares,   \* later declarations so far
  pc, job,    \* where a workload is, the hop it is at and what it holds
  results     \* what was answered, with the pairs it took

shared == <<nodes, routes, pairs, declares>>
vars == <<shared, pc, job, results>>

RouteStatuses == {"LOCAL", "SIMULATED", "BLOCKED"}
Route == [from : NodeIds, to : NodeIds, protocol : Protocols, status : RouteStatuses]
NoWorkload == [path |-> <<>>, protocol |-> "BB84", fallback |-> TRUE, minFidelity |-> 0, slow |-> FALSE]
Job == [work : Workloads \union {NoWorkload}, hop : Nat, legs : Seq(Route), held : Seq(PairIds)]
NoJob == [work |-> NoWorkload, hop |-> 1, legs |-> <<>>, held |-> <<>>]
Hops(w) == Len(w.path) - 1

TypeOK ==
  /\ nodes \in [NodeIds -> MaybeNode]
  /\ routes \subseteq Route
  /\ pairs \in Seq(Pair) /\ Len(pairs) <= MaxPairs
  /\ declares \in 0..MaxDeclares
  /\ pc \in [Callers -> {"idle", "check", "route", "store", "latency", "reserve", "done"}]
  /\ job \in [Callers -> Job]
  /\ results \in Seq([status : {"COMPLETED", "BLOCKED"}, job : Job])

Init ==
  /\ nodes = InitialNodes
  /\ routes = {}
  /\ pairs = <<>>
  /\ declares = 0
  /\ pc = [c \in Callers |-> "idle"]
  /\ job = [c \in Callers |-> NoJob]
  /\ results = <<>>

-----------------------------------------------------------------------------
(* declare_node() overwrites.                                              *)
DeclareNode(n, d) ==
  /\ declares < MaxDeclares
  /\ declares' = declares + 1
  /\ nodes' = [nodes EXCEPT ![n] = d]
  /\ UNCHANGED <<routes, pairs, pc, job, results>>

(* generate_pairs(), one pair; the nodes need not be declared.             *)
GeneratePair(ends, f) ==
  /\ Len(pairs) < MaxPairs
  /\ pairs' = Append(pairs, [ends |-> ends, level |-> f, state |-> "free"])
  /\ UNCHANGED <<nodes, routes, declares, pc, job, results>>

(* Mutant of Decohere: without the lower limit.                            *)
DecohereBelow ==
  \E p \in DOMAIN pairs :
    /\ pairs[p].state = "free"
    /\ pairs' = [pairs EXCEPT ![p].level = @ - 1]
    /\ UNCHANGED <<nodes, routes, declares, pc, job, results>>

(* Decoherence: a pair loses fidelity in a coherence time of its own.      *)
Decohere ==
  \E p \in DOMAIN pairs :
    /\ pairs[p].state = "free" /\ pairs[p].level > 0
    /\ pairs' = [pairs EXCEPT ![p].level = @ - 1]
    /\ UNCHANGED <<nodes, routes, declares, pc, job, results>>

(* purge_expired(): consumed pairs and pairs below the threshold.          *)
Stale(p, min) == pairs[p].state = "consumed" \/ (pairs[p].state = "free" /\ pairs[p].level < min)

Purge(min) ==
  /\ \E p \in DOMAIN pairs : Stale(p, min)
  /\ pairs' = [p \in DOMAIN pairs |->
                 IF Stale(p, min) THEN [ends |-> pairs[p].ends, level |-> 0, state |-> "purged"]
                 ELSE pairs[p]]
  /\ UNCHANGED <<nodes, routes, declares, pc, job, results>>

-----------------------------------------------------------------------------
(* coordinate_distributed_workload()                                       *)
Goto(c, l, j) == pc' = [pc EXCEPT ![c] = l] /\ job' = [job EXCEPT ![c] = j]

Answer(c, status) ==
  /\ results' = Append(results, [status |-> status, job |-> job[c]])
  /\ Goto(c, "idle", NoJob)

Begin(c, w) ==
  /\ pc[c] = "idle"
  /\ Len(results) + Cardinality({d \in Callers : pc[d] # "idle"}) < MaxWorkloads
  /\ IF Len(w.path) < 2
     THEN /\ results' = Append(results, [status |-> "BLOCKED", job |-> [NoJob EXCEPT !.work = w]])
          /\ UNCHANGED <<pc, job>>
     ELSE /\ Goto(c, "check", [NoJob EXCEPT !.work = w])
          /\ UNCHANGED results
  /\ UNCHANGED shared

Advance(c, last, next) ==
  IF job[c].hop < last THEN Goto(c, pc[c], [job[c] EXCEPT !.hop = @ + 1])
  ELSE Goto(c, next, [job[c] EXCEPT !.hop = 1])

(* Every node of the path is looked up, one lock each.                     *)
CheckNode(c) ==
  /\ pc[c] = "check"
  /\ LET n == job[c].work.path[job[c].hop]
     IN  IF nodes[n].status \in {"UNDECLARED", "OFFLINE"}
         THEN Answer(c, "BLOCKED")
         ELSE Advance(c, Len(job[c].work.path), "route") /\ UNCHANGED results
  /\ UNCHANGED shared

-----------------------------------------------------------------------------
(* request_route(): what the two nodes, read together, allow.              *)
RouteStatus(src, dst) ==
  IF src.status = "ACTIVE" /\ dst.status = "ACTIVE" THEN "LOCAL"
  ELSE IF "DEGRADED" \in {src.status, dst.status} THEN "SIMULATED"
  ELSE "BLOCKED"

Speaks(protocol, src, dst) == protocol \in src.protocols /\ protocol \in dst.protocols

(* No route object: refused before one is made.                            *)
Refused(w, src, dst) ==
  \/ {src.status, dst.status} \cap {"UNDECLARED", "OFFLINE"} # {}
  \/ ~Speaks(w.protocol, src, dst) /\ ~w.fallback

(* The route, or the classical fallback.                                   *)
RouteFor(w, a, b) ==
  IF Speaks(w.protocol, nodes[a], nodes[b])
  THEN [from |-> a, to |-> b, protocol |-> w.protocol, status |-> RouteStatus(nodes[a], nodes[b])]
  ELSE [from |-> a, to |-> b, protocol |-> "CLASSICAL_CONTROL", status |-> "LOCAL"]

NegotiateRoute(c) ==
  /\ pc[c] = "route"
  /\ LET w == job[c].work
         a == w.path[job[c].hop]
         b == w.path[job[c].hop + 1]
     IN  IF Refused(w, nodes[a], nodes[b]) THEN Answer(c, "BLOCKED")
         ELSE /\ Goto(c, "store", [job[c] EXCEPT !.legs = Append(@, RouteFor(w, a, b))])
              /\ UNCHANGED results
  /\ UNCHANGED shared

(* Mutant of StoreRoute: a blocked route is taken like any other.          *)
TakeRoute(c) ==
  /\ pc[c] = "store"
  /\ LET r == job[c].legs[Len(job[c].legs)]
     IN  /\ routes' = routes \union {r}
         /\ IF job[c].hop < Hops(job[c].work) THEN Goto(c, "route", [job[c] EXCEPT !.hop = @ + 1])
            ELSE Goto(c, "latency", [job[c] EXCEPT !.hop = 1])
         /\ UNCHANGED results
  /\ UNCHANGED <<nodes, pairs, declares>>

(* The route is stored under a second lock, a blocked one too.             *)
StoreRoute(c) ==
  /\ pc[c] = "store"
  /\ LET r == job[c].legs[Len(job[c].legs)]
     IN  /\ routes' = routes \union {r}
         /\ IF r.status = "BLOCKED" THEN Answer(c, "BLOCKED")
            ELSE /\ IF job[c].hop < Hops(job[c].work)
                    THEN Goto(c, "route", [job[c] EXCEPT !.hop = @ + 1])
                    ELSE Goto(c, "latency", [job[c] EXCEPT !.hop = 1])
                 /\ UNCHANGED results
  /\ UNCHANGED <<nodes, pairs, declares>>

CheckLatency(c) ==
  /\ pc[c] = "latency"
  /\ LET w == job[c].work
     IN  IF w.slow /\ ~w.fallback THEN Answer(c, "BLOCKED")
         ELSE /\ Goto(c, IF w.protocol \in Entangling THEN "reserve" ELSE "done", job[c])
              /\ UNCHANGED results
  /\ UNCHANGED shared

-----------------------------------------------------------------------------
(* reserve_pair(): the freshest free pair of the hop, either way round.    *)
Joins(p, a, b) == pairs[p].ends \in {<<a, b>>, <<b, a>>}

Candidates(a, b, min) ==
  {p \in DOMAIN pairs : pairs[p].state = "free" /\ pairs[p].level >= min /\ Joins(p, a, b)}

Best(P) == CHOOSE p \in P : \A q \in P :
  pairs[q].level < pairs[p].level \/ (pairs[q].level = pairs[p].level /\ p <= q)

(* Mutant of ReservePair: a hop without a pair is tried again.             *)
RetryReserve(c) ==
  /\ pc[c] = "reserve"
  /\ LET w == job[c].work
         free == Candidates(w.path[job[c].hop], w.path[job[c].hop + 1], w.minFidelity)
     IN  /\ free # {}
         /\ pairs' = [pairs EXCEPT ![Best(free)].state = "consumed"]
         /\ LET j == [job[c] EXCEPT !.held = Append(@, Best(free))]
            IN  IF j.hop < Hops(w) THEN Goto(c, "reserve", [j EXCEPT !.hop = @ + 1])
                ELSE Goto(c, "done", j)
         /\ UNCHANGED results
  /\ UNCHANGED <<nodes, routes, declares>>

(* Mutant of ReservePair: the pair is handed out and stays free.           *)
BorrowPair(c) ==
  /\ pc[c] = "reserve"
  /\ LET w == job[c].work
         free == Candidates(w.path[job[c].hop], w.path[job[c].hop + 1], w.minFidelity)
     IN  IF free # {}
         THEN /\ LET j == [job[c] EXCEPT !.held = Append(@, Best(free))]
                 IN  IF j.hop < Hops(w) THEN Goto(c, "reserve", [j EXCEPT !.hop = @ + 1])
                     ELSE Goto(c, "done", j)
              /\ UNCHANGED results
         ELSE IF w.fallback THEN Goto(c, "done", job[c]) /\ UNCHANGED results
         ELSE Answer(c, "BLOCKED")
  /\ UNCHANGED shared

(* One hop.  Without a pair the workload goes on classically and reserves  *)
(* no more, or is blocked; what earlier hops consumed stays consumed.      *)
ReservePair(c) ==
  /\ pc[c] = "reserve"
  /\ LET w == job[c].work
         free == Candidates(w.path[job[c].hop], w.path[job[c].hop + 1], w.minFidelity)
     IN  IF free # {}
         THEN /\ pairs' = [pairs EXCEPT ![Best(free)].state = "consumed"]
              /\ LET j == [job[c] EXCEPT !.held = Append(@, Best(free))]
                 IN  IF j.hop < Hops(w) THEN Goto(c, "reserve", [j EXCEPT !.hop = @ + 1])
                     ELSE Goto(c, "done", j)
              /\ UNCHANGED results
         ELSE /\ UNCHANGED pairs
              /\ IF w.fallback THEN Goto(c, "done", job[c]) /\ UNCHANGED results
                 ELSE Answer(c, "BLOCKED")
  /\ UNCHANGED <<nodes, routes, declares>>

Complete(c) ==
  /\ pc[c] = "done"
  /\ Answer(c, "COMPLETED")
  /\ UNCHANGED shared

-----------------------------------------------------------------------------
Step(c) ==
  \/ CheckNode(c) \/ NegotiateRoute(c) \/ StoreRoute(c) \/ CheckLatency(c)
  \/ ReservePair(c) \/ Complete(c)

Next ==
  \/ \E n \in NodeIds, d \in Declarations : DeclareNode(n, d)
  \/ \E ends \in Links, f \in Fidelities : GeneratePair(ends, f)
  \/ Decohere
  \/ \E min \in Fidelities : Purge(min)
  \/ \E c \in Callers, w \in Workloads : Begin(c, w)
  \/ \E c \in Callers : Step(c)

(* A workload that began is worked on.                                     *)
Spec == Init /\ [][Next]_vars /\ \A c \in Callers : WF_vars(Step(c))

-----------------------------------------------------------------------------
(* Where a pair was handed out: the hops of running workloads and of       *)
(* answered ones, the blocked too.                                         *)
HopsWith(p, j) == {i \in DOMAIN j.held : j.held[i] = p}
HandedOut(p) ==
  (UNION {{<<"running", c, i>> : i \in HopsWith(p, job[c])} : c \in Callers})
    \union (UNION {{<<"answered", r, i>> : i \in HopsWith(p, results[r].job)} : r \in DOMAIN results})

(* A pair is measured by one workload only: none is handed out twice, none *)
(* handed out is still free, and none is consumed but by a workload.       *)
PairUsedOnce ==
  \A p \in DOMAIN pairs :
    /\ Cardinality(HandedOut(p)) <= 1
    /\ pairs[p].state = "free" => HandedOut(p) = {}
    /\ pairs[p].state = "consumed" => HandedOut(p) # {}

(* A workload reported COMPLETED had a route that was not blocked for every *)
(* hop; each pair it used joins the ends of its hop, and if it must not    *)
(* fall back it had a pair for each.                                       *)
CompletedIsBacked ==
  \A r \in DOMAIN results :
    LET j == results[r].job
        w == j.work
    IN  results[r].status = "COMPLETED" =>
          /\ Len(j.legs) = Hops(w)
          /\ \A i \in DOMAIN j.legs :
               /\ j.legs[i].status # "BLOCKED"
               /\ j.legs[i].from = w.path[i] /\ j.legs[i].to = w.path[i + 1]
          /\ \A i \in DOMAIN j.held : Joins(j.held[i], w.path[i], w.path[i + 1])
          /\ w.protocol \in Entangling /\ ~w.fallback => Len(j.held) = Hops(w)

(* Every workload is answered, whatever is declared, reserved or purged    *)
(* around it.                                                              *)
WorkloadEnds == \A c \in Callers : pc[c] # "idle" ~> pc[c] = "idle"
=============================================================================
