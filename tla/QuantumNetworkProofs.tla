------------------------ MODULE QuantumNetworkProofs ------------------------
(***************************************************************************)
(* The coordination of workloads, for any nodes, links, callers,           *)
(* workloads, declarations, fidelities and number of pairs.                *)
(***************************************************************************)
EXTENDS QuantumNetwork, FiniteSetTheorems, SequenceTheorems, WellFoundedInduction, TLAPS

Labels == {"idle", "check", "route", "store", "latency", "reserve", "done"}

(* A finite set with a better element for each of its own would have a     *)
(* smaller set of better ones for ever: so the best one exists.            *)
LEMMA BestIsIn ==
  ASSUME TypeOK, NEW P \in SUBSET DOMAIN pairs, P # {}
  PROVE  Best(P) \in P
<1>1. IsFiniteSet(P)
  <2>1. DOMAIN pairs = 1..Len(pairs) /\ Len(pairs) \in Nat
    BY DEF TypeOK
  <2>2. IsFiniteSet(1..Len(pairs))
    BY <2>1, FS_Interval
  <2> QED
    BY <2>1, <2>2, FS_Subset
<1>2. \A p \in P : p \in Nat /\ pairs[p].level \in Nat
  <2>1. Level \subseteq Nat
    BY NetworkAssumption DEF Level
  <2>2. \A p \in P : p \in Nat /\ pairs[p] \in Pair
    BY DEF TypeOK
  <2> QED
    BY <2>1, <2>2 DEF Pair
<1> DEFINE Better(q, p) == ~(pairs[q].level < pairs[p].level
                             \/ (pairs[q].level = pairs[p].level /\ p <= q))
           Above(p) == {q \in P : Better(q, p)}
           T == {Above(p) : p \in P}
<1>3. \E U \in T : \A V \in T : ~(<<V, U>> \in StrictSubsetOrdering(P))
  <2>1. FiniteSubsetsOf(P) = SUBSET P
    BY <1>1, FS_FiniteSubsetsOfFinite
  <2>2. T \subseteq SUBSET P /\ T # {}
    OBVIOUS
  <2>3. IsWellFoundedOn(StrictSubsetOrdering(P), SUBSET P)
    BY <2>1, FS_StrictSubsetOrderingWellFounded
  <2> HIDE DEF T
  <2> QED
    BY <2>2, <2>3, WFMin
<1>4. PICK p \in P : \A q \in P : ~(<<Above(q), Above(p)>> \in StrictSubsetOrdering(P))
  BY <1>3
<1>5. Above(p) = {}
  <2> SUFFICES ASSUME NEW q \in Above(p) PROVE FALSE
    OBVIOUS
  <2>1. Above(q) \subseteq Above(p) /\ q \notin Above(q)
    BY <1>2
  <2>2. Above(q) \in SUBSET P /\ Above(p) \in SUBSET P /\ Above(q) # Above(p)
    BY <2>1
  <2> QED
    BY <1>4, <2>1, <2>2 DEF StrictSubsetOrdering
<1>6. \A q \in P : pairs[q].level < pairs[p].level
                   \/ (pairs[q].level = pairs[p].level /\ p <= q)
  BY <1>5
<1> QED
  BY <1>6 DEF Best

-----------------------------------------------------------------------------
(* What a workload has at each place: which hop it is at, that the routes  *)
(* and pairs it holds are those of the hops before, and that a blocked     *)
(* route is the last and not yet stored.                                   *)
Leg(j, i) == j.legs[i].from = j.work.path[i] /\ j.legs[i].to = j.work.path[i + 1]

Under(l, j) ==
  /\ j.work \in Workloads /\ Len(j.work.path) >= 2 /\ j.hop >= 1
  /\ l = "check" => j.hop <= Len(j.work.path) /\ j.legs = <<>>
  /\ l \in {"route", "store", "reserve"} => j.hop <= Hops(j.work)
  /\ l = "route" => Len(j.legs) = j.hop - 1
  /\ l = "store" => Len(j.legs) = j.hop
  /\ l \in {"latency", "reserve", "done"} => Len(j.legs) = Hops(j.work)
  /\ l = "latency" => j.hop = 1
  /\ l \in {"check", "route", "store", "latency"} => j.held = <<>>
  /\ l = "reserve" => Len(j.held) = j.hop - 1
  /\ l = "done" => /\ Len(j.held) <= Hops(j.work)
                   /\ j.work.protocol \in Entangling /\ ~j.work.fallback =>
                        Len(j.held) = Hops(j.work)
  /\ \A i \in DOMAIN j.legs :
       Leg(j, i) /\ (j.legs[i].status = "BLOCKED" => l = "store" /\ i = Len(j.legs))

Placed(l, j) == IF l = "idle" THEN j = NoJob ELSE Under(l, j)

TypeInv == TypeOK /\ \A c \in Callers : Placed(pc[c], job[c])

LEMMA NoJobTyped ==
  /\ NoJob \in Job /\ NoJob.held = <<>>
  /\ \A w \in Workloads :
       /\ [NoJob EXCEPT !.work = w] \in Job
       /\ [NoJob EXCEPT !.work = w].held = <<>>
       /\ Len(w.path) \in Nat /\ w.path \in Seq(NodeIds)
       /\ Len(w.path) >= 2 => Placed("check", [NoJob EXCEPT !.work = w])
<1>1. NoJob \in Job /\ NoJob.held = <<>>
  BY DEF NoJob, Job
<1>2. ASSUME NEW w \in Workloads
      PROVE  /\ [NoJob EXCEPT !.work = w] \in Job
             /\ [NoJob EXCEPT !.work = w].held = <<>>
             /\ Len(w.path) \in Nat /\ w.path \in Seq(NodeIds)
             /\ Len(w.path) >= 2 => Placed("check", [NoJob EXCEPT !.work = w])
  <2>1. w \in Workload
    BY NetworkAssumption
  <2>2. Len(w.path) \in Nat /\ w.path \in Seq(NodeIds)
    BY <2>1 DEF Workload
  <2> DEFINE j == [NoJob EXCEPT !.work = w]
  <2>3. /\ j.work = w /\ j.hop = 1 /\ j.legs = <<>> /\ j.held = <<>>
        /\ j = [work |-> w, hop |-> 1, legs |-> <<>>, held |-> <<>>]
    BY DEF NoJob
  <2>4. [work |-> w, hop |-> 1, legs |-> <<>>, held |-> <<>>] \in Job
    BY DEF Job
  <2> HIDE DEF j
  <2>5. Len(w.path) >= 2 => Placed("check", j)
    BY <2>2, <2>3 DEF Placed, Under
  <2>6. j \in Job /\ j.held = <<>>
    BY <2>3, <2>4
  <2> QED
    BY <2>2, <2>5, <2>6 DEF j
<1> QED
  BY <1>1, <1>2

(* A step of one thread to a place and a job that fit keeps every thread   *)
(* placed.                                                                 *)
LEMMA GotoPlaced ==
  ASSUME TypeInv, NEW c \in Callers, NEW l \in Labels, NEW j \in Job,
         Placed(l, j), Goto(c, l, j)
  PROVE  /\ pc' \in [Callers -> Labels] /\ job' \in [Callers -> Job]
         /\ \A d \in Callers : Placed(pc'[d], job'[d])
         /\ pc'[c] = l /\ job'[c] = j
         /\ \A d \in Callers \ {c} : pc'[d] = pc[d] /\ job'[d] = job[d]
<1>1. pc' = [pc EXCEPT ![c] = l] /\ job' = [job EXCEPT ![c] = j]
  BY DEF Goto
<1>2. pc \in [Callers -> Labels] /\ job \in [Callers -> Job]
  BY DEF TypeInv, TypeOK, Labels
<1>3. \A d \in Callers \ {c} : pc'[d] = pc[d] /\ job'[d] = job[d]
  BY <1>1, <1>2
<1>4. pc'[c] = l /\ job'[c] = j
  BY <1>1, <1>2
<1>5. \A d \in Callers : Placed(pc'[d], job'[d])
  BY <1>3, <1>4 DEF TypeInv
<1> QED
  BY <1>1, <1>2, <1>3, <1>4, <1>5

(* An answer takes the workload along and leaves the thread idle.          *)
LEMMA AnswerTyped ==
  ASSUME TypeInv, NEW c \in Callers, NEW s \in {"COMPLETED", "BLOCKED"}, Answer(c, s)
  PROVE  /\ pc' \in [Callers -> Labels] /\ job' \in [Callers -> Job]
         /\ \A d \in Callers : Placed(pc'[d], job'[d])
         /\ results' \in Seq([status : {"COMPLETED", "BLOCKED"}, job : Job])
         /\ job'[c] = NoJob /\ \A d \in Callers \ {c} : job'[d] = job[d]
<1>1. Placed("idle", NoJob) /\ "idle" \in Labels
  BY DEF Placed, Labels
<1>2. [status |-> s, job |-> job[c]] \in [status : {"COMPLETED", "BLOCKED"}, job : Job]
  BY DEF TypeInv, TypeOK
<1>3. results' \in Seq([status : {"COMPLETED", "BLOCKED"}, job : Job])
  BY <1>2, AppendProperties DEF Answer, TypeInv, TypeOK
<1> QED
  BY <1>1, <1>3, NoJobTyped, GotoPlaced DEF Answer

(* The hop a thread is at joins two nodes.                                 *)
LEMMA HopTyped ==
  ASSUME TypeInv, NEW c \in Callers, pc[c] # "idle"
  PROVE  /\ job[c] \in Job /\ Under(pc[c], job[c])
         /\ job[c].work \in Workload /\ job[c].work.path \in Seq(NodeIds)
         /\ Len(job[c].work.path) \in Nat /\ Hops(job[c].work) \in Nat
         /\ job[c].hop \in Nat /\ job[c].legs \in Seq(Route) /\ job[c].held \in Seq(PairIds)
         /\ pc[c] \in {"route", "store", "reserve"} =>
              /\ job[c].work.path[job[c].hop] \in NodeIds
              /\ job[c].work.path[job[c].hop + 1] \in NodeIds
<1>1. job[c] \in Job /\ Under(pc[c], job[c])
  BY DEF TypeInv, TypeOK, Placed
<1>2. job[c].work \in Workload
  BY <1>1, NetworkAssumption DEF Under
<1>3. /\ job[c].work.path \in Seq(NodeIds) /\ Len(job[c].work.path) \in Nat
      /\ job[c].hop \in Nat /\ job[c].legs \in Seq(Route) /\ job[c].held \in Seq(PairIds)
  BY <1>1, <1>2 DEF Workload, Job
<1>4. Hops(job[c].work) \in Nat
  BY <1>1, <1>3 DEF Under, Hops
<1>5. pc[c] \in {"route", "store", "reserve"} =>
        /\ job[c].work.path[job[c].hop] \in NodeIds
        /\ job[c].work.path[job[c].hop + 1] \in NodeIds
  <2> SUFFICES ASSUME pc[c] \in {"route", "store", "reserve"}
               PROVE  /\ job[c].work.path[job[c].hop] \in NodeIds
                      /\ job[c].work.path[job[c].hop + 1] \in NodeIds
    OBVIOUS
  <2>1. job[c].hop >= 1 /\ job[c].hop <= Len(job[c].work.path) - 1
    BY <1>1 DEF Under, Hops
  <2> DEFINE path == job[c].work.path
             len == Len(path)
             h == job[c].hop
  <2>2. path \in Seq(NodeIds) /\ len \in Nat /\ h \in Nat /\ h >= 1 /\ h <= len - 1
    BY <1>3, <2>1
  <2> HIDE DEF h, len
  <2>3. h \in 1..len /\ h + 1 \in 1..len
    BY <2>2
  <2> HIDE DEF path
  <2>4. path[h] \in NodeIds /\ path[h + 1] \in NodeIds
    BY <2>2, <2>3 DEF len
  <2> QED
    BY <2>4 DEF path, h
<1> QED
  BY <1>1, <1>2, <1>3, <1>4, <1>5

LEMMA InitTyped == Init => TypeInv
<1> SUFFICES ASSUME Init PROVE TypeInv
  OBVIOUS
<1>1. TypeOK
  BY NetworkAssumption, NoJobTyped DEF Init, TypeOK
<1>2. \A c \in Callers : Placed(pc[c], job[c])
  BY DEF Init, Placed
<1> QED
  BY <1>1, <1>2 DEF TypeInv

(* The pool keeps its type and bound, and the ends and order of its pairs. *)
LEMMA PoolTyped ==
  ASSUME TypeInv,
         \/ \E ends \in Links, f \in Fidelities : GeneratePair(ends, f)
         \/ Decohere
         \/ \E min \in Fidelities : Purge(min)
  PROVE  TypeInv'
<1>1. Level \subseteq Nat
  BY NetworkAssumption DEF Level
<1>2. UNCHANGED <<nodes, routes, declares, pc, job, results>>
  BY DEF GeneratePair, Decohere, Purge
<1>3. pairs \in Seq(Pair) /\ Len(pairs) <= MaxPairs /\ Len(pairs) \in Nat
      /\ DOMAIN pairs = 1..Len(pairs)
  BY DEF TypeInv, TypeOK
<1>4. pairs' \in Seq(Pair) /\ Len(pairs') <= MaxPairs
  <2>1. ASSUME NEW ends \in Links, NEW f \in Fidelities, GeneratePair(ends, f)
        PROVE  pairs' \in Seq(Pair) /\ Len(pairs') <= MaxPairs
    <3>1. f \in Level /\ ends \in NodeIds \X NodeIds
      BY NetworkAssumption DEF Level
    <3>2. [ends |-> ends, level |-> f, state |-> "free"] \in Pair
      BY <3>1 DEF Pair
    <3> QED
      BY <1>3, <2>1, <3>2, AppendProperties, NetworkAssumption DEF GeneratePair
  <2>2. CASE Decohere
    <3>1. ASSUME NEW p \in DOMAIN pairs, pairs[p].level > 0
          PROVE  [pairs[p] EXCEPT !.level = @ - 1] \in Pair
      <4>1. pairs[p] \in Pair
        BY <1>3
      <4>2. PICK f \in Fidelities : pairs[p].level \in 0..f
        BY <4>1 DEF Pair, Level
      <4>3. pairs[p].level - 1 \in 0..f
        BY <3>1, <4>2, NetworkAssumption
      <4>4. pairs[p].level - 1 \in Level
        BY <4>3 DEF Level
      <4> QED
        BY <4>1, <4>4 DEF Pair
    <3> QED
      BY <1>3, <2>2, <3>1 DEF Decohere
  <2>3. ASSUME NEW min \in Fidelities, Purge(min)
        PROVE  pairs' \in Seq(Pair) /\ Len(pairs') <= MaxPairs
    <3>1. 0 \in Level
      BY NetworkAssumption DEF Level
    <3>2. ASSUME NEW p \in 1..Len(pairs)
          PROVE  [ends |-> pairs[p].ends, level |-> 0, state |-> "purged"] \in Pair
      <4>1. pairs[p] \in Pair
        BY <1>3
      <4>2. pairs[p].ends \in NodeIds \X NodeIds
        BY <4>1, Zenon DEF Pair
      <4> DEFINE e == pairs[p].ends
      <4> HIDE DEF e
      <4>3. e \in NodeIds \X NodeIds
        BY <4>2 DEF e
      <4>4. [ends |-> e, level |-> 0, state |-> "purged"] \in Pair
        BY <3>1, <4>3 DEF Pair
      <4> QED
        BY <4>4 DEF e
    <3>3. pairs' = [p \in 1..Len(pairs) |->
                      IF Stale(p, min) THEN [ends |-> pairs[p].ends, level |-> 0, state |-> "purged"]
                      ELSE pairs[p]]
      BY <1>3, <2>3 DEF Purge
    <3>4. \A p \in 1..Len(pairs) : pairs[p] \in Pair
      BY <1>3
    <3>5. pairs' \in [1..Len(pairs) -> Pair]
      BY <3>2, <3>3, <3>4
    <3>6. pairs' \in Seq(Pair) /\ Len(pairs') = Len(pairs)
      BY <1>3, <3>5
    <3> QED
      BY <1>3, <3>6
  <2> QED
    BY <2>1, <2>2, <2>3
<1> QED
  BY <1>2, <1>4 DEF TypeInv, TypeOK

LEMMA BeginTyped ==
  ASSUME TypeInv, NEW c \in Callers, NEW w \in Workloads, Begin(c, w)
  PROVE  TypeInv'
<1>1. CASE Len(w.path) < 2
  <2>1. [status |-> "BLOCKED", job |-> [NoJob EXCEPT !.work = w]]
          \in [status : {"COMPLETED", "BLOCKED"}, job : Job]
    BY NoJobTyped
  <2>2. results' = Append(results, [status |-> "BLOCKED", job |-> [NoJob EXCEPT !.work = w]])
    BY <1>1 DEF Begin
  <2>4. results \in Seq([status : {"COMPLETED", "BLOCKED"}, job : Job])
    BY DEF TypeInv, TypeOK
  <2>5. results' \in Seq([status : {"COMPLETED", "BLOCKED"}, job : Job])
    BY <2>1, <2>2, <2>4, AppendProperties
  <2>3. UNCHANGED <<shared, pc, job>>
    BY <1>1 DEF Begin
  <2> QED
    BY <2>3, <2>5 DEF TypeInv, TypeOK, shared
<1>2. CASE ~(Len(w.path) < 2)
  <2>1. Goto(c, "check", [NoJob EXCEPT !.work = w]) /\ UNCHANGED <<shared, results>>
    BY <1>2 DEF Begin
  <2>2. /\ [NoJob EXCEPT !.work = w] \in Job
        /\ Placed("check", [NoJob EXCEPT !.work = w]) /\ "check" \in Labels
    BY <1>2, NoJobTyped DEF Labels
  <2>3. /\ pc' \in [Callers -> Labels] /\ job' \in [Callers -> Job]
        /\ \A d \in Callers : Placed(pc'[d], job'[d])
    BY <2>1, <2>2, GotoPlaced
  <2> QED
    BY <2>1, <2>3 DEF TypeInv, TypeOK, shared, Labels
<1> QED
  BY <1>1, <1>2

(* What the places of a thread's step give for the whole state.            *)
LEMMA StepTyped ==
  ASSUME TypeInv, NEW c \in Callers, UNCHANGED <<nodes, declares>>,
         routes' \subseteq Route, pairs' \in Seq(Pair), Len(pairs') = Len(pairs),
         \/ \E s \in {"COMPLETED", "BLOCKED"} : Answer(c, s)
         \/ \E l \in Labels, j \in Job : Placed(l, j) /\ Goto(c, l, j) /\ UNCHANGED results
  PROVE  TypeInv'
<1>1. /\ pc' \in [Callers -> Labels] /\ job' \in [Callers -> Job]
      /\ \A d \in Callers : Placed(pc'[d], job'[d])
      /\ results' \in Seq([status : {"COMPLETED", "BLOCKED"}, job : Job])
  <2>1. ASSUME NEW s \in {"COMPLETED", "BLOCKED"}, Answer(c, s) PROVE  <1>1!:
    BY <2>1, AnswerTyped
  <2>2. ASSUME NEW l \in Labels, NEW j \in Job, Placed(l, j), Goto(c, l, j), UNCHANGED results
        PROVE  <1>1!:
    BY <2>2, GotoPlaced DEF TypeInv, TypeOK
  <2> QED
    BY <2>1, <2>2
<1> QED
  BY <1>1 DEF TypeInv, TypeOK, Labels

LEMMA JobChanged ==
  ASSUME NEW j \in Job
  PROVE  /\ \A h \in Nat :
              LET k == [j EXCEPT !.hop = h]
              IN  /\ k \in Job /\ k.work = j.work /\ k.hop = h
                  /\ k.legs = j.legs /\ k.held = j.held
         /\ \A r \in Route :
              LET k == [j EXCEPT !.legs = Append(@, r)]
              IN  /\ k \in Job /\ k.work = j.work /\ k.hop = j.hop
                  /\ k.legs = Append(j.legs, r) /\ k.held = j.held
         /\ \A p \in PairIds :
              LET k == [j EXCEPT !.held = Append(@, p)]
              IN  /\ k \in Job /\ k.work = j.work /\ k.hop = j.hop
                  /\ k.legs = j.legs /\ k.held = Append(j.held, p)
<1>1. /\ j.legs \in Seq(Route) /\ j.held \in Seq(PairIds)
      /\ j.work \in Workloads \union {NoWorkload} /\ j.hop \in Nat
      /\ j = [work |-> j.work, hop |-> j.hop, legs |-> j.legs, held |-> j.held]
  BY DEF Job
<1>2. ASSUME NEW h \in Nat
      PROVE  LET k == [j EXCEPT !.hop = h]
             IN  /\ k \in Job /\ k.work = j.work /\ k.hop = h
                 /\ k.legs = j.legs /\ k.held = j.held
  BY <1>1 DEF Job
<1>3. ASSUME NEW r \in Route
      PROVE  LET k == [j EXCEPT !.legs = Append(@, r)]
             IN  /\ k \in Job /\ k.work = j.work /\ k.hop = j.hop
                 /\ k.legs = Append(j.legs, r) /\ k.held = j.held
  <2>1. Append(j.legs, r) \in Seq(Route)
    BY <1>1, AppendProperties
  <2> QED
    BY <1>1, <2>1 DEF Job
<1>4. ASSUME NEW p \in PairIds
      PROVE  LET k == [j EXCEPT !.held = Append(@, p)]
             IN  /\ k \in Job /\ k.work = j.work /\ k.hop = j.hop
                 /\ k.legs = j.legs /\ k.held = Append(j.held, p)
  <2>1. Append(j.held, p) \in Seq(PairIds)
    BY <1>1, AppendProperties
  <2> QED
    BY <1>1, <2>1 DEF Job
<1> QED
  BY <1>2, <1>3, <1>4

(* Each step of a workload either answers or goes to a place that fits.    *)
LEMMA CheckTyped ==
  ASSUME TypeInv, NEW c \in Callers, CheckNode(c)
  PROVE  TypeInv'
<1>1. /\ pc[c] = "check" /\ UNCHANGED shared
      /\ \/ Answer(c, "BLOCKED")
         \/ Advance(c, Len(job[c].work.path), "route") /\ UNCHANGED results
  BY DEF CheckNode
<1>2. /\ job[c] \in Job /\ Under("check", job[c])
      /\ Len(job[c].work.path) \in Nat /\ job[c].hop \in Nat
  BY <1>1, HopTyped
<1>3. ASSUME Advance(c, Len(job[c].work.path), "route"), UNCHANGED results
      PROVE  \E l \in Labels, j \in Job : Placed(l, j) /\ Goto(c, l, j) /\ UNCHANGED results
  <2>1. CASE job[c].hop < Len(job[c].work.path)
    <3> DEFINE h == job[c].hop + 1
               j == [job[c] EXCEPT !.hop = h]
    <3>2. Goto(c, "check", j)
      BY <1>1, <1>3, <2>1 DEF Advance
    <3>0. h \in Nat /\ h = job[c].hop + 1
      BY <1>2
    <3> HIDE DEF h
    <3>1. /\ j \in Job /\ j.work = job[c].work /\ j.hop = h
          /\ j.legs = job[c].legs /\ j.held = job[c].held
      BY <1>2, <3>0, JobChanged
    <3> HIDE DEF j
    <3>3. Placed("check", j) /\ "check" \in Labels
      BY <1>2, <2>1, <3>0, <3>1 DEF Placed, Under, Labels, Leg
    <3> QED
      BY <1>3, <3>1, <3>2, <3>3
  <2>2. CASE ~(job[c].hop < Len(job[c].work.path))
    <3> DEFINE j == [job[c] EXCEPT !.hop = 1]
    <3>1. /\ j \in Job /\ j.work = job[c].work /\ j.hop = 1
          /\ j.legs = job[c].legs /\ j.held = job[c].held
      BY <1>2, JobChanged
    <3>2. Goto(c, "route", j)
      BY <1>3, <2>2 DEF Advance
    <3> HIDE DEF j
    <3>3. Placed("route", j) /\ "route" \in Labels
      BY <1>2, <3>1 DEF Placed, Under, Labels, Leg, Hops
    <3> QED
      BY <1>3, <3>1, <3>2, <3>3
  <2> QED
    BY <2>1, <2>2
<1> QED
  <2>1. routes' \subseteq Route /\ pairs' \in Seq(Pair) /\ Len(pairs') = Len(pairs)
    BY <1>1 DEF shared, TypeInv, TypeOK
  <2>2. UNCHANGED <<nodes, declares>>
    BY <1>1 DEF shared
  <2> QED
    BY <1>1, <1>3, <2>1, <2>2, StepTyped

LEMMA RouteForTyped ==
  ASSUME NEW w \in Workload, NEW a \in NodeIds, NEW b \in NodeIds
  PROVE  /\ RouteFor(w, a, b) \in Route
         /\ RouteFor(w, a, b).from = a /\ RouteFor(w, a, b).to = b
<1>1. w.protocol \in Protocols /\ "CLASSICAL_CONTROL" \in Protocols
  BY DEF Workload, Protocols
<1>2. RouteStatus(nodes[a], nodes[b]) \in RouteStatuses /\ "LOCAL" \in RouteStatuses
  BY DEF RouteStatus, RouteStatuses
<1> HIDE DEF Protocols
<1>3. CASE Speaks(w.protocol, nodes[a], nodes[b])
  BY <1>1, <1>2, <1>3 DEF RouteFor, Route
<1>4. CASE ~Speaks(w.protocol, nodes[a], nodes[b])
  BY <1>1, <1>2, <1>4 DEF RouteFor, Route
<1> QED
  BY <1>3, <1>4

LEMMA NegotiateTyped ==
  ASSUME TypeInv, NEW c \in Callers, NegotiateRoute(c)
  PROVE  TypeInv'
<1> DEFINE w == job[c].work
           a == w.path[job[c].hop]
           b == w.path[job[c].hop + 1]
           r == RouteFor(w, a, b)
           j == [job[c] EXCEPT !.legs = Append(job[c].legs, r)]
<1>1. /\ pc[c] = "route" /\ UNCHANGED shared
      /\ \/ Answer(c, "BLOCKED")
         \/ Goto(c, "store", j) /\ UNCHANGED results
  BY DEF NegotiateRoute
<1>2. /\ job[c] \in Job /\ Under("route", job[c]) /\ w \in Workload
      /\ job[c].hop \in Nat /\ job[c].legs \in Seq(Route) /\ Hops(w) \in Nat
      /\ a \in NodeIds /\ b \in NodeIds
  BY <1>1, HopTyped
<1>3. r \in Route /\ r.from = a /\ r.to = b
  BY <1>2, RouteForTyped
<1> HIDE DEF r
<1>4. /\ j \in Job /\ j.work = w /\ j.hop = job[c].hop
      /\ j.legs = Append(job[c].legs, r) /\ j.held = job[c].held
  BY <1>2, <1>3, JobChanged
<1> HIDE DEF j
<1>5. Placed("store", j)
  <2>0. Len(job[c].legs) + 1 = job[c].hop
    BY <1>2 DEF Under
  <2> DEFINE legs == job[c].legs
  <2>9. /\ Len(Append(legs, r)) = Len(legs) + 1
        /\ \A i \in DOMAIN Append(legs, r) :
             \/ i \in DOMAIN legs /\ Append(legs, r)[i] = legs[i]
             \/ i = Len(legs) + 1 /\ Append(legs, r)[i] = r
    <3>1. legs \in Seq(Route)
      BY <1>2
    <3> HIDE DEF legs
    <3> QED
      BY <1>3, <3>1
  <2>1. /\ Len(j.legs) = Len(job[c].legs) + 1
        /\ \A i \in DOMAIN j.legs :
             \/ i \in DOMAIN job[c].legs /\ j.legs[i] = job[c].legs[i]
             \/ i = job[c].hop /\ i = Len(j.legs) /\ j.legs[i] = r
    BY <1>4, <2>0, <2>9
  <2>2. \A i \in DOMAIN job[c].legs :
          Leg(job[c], i) /\ job[c].legs[i].status # "BLOCKED"
    BY <1>2 DEF Under
  <2>3. \A i \in DOMAIN j.legs :
          Leg(j, i) /\ (j.legs[i].status = "BLOCKED" => i = Len(j.legs))
    BY <1>3, <1>4, <2>1, <2>2 DEF Leg
  <2> QED
    BY <1>2, <1>4, <2>1, <2>3 DEF Placed, Under
<1>6. routes' \subseteq Route /\ pairs' \in Seq(Pair) /\ Len(pairs') = Len(pairs)
      /\ UNCHANGED <<nodes, declares>>
  BY <1>1 DEF shared, TypeInv, TypeOK
<1>7. "store" \in Labels
  BY DEF Labels
<1> QED
  BY <1>1, <1>4, <1>5, <1>6, <1>7, StepTyped

LEMMA StoreTyped ==
  ASSUME TypeInv, NEW c \in Callers, StoreRoute(c)
  PROVE  TypeInv'
<1> DEFINE r == job[c].legs[Len(job[c].legs)]
<1>1. pc[c] = "store" /\ routes' = routes \union {r} /\ UNCHANGED <<nodes, pairs, declares>>
  BY DEF StoreRoute
<1>2. /\ job[c] \in Job /\ Under("store", job[c])
      /\ job[c].hop \in Nat /\ job[c].legs \in Seq(Route) /\ Hops(job[c].work) \in Nat
      /\ job[c].work.path \in Seq(NodeIds) /\ Len(job[c].work.path) \in Nat
  BY <1>1, HopTyped
<1>3. r \in Route
  <2>1. Len(job[c].legs) \in 1..Len(job[c].legs)
    BY <1>2 DEF Under
  <2> QED
    BY <1>2, <2>1
<1>4. routes' \subseteq Route /\ pairs' \in Seq(Pair) /\ Len(pairs') = Len(pairs)
  BY <1>1, <1>3 DEF TypeInv, TypeOK
<1>5. CASE r.status = "BLOCKED"
  BY <1>1, <1>4, <1>5, StepTyped DEF StoreRoute
<1>6. CASE r.status # "BLOCKED"
  <2>1. \A i \in DOMAIN job[c].legs : Leg(job[c], i) /\ job[c].legs[i].status # "BLOCKED"
    BY <1>2, <1>6 DEF Under
  <2>2. CASE job[c].hop < Hops(job[c].work)
    <3> DEFINE h == job[c].hop + 1
               j == [job[c] EXCEPT !.hop = h]
    <3>1. Goto(c, "route", j) /\ UNCHANGED results
      BY <1>6, <2>2 DEF StoreRoute
    <3>2. h \in Nat /\ h = job[c].hop + 1
      BY <1>2
    <3> HIDE DEF h
    <3>3. /\ j \in Job /\ j.work = job[c].work /\ j.hop = h
          /\ j.legs = job[c].legs /\ j.held = job[c].held
      BY <1>2, <3>2, JobChanged
    <3> HIDE DEF j
    <3>4. Placed("route", j) /\ "route" \in Labels
      BY <1>2, <2>1, <2>2, <3>2, <3>3 DEF Placed, Under, Labels, Leg
    <3> QED
      BY <1>1, <1>4, <3>1, <3>3, <3>4, StepTyped
  <2>3. CASE ~(job[c].hop < Hops(job[c].work))
    <3> DEFINE j == [job[c] EXCEPT !.hop = 1]
    <3>1. Goto(c, "latency", j) /\ UNCHANGED results
      BY <1>6, <2>3 DEF StoreRoute
    <3>3. /\ j \in Job /\ j.work = job[c].work /\ j.hop = 1
          /\ j.legs = job[c].legs /\ j.held = job[c].held
      BY <1>2, JobChanged
    <3> HIDE DEF j
    <3>4. Placed("latency", j) /\ "latency" \in Labels
      BY <1>2, <2>1, <2>3, <3>3 DEF Placed, Under, Labels, Leg
    <3> QED
      BY <1>1, <1>4, <3>1, <3>3, <3>4, StepTyped
  <2> QED
    BY <2>2, <2>3
<1> QED
  BY <1>5, <1>6

LEMMA LatencyTyped ==
  ASSUME TypeInv, NEW c \in Callers, CheckLatency(c)
  PROVE  TypeInv'
<1> DEFINE next == IF job[c].work.protocol \in Entangling THEN "reserve" ELSE "done"
<1>1. /\ pc[c] = "latency" /\ UNCHANGED shared
      /\ \/ Answer(c, "BLOCKED")
         \/ Goto(c, next, job[c]) /\ UNCHANGED results
  BY DEF CheckLatency
<1>2. /\ job[c] \in Job /\ Under("latency", job[c])
      /\ job[c].work.path \in Seq(NodeIds) /\ Len(job[c].work.path) \in Nat
  BY <1>1, HopTyped
<1>3. Placed(next, job[c]) /\ next \in Labels
  BY <1>2 DEF Placed, Under, Labels, Hops, Leg
<1>4. routes' \subseteq Route /\ pairs' \in Seq(Pair) /\ Len(pairs') = Len(pairs)
      /\ UNCHANGED <<nodes, declares>>
  BY <1>1 DEF shared, TypeInv, TypeOK
<1> QED
  BY <1>1, <1>2, <1>3, <1>4, StepTyped

(* What a reservation takes, and where it leads.                           *)
Free(c) == Candidates(job[c].work.path[job[c].hop], job[c].work.path[job[c].hop + 1],
                      job[c].work.minFidelity)

Took(c, p, j) ==
  /\ pc[c] = "reserve" /\ p \in Free(c)
  /\ pairs' = [pairs EXCEPT ![p].state = "consumed"]
  /\ j \in Job /\ j.work = job[c].work /\ j.legs = job[c].legs
  /\ j.held = Append(job[c].held, p)
  /\ \E l \in {"reserve", "done"} : Placed(l, j) /\ Goto(c, l, j)
  /\ UNCHANGED results

LEMMA ReserveTakes ==
  ASSUME TypeInv, NEW c \in Callers, ReservePair(c)
  PROVE  \/ \E p \in PairIds, j \in Job : Took(c, p, j)
         \/ /\ UNCHANGED pairs
            /\ Free(c) = {}
            /\ \/ Answer(c, "BLOCKED")
               \/ Placed("done", job[c]) /\ Goto(c, "done", job[c]) /\ UNCHANGED results
<1> DEFINE p == Best(Free(c))
           k == [job[c] EXCEPT !.held = Append(job[c].held, p)]
<1>1. pc[c] = "reserve"
  BY DEF ReservePair
<1>2. /\ job[c] \in Job /\ Under("reserve", job[c])
      /\ job[c].hop \in Nat /\ job[c].held \in Seq(PairIds) /\ Hops(job[c].work) \in Nat
      /\ job[c].work.path \in Seq(NodeIds) /\ Len(job[c].work.path) \in Nat
  BY <1>1, HopTyped
<1>3. CASE Free(c) # {}
  <2>1. p \in Free(c)
    <3>1. Free(c) \in SUBSET DOMAIN pairs
      BY DEF Free, Candidates
    <3> QED
      BY <1>3, <3>1, BestIsIn DEF TypeInv
  <2>2. p \in PairIds
    <3>1. p \in DOMAIN pairs
      BY <2>1 DEF Free, Candidates
    <3> HIDE DEF p
    <3>2. DOMAIN pairs = 1..Len(pairs) /\ Len(pairs) \in Nat /\ Len(pairs) <= MaxPairs
      BY DEF TypeInv, TypeOK
    <3> QED
      BY <3>1, <3>2, NetworkAssumption DEF PairIds
  <2>3. /\ pairs' = [pairs EXCEPT ![p].state = "consumed"]
        /\ IF k.hop < Hops(job[c].work) THEN Goto(c, "reserve", [k EXCEPT !.hop = k.hop + 1])
           ELSE Goto(c, "done", k)
        /\ UNCHANGED results
    BY <1>3 DEF ReservePair, Free
  <2> HIDE DEF p
  <2>4. /\ k \in Job /\ k.work = job[c].work /\ k.hop = job[c].hop
        /\ k.legs = job[c].legs /\ k.held = Append(job[c].held, p)
    BY <1>2, <2>2, JobChanged
  <2> HIDE DEF k
  <2>5. Len(k.held) = Len(job[c].held) + 1
    BY <1>2, <2>2, <2>4
  <2>6. CASE k.hop < Hops(job[c].work)
    <3> DEFINE h == k.hop + 1
               j == [k EXCEPT !.hop = h]
    <3>1. h \in Nat /\ h = k.hop + 1
      BY <1>2, <2>4
    <3>2. Goto(c, "reserve", j)
      BY <2>3, <2>6
    <3> HIDE DEF h
    <3>3. /\ j \in Job /\ j.work = k.work /\ j.hop = h
          /\ j.legs = k.legs /\ j.held = k.held
      BY <2>4, <3>1, JobChanged
    <3> HIDE DEF j
    <3>4. Placed("reserve", j)
      <4>1. /\ j.work = job[c].work /\ j.legs = job[c].legs /\ j.hop = job[c].hop + 1
            /\ Len(j.held) = Len(job[c].held) + 1 /\ job[c].hop < Hops(j.work)
        BY <2>4, <2>5, <2>6, <3>1, <3>3
      <4>2. /\ j.work \in Workloads /\ Len(j.work.path) >= 2 /\ job[c].hop >= 1
            /\ Len(j.legs) = Hops(j.work) /\ Len(job[c].held) = job[c].hop - 1
        BY <1>2, <4>1 DEF Under
      <4>3. \A i \in DOMAIN j.legs : Leg(j, i) /\ j.legs[i].status # "BLOCKED"
        BY <1>2, <4>1 DEF Under, Leg
      <4>4. j.hop >= 1 /\ j.hop <= Hops(j.work) /\ Len(j.held) = j.hop - 1
        BY <1>2, <4>1, <4>2
      <4> QED
        BY <4>2, <4>3, <4>4 DEF Placed, Under
    <3> QED
      BY <1>1, <2>1, <2>2, <2>3, <2>4, <3>2, <3>3, <3>4 DEF Took
  <2>7. CASE ~(k.hop < Hops(job[c].work))
    <3>1. Goto(c, "done", k)
      BY <2>3, <2>7
    <3>2. Placed("done", k)
      BY <1>2, <2>4, <2>5, <2>7 DEF Placed, Under, Leg
    <3> QED
      BY <1>1, <2>1, <2>2, <2>3, <2>4, <3>1, <3>2 DEF Took
  <2> QED
    BY <2>6, <2>7
<1>4. CASE Free(c) = {}
  <2>1. /\ UNCHANGED pairs
        /\ IF job[c].work.fallback THEN Goto(c, "done", job[c]) /\ UNCHANGED results
           ELSE Answer(c, "BLOCKED")
    BY <1>4 DEF ReservePair, Free
  <2>2. CASE job[c].work.fallback
    <3>1. Placed("done", job[c])
      BY <1>2, <2>2 DEF Placed, Under, Leg
    <3> QED
      BY <1>4, <2>1, <2>2, <3>1
  <2> QED
    BY <1>4, <2>1, <2>2
<1> QED
  BY <1>3, <1>4

(* A reserved pair keeps its ends and level.                               *)
LEMMA TookPair ==
  ASSUME TypeInv, NEW c \in Callers, NEW p \in PairIds, NEW j \in Job, Took(c, p, j)
  PROVE  /\ pairs' \in Seq(Pair) /\ Len(pairs') = Len(pairs) /\ DOMAIN pairs' = DOMAIN pairs
         /\ p \in DOMAIN pairs /\ pairs[p].state = "free" /\ pairs'[p].state = "consumed"
         /\ \A q \in DOMAIN pairs : pairs'[q].ends = pairs[q].ends
         /\ \A q \in DOMAIN pairs \ {p} : pairs'[q] = pairs[q]
<1>1. /\ p \in DOMAIN pairs /\ pairs[p].state = "free"
      /\ pairs' = [pairs EXCEPT ![p].state = "consumed"]
  BY DEF Took, Free, Candidates
<1>2. pairs \in Seq(Pair) /\ pairs[p] \in Pair
  BY <1>1 DEF TypeInv, TypeOK
<1> DEFINE x == [pairs[p] EXCEPT !.state = "consumed"]
<1>3. x \in Pair /\ x.state = "consumed" /\ x.ends = pairs[p].ends
  BY <1>2 DEF Pair
<1> HIDE DEF x
<1>4. pairs' = [pairs EXCEPT ![p] = x]
  BY <1>1 DEF x
<1>5. pairs' \in Seq(Pair) /\ Len(pairs') = Len(pairs)
  BY <1>1, <1>2, <1>3, <1>4, ExceptSeq
<1>6. DOMAIN pairs' = DOMAIN pairs
  BY <1>4
<1>7. pairs'[p] = x /\ \A q \in DOMAIN pairs \ {p} : pairs'[q] = pairs[q]
  BY <1>1, <1>4
<1> QED
  BY <1>1, <1>3, <1>5, <1>6, <1>7

LEMMA ReserveTyped ==
  ASSUME TypeInv, NEW c \in Callers, ReservePair(c)
  PROVE  TypeInv'
<1>1. UNCHANGED <<nodes, routes, declares>> /\ routes' \subseteq Route
  BY DEF ReservePair, TypeInv, TypeOK
<1>2. {"reserve", "done"} \subseteq Labels /\ job[c] \in Job
  BY DEF Labels, TypeInv, TypeOK
<1>3. ASSUME NEW p \in PairIds, NEW j \in Job, Took(c, p, j)
      PROVE  TypeInv'
  <2>1. \E l \in Labels : Placed(l, j) /\ Goto(c, l, j) /\ UNCHANGED results
    BY <1>2, <1>3 DEF Took
  <2> QED
    BY <1>1, <1>3, <2>1, TookPair, StepTyped
<1>4. CASE UNCHANGED pairs /\ Answer(c, "BLOCKED")
  <2>1. pairs' \in Seq(Pair) /\ Len(pairs') = Len(pairs)
    BY <1>4 DEF TypeInv, TypeOK
  <2> QED
    BY <1>1, <1>4, <2>1, StepTyped
<1>5. CASE /\ UNCHANGED pairs
           /\ Placed("done", job[c]) /\ Goto(c, "done", job[c]) /\ UNCHANGED results
  <2>1. pairs' \in Seq(Pair) /\ Len(pairs') = Len(pairs)
    BY <1>5 DEF TypeInv, TypeOK
  <2> QED
    BY <1>1, <1>2, <1>5, <2>1, StepTyped
<1> QED
  BY <1>3, <1>4, <1>5, ReserveTakes

LEMMA TypeStep == TypeInv /\ [Next]_vars => TypeInv'
<1> SUFFICES ASSUME TypeInv, [Next]_vars PROVE TypeInv'
  OBVIOUS
<1>1. ASSUME NEW n \in NodeIds, NEW d \in Declarations, DeclareNode(n, d)
      PROVE  TypeInv'
  <2>1. nodes' \in [NodeIds -> MaybeNode]
    BY <1>1, NetworkAssumption DEF DeclareNode, TypeInv, TypeOK, MaybeNode
  <2>2. declares' \in 0..MaxDeclares
    BY <1>1, NetworkAssumption DEF DeclareNode, TypeInv, TypeOK
  <2> QED
    BY <1>1, <2>1, <2>2 DEF DeclareNode, TypeInv, TypeOK
<1>2. CASE \/ \E ends \in Links, f \in Fidelities : GeneratePair(ends, f)
           \/ Decohere
           \/ \E min \in Fidelities : Purge(min)
  BY <1>2, PoolTyped
<1>3. ASSUME NEW c \in Callers, NEW w \in Workloads, Begin(c, w) PROVE TypeInv'
  BY <1>3, BeginTyped
<1>4. ASSUME NEW c \in Callers, Complete(c) PROVE TypeInv'
  <2>1. /\ UNCHANGED shared /\ Answer(c, "COMPLETED") /\ routes' \subseteq Route
        /\ pairs' \in Seq(Pair) /\ Len(pairs') = Len(pairs)
    BY <1>4 DEF Complete, shared, TypeInv, TypeOK
  <2> QED
    BY <2>1, StepTyped DEF shared
<1>5. ASSUME NEW c \in Callers, Step(c) PROVE TypeInv'
  BY <1>4, <1>5, CheckTyped, NegotiateTyped, StoreTyped, LatencyTyped, ReserveTyped DEF Step
<1>6. CASE UNCHANGED vars
  BY <1>6 DEF vars, shared, TypeInv, TypeOK
<1> QED
  BY <1>1, <1>2, <1>3, <1>5, <1>6 DEF Next

(* Every state has its types: a thread never looks past the path it was    *)
(* given, and the pool never outgrows what was generated.                  *)
THEOREM TypeCorrect == Spec => []TypeOK
<1>1. TypeInv => TypeOK
  BY DEF TypeInv
<1> QED
  BY <1>1, InitTyped, TypeStep, PTL DEF Spec

-----------------------------------------------------------------------------
(* Seen from the pairs there are three kinds of step: a workload is        *)
(* answered, a pair is reserved, and every other step leaves what is held  *)
(* where it was and at most purges pairs or adds a free one.               *)
PairsKept ==
  /\ DOMAIN pairs \subseteq DOMAIN pairs'
  /\ \A p \in DOMAIN pairs :
       pairs'[p].ends = pairs[p].ends /\ pairs'[p].state \in {pairs[p].state, "purged"}
  /\ \A p \in DOMAIN pairs' \ DOMAIN pairs : pairs'[p].state = "free"

Quiet ==
  /\ PairsKept
  /\ \A c \in Callers :
       /\ job'[c].held = job[c].held
       /\ job'[c].held = <<>> \/ job'[c].work = job[c].work
  /\ \/ UNCHANGED results
     \/ \E w \in Workloads :
          results' = Append(results, [status |-> "BLOCKED", job |-> [NoJob EXCEPT !.work = w]])

Answered(c) ==
  /\ UNCHANGED pairs
  /\ \E s \in {"COMPLETED", "BLOCKED"} : Answer(c, s) /\ (s = "COMPLETED" => pc[c] = "done")

LEMMA PoolQuiet ==
  ASSUME TypeInv,
         \/ \E ends \in Links, f \in Fidelities : GeneratePair(ends, f)
         \/ Decohere
         \/ \E min \in Fidelities : Purge(min)
  PROVE  Quiet
<1>1. pairs \in Seq(Pair) /\ DOMAIN pairs = 1..Len(pairs) /\ Len(pairs) \in Nat
  BY DEF TypeInv, TypeOK
<1>2. UNCHANGED <<job, results>>
  BY DEF GeneratePair, Decohere, Purge
<1>3. PairsKept
  <2>1. ASSUME NEW ends \in Links, NEW f \in Fidelities, GeneratePair(ends, f)
        PROVE  PairsKept
    <3> DEFINE x == [ends |-> ends, level |-> f, state |-> "free"]
    <3>1. f \in Level /\ ends \in NodeIds \X NodeIds
      BY NetworkAssumption DEF Level
    <3>2. x \in Pair /\ x.state = "free"
      BY <3>1 DEF Pair
    <3>3. pairs' = Append(pairs, x)
      BY <2>1 DEF GeneratePair
    <3> HIDE DEF x
    <3>4. /\ DOMAIN pairs' = 1..(Len(pairs) + 1)
          /\ \A p \in 1..Len(pairs) : pairs'[p] = pairs[p]
          /\ pairs'[Len(pairs) + 1] = x
      BY <1>1, <3>2, <3>3
    <3>5. \A p \in DOMAIN pairs' \ DOMAIN pairs : p = Len(pairs) + 1
      BY <1>1, <3>4
    <3>6. DOMAIN pairs \subseteq DOMAIN pairs'
      BY <1>1, <3>4
    <3> QED
      BY <1>1, <3>2, <3>4, <3>5, <3>6 DEF PairsKept
  <2>2. CASE Decohere
    <3>1. PICK d \in DOMAIN pairs : pairs' = [pairs EXCEPT ![d].level = @ - 1]
      BY <2>2 DEF Decohere
    <3>2. ASSUME NEW p \in DOMAIN pairs
          PROVE  pairs'[p].ends = pairs[p].ends /\ pairs'[p].state = pairs[p].state
      <4>1. pairs[p] \in Pair
        BY <1>1
      <4> QED
        BY <1>1, <3>1, <4>1 DEF Pair
    <3>3. DOMAIN pairs' = DOMAIN pairs
      BY <1>1, <3>1
    <3> QED
      BY <3>2, <3>3 DEF PairsKept
  <2>3. ASSUME NEW min \in Fidelities, Purge(min) PROVE PairsKept
    <3>1. /\ DOMAIN pairs' = DOMAIN pairs
          /\ \A p \in DOMAIN pairs :
               pairs'[p] = IF Stale(p, min)
                           THEN [ends |-> pairs[p].ends, level |-> 0, state |-> "purged"]
                           ELSE pairs[p]
      BY <2>3 DEF Purge
    <3> QED
      BY <3>1 DEF PairsKept
  <2> QED
    BY <2>1, <2>2, <2>3
<1> QED
  BY <1>2, <1>3 DEF Quiet, TypeInv, TypeOK

LEMMA GotoQuiet ==
  ASSUME TypeInv, NEW c \in Callers, NEW l \in Labels, NEW j,
         Goto(c, l, j), j.held = job[c].held, j.held = <<>> \/ j.work = job[c].work,
         UNCHANGED <<pairs, results>>
  PROVE  Quiet
<1>1. job \in [Callers -> Job] /\ job' = [job EXCEPT ![c] = j]
  BY DEF TypeInv, TypeOK, Goto
<1>2. PairsKept
  BY DEF PairsKept
<1>3. ASSUME NEW d \in Callers
      PROVE  job'[d].held = job[d].held /\ (job'[d].held = <<>> \/ job'[d].work = job[d].work)
  BY <1>1
<1> QED
  BY <1>2, <1>3 DEF Quiet

LEMMA ThreeKinds ==
  ASSUME TypeInv, [Next]_vars
  PROVE  \/ Quiet
         \/ \E c \in Callers : Answered(c)
         \/ \E c \in Callers, p \in PairIds, j \in Job : Took(c, p, j)
<1>1. ASSUME NEW n \in NodeIds, NEW d \in Declarations, DeclareNode(n, d) PROVE Quiet
  BY <1>1 DEF DeclareNode, Quiet, PairsKept
<1>2. CASE \/ \E ends \in Links, f \in Fidelities : GeneratePair(ends, f)
           \/ Decohere
           \/ \E min \in Fidelities : Purge(min)
  BY <1>2, PoolQuiet
<1>3. ASSUME NEW c \in Callers, NEW w \in Workloads, Begin(c, w) PROVE Quiet
  <2>1. CASE Len(w.path) < 2
    <3>1. /\ UNCHANGED <<pairs, job>>
          /\ results' = Append(results, [status |-> "BLOCKED", job |-> [NoJob EXCEPT !.work = w]])
      BY <1>3, <2>1 DEF Begin, shared
    <3> QED
      BY <3>1 DEF Quiet, PairsKept
  <2>2. CASE ~(Len(w.path) < 2)
    <3> DEFINE j == [NoJob EXCEPT !.work = w]
    <3>1. pc[c] = "idle" /\ Goto(c, "check", j) /\ UNCHANGED <<pairs, results>>
      BY <1>3, <2>2 DEF Begin, shared
    <3>2. job[c].held = <<>> /\ j.held = <<>> /\ "check" \in Labels
      BY <3>1, NoJobTyped DEF TypeInv, Placed, Labels
    <3> HIDE DEF j
    <3> QED
      BY <3>1, <3>2, GotoQuiet
  <2> QED
    BY <2>1, <2>2
<1>4. ASSUME NEW c \in Callers, CheckNode(c) PROVE Quiet \/ Answered(c)
  <2>1. UNCHANGED pairs /\ pc[c] = "check" /\ job[c] \in Job /\ job[c].hop \in Nat
    BY <1>4, HopTyped DEF CheckNode, shared
  <2>2. CASE Answer(c, "BLOCKED")
    BY <2>1, <2>2 DEF Answered
  <2>3. ASSUME Advance(c, Len(job[c].work.path), "route"), UNCHANGED results PROVE Quiet
    <3>1. \E l \in Labels, h \in Nat : Goto(c, l, [job[c] EXCEPT !.hop = h])
      <4>1. /\ "check" \in Labels /\ "route" \in Labels
            /\ job[c].hop + 1 \in Nat /\ 1 \in Nat
        BY <2>1 DEF Labels
      <4>2. \/ Goto(c, "check", [job[c] EXCEPT !.hop = job[c].hop + 1])
            \/ Goto(c, "route", [job[c] EXCEPT !.hop = 1])
        BY <2>1, <2>3 DEF Advance
      <4> QED
        BY <4>1, <4>2
    <3>2. PICK l \in Labels, h \in Nat : Goto(c, l, [job[c] EXCEPT !.hop = h])
      BY <3>1
    <3> QED
      BY <2>1, <2>3, <3>2, JobChanged, GotoQuiet
  <2> QED
    BY <1>4, <2>2, <2>3 DEF CheckNode
<1>5. ASSUME NEW c \in Callers, NegotiateRoute(c) PROVE Quiet \/ Answered(c)
  <2> DEFINE w == job[c].work
             r == RouteFor(w, w.path[job[c].hop], w.path[job[c].hop + 1])
             j == [job[c] EXCEPT !.legs = Append(job[c].legs, r)]
  <2>1. /\ UNCHANGED pairs /\ pc[c] = "route"
        /\ \/ Answer(c, "BLOCKED")
           \/ Goto(c, "store", j) /\ UNCHANGED results
    BY <1>5 DEF NegotiateRoute, shared
  <2>2. job[c] \in Job /\ r \in Route
    BY <2>1, HopTyped, RouteForTyped
  <2> HIDE DEF r
  <2>3. j.held = job[c].held /\ j.work = job[c].work /\ "store" \in Labels
    BY <2>2, JobChanged DEF Labels
  <2> HIDE DEF j
  <2> QED
    BY <2>1, <2>3, GotoQuiet DEF Answered
<1>6. ASSUME NEW c \in Callers, StoreRoute(c) PROVE Quiet \/ Answered(c)
  <2>1. UNCHANGED pairs /\ pc[c] = "store" /\ job[c] \in Job /\ job[c].hop \in Nat
    BY <1>6, HopTyped DEF StoreRoute
  <2>2. /\ "route" \in Labels /\ "latency" \in Labels
        /\ job[c].hop + 1 \in Nat /\ 1 \in Nat
    BY <2>1 DEF Labels
  <2>3. \/ Answer(c, "BLOCKED")
        \/ /\ \/ Goto(c, "route", [job[c] EXCEPT !.hop = job[c].hop + 1])
              \/ Goto(c, "latency", [job[c] EXCEPT !.hop = 1])
           /\ UNCHANGED results
    BY <1>6 DEF StoreRoute
  <2>4. ASSUME NEW l \in Labels, NEW h \in Nat, Goto(c, l, [job[c] EXCEPT !.hop = h]),
               UNCHANGED results
        PROVE  Quiet
    BY <2>1, <2>4, JobChanged, GotoQuiet
  <2> QED
    BY <2>1, <2>2, <2>3, <2>4 DEF Answered
<1>7. ASSUME NEW c \in Callers, CheckLatency(c) PROVE Quiet \/ Answered(c)
  <2>1. /\ UNCHANGED pairs /\ "reserve" \in Labels /\ "done" \in Labels
        /\ \/ Answer(c, "BLOCKED")
           \/ /\ Goto(c, "reserve", job[c]) \/ Goto(c, "done", job[c])
              /\ UNCHANGED results
    BY <1>7 DEF CheckLatency, shared, Labels
  <2> QED
    BY <2>1, GotoQuiet DEF Answered
<1>8. ASSUME NEW c \in Callers, ReservePair(c)
      PROVE  Quiet \/ Answered(c) \/ \E p \in PairIds, j \in Job : Took(c, p, j)
  <2>1. CASE UNCHANGED pairs /\ Answer(c, "BLOCKED")
    BY <2>1 DEF Answered
  <2>2. CASE UNCHANGED pairs /\ Goto(c, "done", job[c]) /\ UNCHANGED results
    <3>1. "done" \in Labels
      BY DEF Labels
    <3> QED
      BY <2>2, <3>1, GotoQuiet
  <2> QED
    BY <1>8, <2>1, <2>2, ReserveTakes
<1>9. ASSUME NEW c \in Callers, Complete(c) PROVE Answered(c)
  BY <1>9 DEF Complete, Answered, shared
<1>10. CASE UNCHANGED vars
  BY <1>10 DEF vars, shared, Quiet, PairsKept
<1> QED
  BY <1>1, <1>2, <1>3, <1>4, <1>5, <1>6, <1>7, <1>8, <1>9, <1>10 DEF Next, Step

-----------------------------------------------------------------------------
(* The pairs a workload holds are in the pool's history and join the ends  *)
(* of its hops, while it runs and once it is answered; an answer COMPLETED *)
(* has its legs, and its pairs if it must.                                 *)
HeldJoin(pool, j) ==
  \A i \in DOMAIN j.held :
    /\ j.held[i] \in DOMAIN pool
    /\ pool[j.held[i]].ends \in {<<j.work.path[i], j.work.path[i + 1]>>,
                                 <<j.work.path[i + 1], j.work.path[i]>>}

Backed(s, j) ==
  s = "COMPLETED" =>
    /\ Len(j.legs) = Hops(j.work)
    /\ \A i \in DOMAIN j.legs : Leg(j, i) /\ j.legs[i].status # "BLOCKED"
    /\ j.work.protocol \in Entangling /\ ~j.work.fallback => Len(j.held) = Hops(j.work)

BackedInv ==
  /\ \A c \in Callers : HeldJoin(pairs, job[c])
  /\ \A r \in DOMAIN results :
       HeldJoin(pairs, results[r].job) /\ Backed(results[r].status, results[r].job)

LEMMA BackedHolds == BackedInv => CompletedIsBacked
BY DEF BackedInv, CompletedIsBacked, HeldJoin, Backed, Leg, Joins

(* Pairs never leave the history and never change their ends, so what was  *)
(* joined stays joined.                                                    *)
Rooted ==
  /\ DOMAIN pairs \subseteq DOMAIN pairs'
  /\ \A p \in DOMAIN pairs : pairs'[p].ends = pairs[p].ends

LEMMA JoinsKept ==
  ASSUME Rooted, NEW j, NEW k, HeldJoin(pairs, j),
         k.held = <<>> \/ (k.held = j.held /\ k.work = j.work)
  PROVE  HeldJoin(pairs', k)
<1>1. CASE k.held = <<>>
  BY <1>1 DEF HeldJoin
<1>2. CASE k.held = j.held /\ k.work = j.work
  BY <1>2 DEF Rooted, HeldJoin
<1> QED
  BY <1>1, <1>2

(* An answer that is backed is added to answers that are.                  *)
LEMMA AnswerBacked ==
  ASSUME TypeInv, BackedInv, Rooted,
         \A c \in Callers : HeldJoin(pairs', job'[c]),
         \/ UNCHANGED results
         \/ \E s \in {"COMPLETED", "BLOCKED"}, j \in Job :
              /\ results' = Append(results, [status |-> s, job |-> j])
              /\ HeldJoin(pairs', j) /\ Backed(s, j)
  PROVE  BackedInv'
<1>1. \A r \in DOMAIN results :
        HeldJoin(pairs', results[r].job) /\ Backed(results[r].status, results[r].job)
  BY JoinsKept DEF BackedInv
<1>2. CASE UNCHANGED results
  BY <1>1, <1>2 DEF BackedInv
<1>3. ASSUME NEW s \in {"COMPLETED", "BLOCKED"}, NEW j \in Job,
             results' = Append(results, [status |-> s, job |-> j]),
             HeldJoin(pairs', j), Backed(s, j)
      PROVE  BackedInv'
  <2> DEFINE x == [status |-> s, job |-> j]
  <2>1. x \in [status : {"COMPLETED", "BLOCKED"}, job : Job] /\ x.status = s /\ x.job = j
    OBVIOUS
  <2>2. results \in Seq([status : {"COMPLETED", "BLOCKED"}, job : Job])
    BY DEF TypeInv, TypeOK
  <2>3. results' = Append(results, x)
    BY <1>3
  <2> HIDE DEF x
  <2>4. \A r \in DOMAIN results' : (r \in DOMAIN results /\ results'[r] = results[r]) \/ results'[r] = x
    BY <2>1, <2>2, <2>3
  <2>5. \A r \in DOMAIN results' :
          HeldJoin(pairs', results'[r].job) /\ Backed(results'[r].status, results'[r].job)
    BY <1>1, <1>3, <2>1, <2>4
  <2> QED
    BY <2>5 DEF BackedInv
<1> QED
  BY <1>2, <1>3

LEMMA BackedStep == TypeInv /\ BackedInv /\ [Next]_vars => BackedInv'
<1> SUFFICES ASSUME TypeInv, BackedInv, [Next]_vars PROVE BackedInv'
  OBVIOUS
<1>1. job \in [Callers -> Job] /\ \A c \in Callers : HeldJoin(pairs, job[c])
  BY DEF TypeInv, TypeOK, BackedInv
<1>2. CASE Quiet
  <2>1. Rooted
    BY <1>2 DEF Quiet, PairsKept, Rooted
  <2>2. \A c \in Callers : HeldJoin(pairs', job'[c])
    BY <1>1, <1>2, <2>1, JoinsKept DEF Quiet
  <2>3. \A w \in Workloads :
          LET j == [NoJob EXCEPT !.work = w]
          IN  j \in Job /\ HeldJoin(pairs', j) /\ Backed("BLOCKED", j)
    BY NoJobTyped DEF HeldJoin, Backed
  <2> QED
    BY <1>2, <2>1, <2>2, <2>3, AnswerBacked DEF Quiet
<1>3. ASSUME NEW c \in Callers, Answered(c) PROVE BackedInv'
  <2>1. Rooted
    BY <1>3 DEF Answered, Rooted
  <2>2. PICK s \in {"COMPLETED", "BLOCKED"} : Answer(c, s) /\ (s = "COMPLETED" => pc[c] = "done")
    BY <1>3 DEF Answered
  <2>3. job'[c] = NoJob /\ \A d \in Callers \ {c} : job'[d] = job[d]
    BY <2>2, AnswerTyped
  <2>4. \A d \in Callers : HeldJoin(pairs', job'[d])
    BY <1>1, <2>1, <2>3, JoinsKept, NoJobTyped
  <2>5. HeldJoin(pairs', job[c]) /\ job[c] \in Job
    BY <1>1, <2>1, JoinsKept
  <2>6. Backed(s, job[c])
    <3>1. ASSUME s = "COMPLETED" PROVE Under("done", job[c])
      BY <2>2, <3>1, HopTyped
    <3> QED
      BY <3>1 DEF Under, Backed
  <2> QED
    BY <2>1, <2>2, <2>4, <2>5, <2>6, AnswerBacked DEF Answer
<1>4. ASSUME NEW c \in Callers, NEW p \in PairIds, NEW j \in Job, Took(c, p, j)
      PROVE  BackedInv'
  <2>1. Rooted
    BY <1>4, TookPair DEF Rooted
  <2>2. UNCHANGED results
    BY <1>4 DEF Took
  <2>3. job'[c] = j /\ \A d \in Callers \ {c} : job'[d] = job[d]
    BY <1>1, <1>4 DEF Took, Goto
  <2>4. HeldJoin(pairs', job[c])
    BY <1>1, <2>1, JoinsKept
  <2>5. HeldJoin(pairs', j)
    <3>1. /\ job[c].held \in Seq(PairIds) /\ job[c].hop \in Nat
          /\ Len(job[c].held) + 1 = job[c].hop
      BY <1>4, HopTyped DEF Took, Under
    <3>2. j.held = Append(job[c].held, p) /\ j.work = job[c].work
      BY <1>4 DEF Took
    <3>3. \A i \in DOMAIN j.held :
            \/ i \in DOMAIN job[c].held /\ j.held[i] = job[c].held[i]
            \/ i = job[c].hop /\ j.held[i] = p
      BY <3>1, <3>2
    <3>4. /\ p \in DOMAIN pairs'
          /\ pairs'[p].ends \in {<<j.work.path[job[c].hop], j.work.path[job[c].hop + 1]>>,
                                 <<j.work.path[job[c].hop + 1], j.work.path[job[c].hop]>>}
      BY <1>4, <3>2, TookPair DEF Took, Free, Candidates, Joins
    <3> QED
      BY <2>4, <3>2, <3>3, <3>4 DEF HeldJoin
  <2>6. \A d \in Callers : HeldJoin(pairs', job'[d])
    BY <1>1, <2>1, <2>3, <2>5, JoinsKept
  <2> QED
    BY <2>1, <2>2, <2>6, AnswerBacked
<1> QED
  BY <1>2, <1>3, <1>4, ThreeKinds

(* "COMPLETED" says what it says: for any path, any number of callers and  *)
(* whatever is declared or purged meanwhile.                               *)
THEOREM CompletedWorkloadsAreBacked == Spec => []CompletedIsBacked
<1>1. Init => BackedInv
  BY NoJobTyped DEF Init, BackedInv, HeldJoin
<1> QED
  BY <1>1, BackedHolds, InitTyped, TypeStep, BackedStep, PTL DEF Spec

-----------------------------------------------------------------------------
(* At most one hop of one workload was handed a pair, and only pairs that  *)
(* were generated were handed out.                                         *)
Single(S) == \A x \in S, y \in S : x = y

UseInv ==
  /\ \A p \in PairIds : Single(HandedOut(p)) /\ (HandedOut(p) # {} => p \in DOMAIN pairs)
  /\ \A p \in DOMAIN pairs :
       /\ pairs[p].state = "free" => HandedOut(p) = {}
       /\ pairs[p].state = "consumed" => HandedOut(p) # {}

HandedIn(js, rs, p) ==
  (UNION {{<<"running", c, i>> : i \in HopsWith(p, js[c])} : c \in Callers})
    \union (UNION {{<<"answered", r, i>> : i \in HopsWith(p, rs[r].job)} : r \in DOMAIN rs})

LEMMA Handed ==
  ASSUME NEW js, NEW rs, NEW p
  PROVE  \A x : x \in HandedIn(js, rs, p) <=>
           \/ \E c \in Callers : \E i \in DOMAIN js[c].held :
                js[c].held[i] = p /\ x = <<"running", c, i>>
           \/ \E r \in DOMAIN rs : \E i \in DOMAIN rs[r].job.held :
                rs[r].job.held[i] = p /\ x = <<"answered", r, i>>
<1> TAKE x
<1>1. x \in UNION {{<<"running", c, i>> : i \in HopsWith(p, js[c])} : c \in Callers}
        <=> \E c \in Callers : \E i \in HopsWith(p, js[c]) : x = <<"running", c, i>>
  OBVIOUS
<1>2. x \in UNION {{<<"answered", r, i>> : i \in HopsWith(p, rs[r].job)} : r \in DOMAIN rs}
        <=> \E r \in DOMAIN rs : \E i \in HopsWith(p, rs[r].job) : x = <<"answered", r, i>>
  OBVIOUS
<1>3. (\E c \in Callers : \E i \in HopsWith(p, js[c]) : x = <<"running", c, i>>)
        <=> \E c \in Callers : \E i \in DOMAIN js[c].held :
              js[c].held[i] = p /\ x = <<"running", c, i>>
  BY Zenon DEF HopsWith
<1>4. (\E r \in DOMAIN rs : \E i \in HopsWith(p, rs[r].job) : x = <<"answered", r, i>>)
        <=> \E r \in DOMAIN rs : \E i \in DOMAIN rs[r].job.held :
              rs[r].job.held[i] = p /\ x = <<"answered", r, i>>
  BY Zenon DEF HopsWith
<1>5. x \in HandedIn(js, rs, p)
        <=> \/ x \in UNION {{<<"running", c, i>> : i \in HopsWith(p, js[c])} : c \in Callers}
            \/ x \in UNION {{<<"answered", r, i>> : i \in HopsWith(p, rs[r].job)} : r \in DOMAIN rs}
  BY Zenon DEF HandedIn
<1> QED
  BY <1>1, <1>2, <1>3, <1>4, <1>5, Zenon

LEMMA UseHolds == TypeInv /\ UseInv => PairUsedOnce
<1> SUFFICES ASSUME TypeInv, UseInv PROVE PairUsedOnce
  OBVIOUS
<1>1. ASSUME NEW p \in DOMAIN pairs PROVE Cardinality(HandedOut(p)) <= 1
  <2>1. p \in PairIds
    BY NetworkAssumption DEF TypeInv, TypeOK, PairIds
  <2>2. HandedOut(p) = {} \/ \E x : HandedOut(p) = {x}
    BY <2>1 DEF UseInv, Single
  <2>3. Cardinality(HandedOut(p)) \in {0, 1}
    BY <2>2, FS_EmptySet, FS_Singleton
  <2> QED
    BY <2>3
<1> QED
  BY <1>1 DEF UseInv, PairUsedOnce

(* A step that hands out no pair.                                          *)
LEMMA HandedKept ==
  ASSUME TypeInv, Quiet, NEW p
  PROVE  HandedOut(p)' = HandedOut(p)
<1>1. CASE UNCHANGED results
  BY <1>1 DEF HandedOut, HopsWith, Quiet
<1>2. ASSUME NEW w \in Workloads,
             results' = Append(results, [status |-> "BLOCKED", job |-> [NoJob EXCEPT !.work = w]])
      PROVE  HandedOut(p)' = HandedOut(p)
  <2> DEFINE x == [status |-> "BLOCKED", job |-> [NoJob EXCEPT !.work = w]]
  <2>1. x \in [status : {"COMPLETED", "BLOCKED"}, job : Job] /\ x.job.held = <<>>
    BY NoJobTyped
  <2>2. results \in Seq([status : {"COMPLETED", "BLOCKED"}, job : Job])
    BY DEF TypeInv, TypeOK
  <2>3. results' = Append(results, x)
    BY <1>2
  <2> HIDE DEF x
  <2>4. /\ \A r \in DOMAIN results' :
             (r \in DOMAIN results /\ results'[r] = results[r]) \/ results'[r].job.held = <<>>
        /\ \A r \in DOMAIN results : r \in DOMAIN results' /\ results'[r] = results[r]
    BY <2>1, <2>2, <2>3
  <2>5. \A c \in Callers : HopsWith(p, job'[c]) = HopsWith(p, job[c])
    BY DEF Quiet, HopsWith
  <2>6. UNION {{<<"answered", r, i>> : i \in HopsWith(p, results'[r].job)} : r \in DOMAIN results'}
          = UNION {{<<"answered", r, i>> : i \in HopsWith(p, results[r].job)} : r \in DOMAIN results}
    BY <2>4 DEF HopsWith
  <2>7. UNION {{<<"running", c, i>> : i \in HopsWith(p, job'[c])} : c \in Callers}
          = UNION {{<<"running", c, i>> : i \in HopsWith(p, job[c])} : c \in Callers}
    BY <2>5
  <2> QED
    BY <2>6, <2>7 DEF HandedOut
<1> QED
  BY <1>1, <1>2 DEF Quiet

(* An answer moves what the workload held to the answers.                  *)
LEMMA HandedMoves ==
  ASSUME TypeInv, NEW c \in Callers, Answered(c), NEW p
  PROVE  HandedOut(p)' = {IF x[1] = "running" /\ x[2] = c
                          THEN <<"answered", Len(results) + 1, x[3]>> ELSE x : x \in HandedOut(p)}
<1> DEFINE n == Len(results) + 1
           Moved(x) == IF x[1] = "running" /\ x[2] = c THEN <<"answered", n, x[3]>> ELSE x
<1>1. PICK s \in {"COMPLETED", "BLOCKED"} : Answer(c, s)
  BY DEF Answered
<1>2. job'[c] = NoJob /\ \A d \in Callers \ {c} : job'[d] = job[d]
  BY <1>1, AnswerTyped
<1>3. /\ results \in Seq([status : {"COMPLETED", "BLOCKED"}, job : Job])
      /\ [status |-> s, job |-> job[c]] \in [status : {"COMPLETED", "BLOCKED"}, job : Job]
      /\ results' = Append(results, [status |-> s, job |-> job[c]])
  BY <1>1 DEF Answer, TypeInv, TypeOK
<1>4. /\ DOMAIN results' = DOMAIN results \union {n}
      /\ \A r \in DOMAIN results : r # n /\ results'[r] = results[r]
      /\ results'[n].job = job[c]
  BY <1>3
<1> HIDE DEF n
<1>5. \A x : x \in HandedOut(p) <=>
           \/ \E d \in Callers : \E i \in DOMAIN job[d].held :
                job[d].held[i] = p /\ x = <<"running", d, i>>
           \/ \E r \in DOMAIN results : \E i \in DOMAIN results[r].job.held :
                results[r].job.held[i] = p /\ x = <<"answered", r, i>>
  <2>1. HandedOut(p) = HandedIn(job, results, p)
    BY DEF HandedOut, HandedIn
  <2> QED
    BY <2>1, Handed
<1>6. \A x : x \in HandedOut(p)' <=>
           \/ \E d \in Callers : \E i \in DOMAIN job'[d].held :
                job'[d].held[i] = p /\ x = <<"running", d, i>>
           \/ \E r \in DOMAIN results' : \E i \in DOMAIN results'[r].job.held :
                results'[r].job.held[i] = p /\ x = <<"answered", r, i>>
  <2>1. HandedOut(p)' = HandedIn(job', results', p)
    BY DEF HandedOut, HandedIn, HopsWith
  <2> QED
    BY <2>1, Handed
<1>7. ASSUME NEW x \in HandedOut(p) PROVE Moved(x) \in HandedOut(p)'
  <2>1. ASSUME NEW d \in Callers, NEW i \in DOMAIN job[d].held,
               job[d].held[i] = p, x = <<"running", d, i>>
        PROVE  Moved(x) \in HandedOut(p)'
    <3>1. CASE d = c
      BY <1>4, <1>6, <2>1, <3>1
    <3>2. CASE d # c
      BY <1>2, <1>6, <2>1, <3>2
    <3> QED
      BY <3>1, <3>2
  <2>2. ASSUME NEW r \in DOMAIN results, NEW i \in DOMAIN results[r].job.held,
               results[r].job.held[i] = p, x = <<"answered", r, i>>
        PROVE  Moved(x) \in HandedOut(p)'
    <3>1. Moved(x) = x
      BY <2>2
    <3> QED
      BY <1>4, <1>6, <2>2, <3>1
  <2> QED
    BY <1>5, <2>1, <2>2
<1>8. ASSUME NEW y \in HandedOut(p)' PROVE \E x \in HandedOut(p) : y = Moved(x)
  <2>1. ASSUME NEW d \in Callers, NEW i \in DOMAIN job'[d].held,
               job'[d].held[i] = p, y = <<"running", d, i>>
        PROVE  \E x \in HandedOut(p) : y = Moved(x)
    <3>1. d # c /\ job'[d] = job[d]
      BY <1>2, <2>1, NoJobTyped
    <3> QED
      BY <1>5, <2>1, <3>1
  <2>2. ASSUME NEW r \in DOMAIN results, NEW i \in DOMAIN results'[r].job.held,
               results'[r].job.held[i] = p, y = <<"answered", r, i>>
        PROVE  \E x \in HandedOut(p) : y = Moved(x)
    <3>1. y \in HandedOut(p)
      BY <1>4, <1>5, <2>2
    <3>2. Moved(y) = y
      BY <2>2
    <3> QED
      BY <3>1, <3>2
  <2>3. ASSUME NEW i \in DOMAIN results'[n].job.held,
               results'[n].job.held[i] = p, y = <<"answered", n, i>>
        PROVE  \E x \in HandedOut(p) : y = Moved(x)
    <3>1. <<"running", c, i>> \in HandedOut(p)
      BY <1>4, <1>5, <2>3
    <3>2. Moved(<<"running", c, i>>) = y
      BY <2>3
    <3> QED
      BY <3>1, <3>2
  <2> QED
    BY <1>4, <1>6, <2>1, <2>2, <2>3
<1> QED
  BY <1>7, <1>8 DEF n

(* A reservation hands out the reserved pair and no other.                 *)
LEMMA HandedTaken ==
  ASSUME TypeInv, NEW c \in Callers, NEW p \in PairIds, NEW j \in Job, Took(c, p, j)
  PROVE  /\ HandedOut(p)' = HandedOut(p) \union {<<"running", c, Len(job[c].held) + 1>>}
         /\ \A q \in PairIds \ {p} : HandedOut(q)' = HandedOut(q)
<1> DEFINE n == Len(job[c].held) + 1
<1>1. job[c].held \in Seq(PairIds) /\ job \in [Callers -> Job]
  BY HopTyped DEF Took, TypeInv, TypeOK
<1>2. UNCHANGED results /\ job'[c] = j /\ \A d \in Callers \ {c} : job'[d] = job[d]
  BY <1>1 DEF Took, Goto
<1>3. j.held = Append(job[c].held, p)
  BY DEF Took
<1>4. /\ DOMAIN j.held = DOMAIN job[c].held \union {n} /\ j.held[n] = p
      /\ \A i \in DOMAIN job[c].held : i # n /\ j.held[i] = job[c].held[i]
  BY <1>1, <1>3
<1> HIDE DEF n
<1>5. ASSUME NEW q
      PROVE  /\ HandedOut(q) = HandedIn(job, results, q)
             /\ HandedOut(q)' = HandedIn(job', results, q)
  BY <1>2 DEF HandedOut, HandedIn, HopsWith
<1>6. ASSUME NEW q
      PROVE  /\ HopsWith(q, job'[c]) = HopsWith(q, job[c]) \union (IF q = p THEN {n} ELSE {})
             /\ \A d \in Callers \ {c} : HopsWith(q, job'[d]) = HopsWith(q, job[d])
  BY <1>2, <1>4 DEF HopsWith
<1>7. ASSUME NEW q, NEW x
      PROVE  x \in HandedOut(q)' <=> x \in HandedOut(q) \/ (q = p /\ x = <<"running", c, n>>)
  <2>1. x \in HandedOut(q) <=>
          \/ \E d \in Callers : \E i \in HopsWith(q, job[d]) : x = <<"running", d, i>>
          \/ \E r \in DOMAIN results : \E i \in HopsWith(q, results[r].job) : x = <<"answered", r, i>>
    BY <1>5 DEF HandedIn
  <2>2. x \in HandedOut(q)' <=>
          \/ \E d \in Callers : \E i \in HopsWith(q, job'[d]) : x = <<"running", d, i>>
          \/ \E r \in DOMAIN results : \E i \in HopsWith(q, results[r].job) : x = <<"answered", r, i>>
    BY <1>5 DEF HandedIn
  <2>3. (\E d \in Callers : \E i \in HopsWith(q, job'[d]) : x = <<"running", d, i>>)
          <=> \/ \E d \in Callers : \E i \in HopsWith(q, job[d]) : x = <<"running", d, i>>
              \/ q = p /\ x = <<"running", c, n>>
    BY <1>6
  <2> QED
    BY <2>1, <2>2, <2>3
<1>8. HandedOut(p)' = HandedOut(p) \union {<<"running", c, n>>}
  BY <1>7
<1>9. ASSUME NEW q \in PairIds \ {p} PROVE HandedOut(q)' = HandedOut(q)
  <2>1. \A x : x \in HandedOut(q)' <=> x \in HandedOut(q)
    BY <1>7
  <2> QED
    BY <2>1
<1> QED
  BY <1>8, <1>9 DEF n

LEMMA UseStep == TypeInv /\ UseInv /\ [Next]_vars => UseInv'
<1> SUFFICES ASSUME TypeInv, UseInv, [Next]_vars PROVE UseInv'
  OBVIOUS
<1>1. DOMAIN pairs \subseteq PairIds
  <2>1. DOMAIN pairs = 1..Len(pairs) /\ Len(pairs) \in Nat /\ Len(pairs) <= MaxPairs
    BY DEF TypeInv, TypeOK
  <2> QED
    BY <2>1, NetworkAssumption DEF PairIds
<1>2. DOMAIN pairs' \subseteq PairIds
  <2>1. TypeInv'
    BY TypeStep
  <2>2. DOMAIN pairs' = 1..Len(pairs') /\ Len(pairs') \in Nat /\ Len(pairs') <= MaxPairs
    BY <2>1 DEF TypeInv, TypeOK
  <2> QED
    BY <2>2, NetworkAssumption DEF PairIds
<1>3. CASE Quiet
  <2>1. \A p \in PairIds : HandedOut(p)' = HandedOut(p)
    BY <1>3, HandedKept
  <2>2. /\ DOMAIN pairs \subseteq DOMAIN pairs'
        /\ \A p \in DOMAIN pairs : pairs'[p].state \in {pairs[p].state, "purged"}
        /\ \A p \in DOMAIN pairs' \ DOMAIN pairs : pairs'[p].state = "free"
    BY <1>3 DEF Quiet, PairsKept
  <2>3. \A p \in PairIds : Single(HandedOut(p)') /\ (HandedOut(p)' # {} => p \in DOMAIN pairs')
    BY <2>1, <2>2 DEF UseInv
  <2>4. ASSUME NEW p \in DOMAIN pairs'
        PROVE  /\ pairs'[p].state = "free" => HandedOut(p)' = {}
               /\ pairs'[p].state = "consumed" => HandedOut(p)' # {}
    BY <1>2, <2>1, <2>2, <2>4 DEF UseInv
  <2> QED
    BY <2>3, <2>4 DEF UseInv, Single
<1>4. ASSUME NEW c \in Callers, Answered(c) PROVE UseInv'
  <2> DEFINE Moved(x) == IF x[1] = "running" /\ x[2] = c
                         THEN <<"answered", Len(results) + 1, x[3]>> ELSE x
  <2>1. \A p \in PairIds : HandedOut(p)' = {Moved(x) : x \in HandedOut(p)}
    BY <1>4, HandedMoves
  <2> HIDE DEF Moved
  <2>2. UNCHANGED pairs
    BY <1>4 DEF Answered
  <2>3. ASSUME NEW p \in PairIds
        PROVE  /\ Single(HandedOut(p)')
               /\ HandedOut(p)' = {} <=> HandedOut(p) = {}
    BY <2>1, <2>3 DEF UseInv, Single
  <2> QED
    BY <1>1, <2>2, <2>3 DEF UseInv, Single
<1>5. ASSUME NEW c \in Callers, NEW p \in PairIds, NEW j \in Job, Took(c, p, j)
      PROVE  UseInv'
  <2>1. HandedOut(p) = {} /\ p \in DOMAIN pairs
    BY <1>5, TookPair DEF UseInv
  <2>2. /\ HandedOut(p)' = {<<"running", c, Len(job[c].held) + 1>>}
        /\ \A q \in PairIds \ {p} : HandedOut(q)' = HandedOut(q)
    BY <1>5, <2>1, HandedTaken
  <2>3. /\ DOMAIN pairs' = DOMAIN pairs /\ pairs'[p].state = "consumed"
        /\ \A q \in DOMAIN pairs \ {p} : pairs'[q] = pairs[q]
    BY <1>5, TookPair
  <2>4. ASSUME NEW q \in PairIds
        PROVE  Single(HandedOut(q)') /\ (HandedOut(q)' # {} => q \in DOMAIN pairs')
    BY <2>1, <2>2, <2>3, <2>4 DEF UseInv, Single
  <2>5. ASSUME NEW q \in DOMAIN pairs'
        PROVE  /\ pairs'[q].state = "free" => HandedOut(q)' = {}
               /\ pairs'[q].state = "consumed" => HandedOut(q)' # {}
    BY <1>2, <2>2, <2>3, <2>5 DEF UseInv
  <2> QED
    BY <2>4, <2>5 DEF UseInv, Single
<1> QED
  BY <1>3, <1>4, <1>5, ThreeKinds

(* An entangled pair is measured once: two callers reserving at the same   *)
(* time, purges and blocked workloads included, no pair serves two hops.   *)
THEOREM PairsAreUsedOnce == Spec => []PairUsedOnce
<1>1. Init => UseInv
  BY NoJobTyped DEF Init, UseInv, HandedOut, HopsWith, Single
<1> QED
  BY <1>1, UseHolds, InitTyped, TypeStep, UseStep, PTL DEF Spec
=============================================================================
