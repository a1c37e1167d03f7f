----------------------- MODULE FederationEventsProofs -----------------------
(***************************************************************************)
(* The federation's vector clocks, for any number of nodes, threads,       *)
(* events, replays and nonces kept.                                        *)
(***************************************************************************)
EXTENDS FederationEvents, FiniteSetTheorems, SequenceTheorems, TLAPS

Creating == {t \in Threads : pc[t] = "create"}

(* What the bound on the events needs: a thread about to create one has    *)
(* its place reserved.                                                     *)
TypeInv == TypeOK /\ Len(events) + Cardinality(Creating) <= MaxEvents

(* The threads that are creating an event are finitely many.               *)
LEMMA CreatingFinite ==
  /\ IsFiniteSet(Creating) /\ Cardinality(Creating) \in Nat
  /\ \A S \in SUBSET Threads : IsFiniteSet(S) /\ Cardinality(S) \in Nat
<1>1. \A S \in SUBSET Threads : IsFiniteSet(S) /\ Cardinality(S) \in Nat
  BY EventsAssumption, FS_Subset, FS_CardinalityType
<1> QED
  BY <1>1 DEF Creating

(* A step that neither begins nor ends a creation leaves their number.     *)
LEMMA OthersKeepCreating ==
  ASSUME TypeOK, NEW t \in Threads, pc[t] # "create",
         NEW l, l # "create", pc' = [pc EXCEPT ![t] = l]
  PROVE  Creating' = Creating
  BY DEF Creating, TypeOK

(* Where a thread goes when it is done with a peer, and what it takes along. *)
LEMMA ContinueTyped ==
  ASSUME TypeOK, NEW t \in Threads, pc[t] # "create",
         NEW j \in Job, j.ev \in DOMAIN events,
         Continue(t, j)
  PROVE  /\ pc' \in [Threads -> {"idle", "create", "record", "send", "apply"}]
         /\ job' \in [Threads -> Job]
         /\ \A u \in Threads : pc'[u] \in {"record", "send", "apply"} => job'[u].ev \in DOMAIN events
         /\ Creating' = Creating
<1>1. NoJob(t) \in Job
  BY EventsAssumption DEF NoJob, Job
<1>2. CASE j.todo = {}
  BY <1>1, <1>2, OthersKeepCreating DEF Continue, Goto, TypeOK
<1>3. CASE j.todo # {}
  BY <1>3, OthersKeepCreating DEF Continue, Goto, TypeOK
<1> QED
  BY <1>2, <1>3

(* An event created has the clock of a node.                               *)
LEMMA EventTyped ==
  ASSUME TypeOK
  PROVE  \A e \in DOMAIN events : events[e] \in [source : Nodes, clock : Clock]
<1>1. events \in Seq([source : Nodes, clock : Clock])
  BY DEF TypeOK
<1> QED
  BY <1>1, ElementOfSeq, LenProperties

(* A new event leaves the others in their places.                          *)
LEMMA EventAppended ==
  ASSUME TypeOK, NEW x \in [source : Nodes, clock : Clock], events' = Append(events, x)
  PROVE  /\ \A e \in DOMAIN events : e \in DOMAIN events' /\ events'[e] = events[e]
         /\ \A e \in DOMAIN events' : e \in DOMAIN events \/ events'[e] = x
<1>1. events \in Seq([source : Nodes, clock : Clock])
  BY DEF TypeOK
<1>2. /\ DOMAIN events = 1..Len(events) /\ Len(events) \in Nat
      /\ events' \in Seq([source : Nodes, clock : Clock])
      /\ Len(events') = Len(events) + 1
      /\ \A e \in 1..Len(events) : events'[e] = events[e]
      /\ events'[Len(events) + 1] = x
  BY <1>1, AppendProperties, LenProperties
<1>3. DOMAIN events' = 1..(Len(events) + 1)
  BY <1>2, LenProperties
<1> QED
  BY <1>2, <1>3

(* Every step keeps the types.                                             *)
LEMMA TypeStep == TypeInv /\ [Next]_vars => TypeInv'
<1> SUFFICES ASSUME TypeInv, [Next]_vars PROVE TypeInv'
  OBVIOUS
<1> USE EventsAssumption DEF TypeInv
<1>0. /\ TypeOK
      /\ Cardinality(Creating) \in Nat /\ Len(events) \in Nat
      /\ \A e \in DOMAIN events : e \in Ids
  <2>1. /\ TypeOK /\ MaxEvents \in Nat /\ Len(events) <= MaxEvents
        /\ events \in Seq([source : Nodes, clock : Clock])
    BY DEF TypeOK
  <2>2. Len(events) \in Nat /\ DOMAIN events = 1..Len(events)
    BY <2>1, LenProperties
  <2> QED
    BY <2>1, <2>2, CreatingFinite DEF Ids
<1>1. ASSUME NEW t \in Threads, NEW sync \in BOOLEAN, IncrementClock(t, sync) PROVE TypeInv'
  <2>1. Creating' = Creating \union {t} /\ t \notin Creating
    BY <1>0, <1>1 DEF IncrementClock, Goto, Creating, TypeOK
  <2>2. Cardinality(Creating') = Cardinality(Creating) + 1
    BY <2>1, CreatingFinite, FS_AddElement
  <2>3. Len(events) + Cardinality(Creating) < MaxEvents /\ events' = events
    BY <1>1 DEF IncrementClock, Creating
  <2>4. [NoJob(t) EXCEPT !.sync = sync] \in Job
    BY DEF NoJob, Job
  <2>5. clock' \in [Nodes -> Clock]
    BY <1>1 DEF IncrementClock, TypeOK, Clock
  <2>6. TypeOK'
    BY <1>1, <2>4, <2>5 DEF IncrementClock, Goto, TypeOK
  <2> QED
    BY <1>0, <2>2, <2>3, <2>6
<1>2. ASSUME NEW t \in Threads, NEW e \in Ids, NEW p \in Nodes, Replay(t, e, p) PROVE TypeInv'
  <2>1. Creating' = Creating
    BY <1>0, <1>2, OthersKeepCreating DEF Replay, Goto
  <2>2. [NoJob(t) EXCEPT !.ev = e, !.todo = {p}] \in Job
    BY DEF NoJob, Job
  <2>3. replays' \in 0..MaxReplays
    BY <1>2, SMTT(30) DEF Replay, TypeOK
  <2>4. \A u \in Threads :
          pc'[u] \in {"record", "send", "apply"} => job'[u].ev \in DOMAIN events'
    BY <1>2 DEF Replay, Goto, TypeOK, NoJob
  <2>5. TypeOK'
    BY <1>2, <2>2, <2>3, <2>4 DEF Replay, Goto, TypeOK
  <2> QED
    BY <1>0, <1>2, <2>1, <2>5 DEF Replay
<1>3. ASSUME NEW t \in Threads, CreateEvent(t) PROVE TypeInv'
  <2>1. Creating' = Creating \ {t} /\ t \in Creating
    BY <1>0, <1>3 DEF CreateEvent, Goto, Creating, TypeOK
  <2>2. Cardinality(Creating') = Cardinality(Creating) - 1
    BY <2>1, CreatingFinite, FS_RemoveElement
  <2>3. /\ events' = Append(events, [source |-> NodeOf[t], clock |-> clock[NodeOf[t]]])
        /\ Len(events') = Len(events) + 1
        /\ events' \in Seq([source : Nodes, clock : Clock])
        /\ DOMAIN events \subseteq DOMAIN events' /\ Len(events) + 1 \in DOMAIN events'
    BY <1>3, SMTT(30) DEF CreateEvent, TypeOK
  <2>4. Len(events) + 1 \in Ids /\ Len(events') <= MaxEvents
    <3>1. Creating' \in SUBSET Threads
      BY <2>1 DEF Creating
    <3>2. Cardinality(Creating') \in Nat
      BY <3>1, CreatingFinite
    <3>3. Len(events) + 1 <= MaxEvents
      BY <1>0, <2>2, <3>2
    <3> QED
      BY <1>0, <2>3, <3>3 DEF Ids
  <2>5. [job[t] EXCEPT !.ev = Len(events) + 1] \in Job
    BY <2>4 DEF TypeOK, Job
  <2>6. TypeOK'
    BY <1>3, <2>3, <2>4, <2>5, SMTT(30) DEF CreateEvent, Goto, TypeOK
  <2> QED
    BY <1>0, <2>2, <2>3, <2>6
<1>4. ASSUME NEW t \in Threads, RecordOwn(t) PROVE TypeInv'
  <2> DEFINE j == [job[t] EXCEPT !.todo = IF job[t].sync THEN {} ELSE Nodes \ {NodeOf[t]}]
  <2>1. j \in Job /\ j.ev \in DOMAIN events /\ job[t].ev \in Ids
    BY <1>0, <1>4 DEF RecordOwn, TypeOK, Job
  <2>2. log' \in [Nodes -> Seq(Ids)]
    BY <1>4, <2>1 DEF RecordOwn, AppendTo, TypeOK
  <2>3. Continue(t, j) /\ pc[t] # "create"
    BY <1>4 DEF RecordOwn
  <2> QED
    BY <1>0, <1>4, <2>1, <2>2, <2>3, ContinueTyped DEF RecordOwn, TypeOK
<1>5. ASSUME NEW t \in Threads, RecordAtPeer(t) PROVE TypeInv'
  <2> DEFINE j == [job[t] EXCEPT !.at = NodeOf[t]]
  <2>1. j \in Job /\ j.ev \in DOMAIN events /\ job[t].ev \in Ids /\ job[t].at \in Nodes
    BY <1>0, <1>5 DEF RecordAtPeer, TypeOK, Job
  <2>2. log' \in [Nodes -> Seq(Ids)]
    BY <1>5, <2>1, SMTT(30) DEF RecordAtPeer, AppendTo, TypeOK
  <2>3. Continue(t, j) /\ pc[t] # "create"
    BY <1>5 DEF RecordAtPeer
  <2> QED
    BY <1>0, <1>5, <2>1, <2>2, <2>3, ContinueTyped DEF RecordAtPeer, TypeOK
<1>6. ASSUME NEW t \in Threads, NEW p \in Nodes, Receive(t, p) PROVE TypeInv'
  <2>1. [job[t] EXCEPT !.todo = @ \ {p}, !.at = p] \in Job /\ job[t].ev \in Ids
    BY <1>0, <1>6 DEF Receive, TypeOK, Job
  <2>2. Creating' = Creating
    BY <1>0, <1>6, OthersKeepCreating DEF Receive, Goto
  <2>3. received' \in [Nodes -> Seq(Ids)]
    BY <1>6, <2>1 DEF Receive, TypeOK
  <2>4. clock' \in [Nodes -> Clock]
    <3>1. events[job[t].ev].clock \in [Nodes -> Nat] /\ clock[p] \in [Nodes -> Nat]
      BY <1>0, <1>6, EventTyped DEF Receive, TypeOK, Clock
    <3>2. [n \in Nodes |-> Largest(clock[p][n], events[job[t].ev].clock[n])] \in Clock
      BY <3>1 DEF Clock, Largest
    <3> QED
      BY <1>6, <3>2 DEF Receive, TypeOK
  <2>5. TypeOK'
    BY <1>6, <2>1, <2>3, <2>4, SMTT(30) DEF Receive, Goto, TypeOK
  <2> QED
    BY <1>0, <1>6, <2>2, <2>5 DEF Receive
<1>7. ASSUME NEW t \in Threads, NEW p \in Nodes, IgnoreReplay(t, p) PROVE TypeInv'
  <2> DEFINE j == [job[t] EXCEPT !.todo = @ \ {p}]
  <2>1. j \in Job /\ j.ev \in DOMAIN events /\ Continue(t, j) /\ pc[t] # "create"
    BY <1>7 DEF IgnoreReplay, TypeOK, Job
  <2> QED
    BY <1>0, <1>7, <2>1, ContinueTyped DEF IgnoreReplay, TypeOK
<1>8. CASE UNCHANGED vars
  BY <1>0, <1>8 DEF vars, TypeOK, Creating
<1> QED
  BY <1>1, <1>2, <1>3, <1>4, <1>5, <1>6, <1>7, <1>8 DEF Next, Begin, Step

(* Nothing is created at first.                                            *)
LEMMA InitTyped == Init => TypeInv
<1> SUFFICES ASSUME Init PROVE TypeInv
  OBVIOUS
<1>1. Creating = {}
  BY DEF Init, Creating
<1>2. \A t \in Threads : NoJob(t) \in Job
  BY EventsAssumption DEF NoJob, Job
<1>3. TypeOK
  BY <1>2, EventsAssumption DEF Init, TypeOK, Clock
<1> QED
  BY <1>1, <1>3, FS_EmptySet, EventsAssumption DEF TypeInv, Init

(* The clocks, events, nonces and logs keep their types, and no more       *)
(* events are created than the bound.                                      *)
THEOREM TypeCorrect == Spec => []TypeOK
<1>1. TypeInv => TypeOK
  BY DEF TypeInv
<1> QED
  BY <1>1, InitTyped, TypeStep, PTL DEF Spec

-----------------------------------------------------------------------------
(* What a step does to the clocks and the events.                          *)
LEMMA ClockStep ==
  ASSUME TypeInv, [Next]_vars
  PROVE  \/ UNCHANGED <<clock, events, received>>
         \/ \E n \in Nodes : /\ clock' = [clock EXCEPT ![n][n] = @ + 1]
                             /\ UNCHANGED <<events, received>>
         \/ \E n \in Nodes : /\ events' = Append(events, [source |-> n, clock |-> clock[n]])
                             /\ UNCHANGED <<clock, received>>
         \/ \E p \in Nodes, e \in DOMAIN events :
              /\ received' = [received EXCEPT ![p] = Append(@, e)]
              /\ clock' = [clock EXCEPT ![p] =
                             [n \in Nodes |-> Largest(clock[p][n], events[e].clock[n])]]
              /\ UNCHANGED events
<1> USE EventsAssumption
<1>1. ASSUME NEW t \in Threads, NEW p \in Nodes, Receive(t, p)
      PROVE  \E q \in Nodes, e \in DOMAIN events :
              /\ received' = [received EXCEPT ![q] = Append(@, e)]
              /\ clock' = [clock EXCEPT ![q] =
                             [n \in Nodes |-> Largest(clock[q][n], events[e].clock[n])]]
              /\ UNCHANGED events
  <2>1. job[t].ev \in DOMAIN events
    BY <1>1 DEF Receive, TypeInv, TypeOK
  <2> QED
    BY <1>1, <2>1 DEF Receive, TypeInv, TypeOK
<1>2. ASSUME NEW t \in Threads, NEW sync \in BOOLEAN, IncrementClock(t, sync)
      PROVE  \E n \in Nodes : /\ clock' = [clock EXCEPT ![n][n] = @ + 1]
                              /\ UNCHANGED <<events, received>>
  BY <1>2 DEF IncrementClock
<1>3. ASSUME NEW t \in Threads, CreateEvent(t)
      PROVE  \E n \in Nodes : /\ events' = Append(events, [source |-> n, clock |-> clock[n]])
                              /\ UNCHANGED <<clock, received>>
  BY <1>3 DEF CreateEvent
<1>4. ASSUME NEW t \in Threads,
             \/ RecordOwn(t) \/ RecordAtPeer(t)
             \/ \E p \in Nodes : IgnoreReplay(t, p)
             \/ \E e \in Ids, p \in Nodes : Replay(t, e, p)
      PROVE  UNCHANGED <<clock, events, received>>
  BY <1>4 DEF RecordOwn, RecordAtPeer, IgnoreReplay, Replay
<1>5. CASE UNCHANGED vars
  BY <1>5 DEF vars
<1> QED
  BY <1>1, <1>2, <1>3, <1>4, <1>5 DEF Next, Begin, Step

(* No node and no event ever knows more of a node than the node itself,    *)
(* however its threads' counting and copying of the clock interleave.      *)
THEOREM ClocksAreSound == Spec => []ClockSound
<1>1. Init => ClockSound
  BY DEF Init, ClockSound
<1>2. TypeInv /\ ClockSound /\ [Next]_vars => ClockSound'
  <2> SUFFICES ASSUME TypeInv, ClockSound, [Next]_vars PROVE ClockSound'
    OBVIOUS
  <2>0. /\ TypeOK /\ clock \in [Nodes -> [Nodes -> Nat]]
        /\ \A e \in DOMAIN events : events[e].clock \in [Nodes -> Nat]
    BY EventTyped DEF TypeInv, TypeOK, Clock
  <2>1. CASE UNCHANGED <<clock, events, received>>
    BY <2>1 DEF ClockSound
  <2>2. ASSUME NEW n \in Nodes, clock' = [clock EXCEPT ![n][n] = @ + 1], UNCHANGED events
        PROVE  ClockSound'
    <3>1. /\ \A m \in Nodes : clock[m][m] <= clock'[m][m]
          /\ \A m, k \in Nodes : m # k => clock'[m][k] = clock[m][k]
          /\ \A m, k \in Nodes : clock'[m][k] \in Nat
      BY <2>0, <2>2
    <3> QED
      BY <2>0, <2>2, <3>1 DEF ClockSound
  <2>3. ASSUME NEW n \in Nodes, UNCHANGED clock,
               events' = Append(events, [source |-> n, clock |-> clock[n]])
        PROVE  ClockSound'
    <3>1. \A e \in DOMAIN events' : \/ e \in DOMAIN events /\ events'[e] = events[e]
                                    \/ events'[e].clock = clock[n]
      BY <2>0, <2>3, EventAppended DEF Clock
    <3> QED
      BY <2>3, <3>1 DEF ClockSound
  <2>4. ASSUME NEW p \in Nodes, NEW e \in DOMAIN events, UNCHANGED events,
               clock' = [clock EXCEPT ![p] =
                           [n \in Nodes |-> Largest(clock[p][n], events[e].clock[n])]]
        PROVE  ClockSound'
    <3>1. \A n \in Nodes : clock'[p][n] = clock[p][n] \/ clock'[p][n] = events[e].clock[n]
      BY <2>0, <2>4 DEF Largest
    <3>2. clock'[p][p] = clock[p][p]
      BY <2>0, <2>4 DEF Largest, ClockSound
    <3>3. \A m \in Nodes : m # p => clock'[m] = clock[m]
      BY <2>0, <2>4
    <3> QED
      BY <2>4, <3>1, <3>2, <3>3 DEF ClockSound
  <2> QED
    BY <2>1, <2>2, <2>3, <2>4, ClockStep
<1>3. Spec => []TypeInv
  BY InitTyped, TypeStep, PTL DEF Spec
<1> QED
  BY <1>1, <1>2, <1>3, PTL DEF Spec

(* A node's clock covers every event it accepted, in whatever order its    *)
(* threads deliver them and whatever nonces it has forgotten.              *)
THEOREM AcceptedStaysCovered == Spec => []AcceptedIsCovered
<1> DEFINE Known == \A n \in Nodes : \A i \in DOMAIN received[n] : received[n][i] \in DOMAIN events
           Inv == Known /\ AcceptedIsCovered
<1>1. Init => Inv
  BY DEF Init, AcceptedIsCovered
<1>2. TypeInv /\ Inv /\ [Next]_vars => Inv'
  <2> SUFFICES ASSUME TypeInv, Inv, [Next]_vars PROVE Inv'
    OBVIOUS
  <2>0. /\ TypeOK /\ clock \in [Nodes -> [Nodes -> Nat]]
        /\ \A e \in DOMAIN events : events[e].clock \in [Nodes -> Nat]
    BY EventTyped DEF TypeInv, TypeOK, Clock
  <2>1. CASE UNCHANGED <<clock, events, received>>
    BY <2>1 DEF AcceptedIsCovered, Covers
  <2>2. ASSUME NEW n \in Nodes, clock' = [clock EXCEPT ![n][n] = @ + 1],
               UNCHANGED <<events, received>>
        PROVE  Inv'
    <3>1. \A m, k \in Nodes : clock[m][k] <= clock'[m][k] /\ clock'[m][k] \in Nat
      BY <2>0, <2>2
    <3> QED
      BY <2>0, <2>2, <3>1 DEF AcceptedIsCovered, Covers
  <2>3. ASSUME NEW n \in Nodes, UNCHANGED <<clock, received>>,
               events' = Append(events, [source |-> n, clock |-> clock[n]])
        PROVE  Inv'
    <3>1. \A e \in DOMAIN events : e \in DOMAIN events' /\ events'[e] = events[e]
      BY <2>0, <2>3, EventAppended DEF Clock
    <3> QED
      BY <2>3, <3>1 DEF AcceptedIsCovered, Covers
  <2>4. ASSUME NEW p \in Nodes, NEW e \in DOMAIN events, UNCHANGED events,
               received' = [received EXCEPT ![p] = Append(@, e)],
               clock' = [clock EXCEPT ![p] =
                           [n \in Nodes |-> Largest(clock[p][n], events[e].clock[n])]]
        PROVE  Inv'
    <3>1. \A n \in Nodes : clock[p][n] <= clock'[p][n] /\ events[e].clock[n] <= clock'[p][n]
                           /\ clock'[p][n] \in Nat
      BY <2>0, <2>4 DEF Largest
    <3>2. \A m \in Nodes : m # p => clock'[m] = clock[m] /\ received'[m] = received[m]
      BY <2>0, <2>4 DEF TypeOK
    <3>3. received[p] \in Seq(Ids) /\ received'[p] = Append(received[p], e)
      BY <2>0, <2>4 DEF TypeOK
    <3>4. \A i \in DOMAIN received'[p] :
            \/ i \in DOMAIN received[p] /\ received'[p][i] = received[p][i]
            \/ received'[p][i] = e
      BY <3>3
    <3>5. Known'
      BY <2>4, <3>2, <3>4
    <3>6. \A i \in DOMAIN received'[p] : Covers(clock'[p], events[received'[p][i]].clock)
      BY <2>0, <3>1, <3>4 DEF AcceptedIsCovered, Covers
    <3> QED
      BY <2>4, <3>2, <3>5, <3>6 DEF AcceptedIsCovered, Covers
  <2> QED
    BY <2>1, <2>2, <2>3, <2>4, ClockStep
<1>3. Spec => []TypeInv
  BY InitTyped, TypeStep, PTL DEF Spec
<1>4. Inv => AcceptedIsCovered
  OBVIOUS
<1> QED
  BY <1>1, <1>2, <1>3, <1>4, PTL DEF Spec

-----------------------------------------------------------------------------
(* Why an event is recorded as often as it was accepted.  Somebody is about *)
(* to write the event into the node's log.                                 *)
Writes(t, n, e) ==
  /\ job[t].ev = e
  /\ \/ pc[t] = "record" /\ NodeOf[t] = n
     \/ pc[t] = "apply" /\ job[t].at = n
Pending(n, e) == {t \in Threads : Writes(t, n, e)}

(* What is written and what is about to be written is what was accepted and *)
(* what was created.                                                       *)
Balance(n, e) ==
  Times(log[n], e) + Cardinality(Pending(n, e)) = Times(received[n], e) + Own(n, e)
Balanced == \A n \in Nodes, e \in Ids : Balance(n, e)

Apart ==
  \A n \in Nodes : \A i, j \in DOMAIN received[n] :
    i < j /\ received[n][i] = received[n][j] => j - i > MaxNonces

OnceInv == Balanced /\ Apart

(* Appending adds one element at the end.                                  *)
LEMMA AppendedId ==
  ASSUME NEW s \in Seq(Ids), NEW e \in Ids
  PROVE  /\ Len(Append(s, e)) = Len(s) + 1 /\ Len(s) \in Nat
         /\ DOMAIN Append(s, e) = DOMAIN s \union {Len(s) + 1} /\ Len(s) + 1 \notin DOMAIN s
         /\ \A i \in DOMAIN s : Append(s, e)[i] = s[i]
         /\ Append(s, e)[Len(s) + 1] = e
  OBVIOUS

LEMMA TimesTyped == ASSUME NEW s \in Seq(Ids), NEW e PROVE Times(s, e) \in Nat
<1>1. IsFiniteSet(1..Len(s)) /\ DOMAIN s = 1..Len(s)
  BY LenProperties, FS_Interval
<1>2. IsFiniteSet({i \in DOMAIN s : s[i] = e})
  BY <1>1, FS_Subset
<1> QED
  BY <1>2, FS_CardinalityType DEF Times

(* One more of the element appended, as many of the others.                *)
LEMMA TimesAppend ==
  ASSUME NEW s \in Seq(Ids), NEW x \in Ids, NEW e \in Ids
  PROVE  Times(Append(s, x), e) = Times(s, e) + (IF x = e THEN 1 ELSE 0)
<1> DEFINE old == {i \in DOMAIN s : s[i] = e}
           new == {i \in DOMAIN Append(s, x) : Append(s, x)[i] = e}
<1>1. IsFiniteSet(1..Len(s)) /\ DOMAIN s = 1..Len(s)
  BY LenProperties, FS_Interval
<1>2. IsFiniteSet(old) /\ Cardinality(old) \in Nat
  BY <1>1, FS_Subset, FS_CardinalityType
<1>5. Times(s, e) = Cardinality(old) /\ Times(Append(s, x), e) = Cardinality(new)
  BY DEF Times
<1>3. CASE x = e
  <2>1. new = old \union {Len(s) + 1} /\ Len(s) + 1 \notin old
    BY <1>3, AppendedId
  <2>2. Cardinality(new) = Cardinality(old) + 1
    BY <1>2, <2>1, FS_AddElement
  <2> HIDE DEF old, new
  <2> QED
    BY <1>2, <1>3, <1>5, <2>2
<1>4. CASE x # e
  <2>1. new = old
    BY <1>4, AppendedId
  <2> HIDE DEF old, new
  <2> QED
    BY <1>2, <1>4, <1>5, <2>1
<1> QED
  BY <1>3, <1>4

(* How the number of writers changes with the thread that moves.           *)
LEMMA PendingTyped ==
  \A n, e : IsFiniteSet(Pending(n, e)) /\ Cardinality(Pending(n, e)) \in Nat
<1>1. \A n, e : Pending(n, e) \in SUBSET Threads
  BY DEF Pending
<1> QED
  BY <1>1, CreatingFinite

LEMMA PendingChanges ==
  ASSUME NEW t \in Threads, NEW n, NEW e,
         \A u \in Threads \ {t} : pc'[u] = pc[u] /\ job'[u] = job[u]
  PROVE  /\ (Writes(t, n, e)' <=> Writes(t, n, e)) =>
              Cardinality(Pending(n, e))' = Cardinality(Pending(n, e))
         /\ Writes(t, n, e)' /\ ~Writes(t, n, e) =>
              Cardinality(Pending(n, e))' = Cardinality(Pending(n, e)) + 1
         /\ ~Writes(t, n, e)' /\ Writes(t, n, e) =>
              Cardinality(Pending(n, e))' = Cardinality(Pending(n, e)) - 1
<1>1. \A u \in Threads \ {t} : Writes(u, n, e)' <=> Writes(u, n, e)
  BY DEF Writes
<1>2. IsFiniteSet(Pending(n, e))
  BY PendingTyped
<1>3. ASSUME Writes(t, n, e)' <=> Writes(t, n, e)
      PROVE  Cardinality(Pending(n, e))' = Cardinality(Pending(n, e))
  <2>1. Pending(n, e)' = Pending(n, e)
    BY <1>1, <1>3 DEF Pending
  <2> QED
    BY <2>1
<1>4. ASSUME Writes(t, n, e)', ~Writes(t, n, e)
      PROVE  Cardinality(Pending(n, e))' = Cardinality(Pending(n, e)) + 1
  <2>1. Pending(n, e)' = Pending(n, e) \union {t} /\ t \notin Pending(n, e)
    BY <1>1, <1>4 DEF Pending
  <2> QED
    BY <1>2, <2>1, FS_AddElement
<1>5. ASSUME ~Writes(t, n, e)', Writes(t, n, e)
      PROVE  Cardinality(Pending(n, e))' = Cardinality(Pending(n, e)) - 1
  <2>1. Pending(n, e)' = Pending(n, e) \ {t} /\ t \in Pending(n, e)
    BY <1>1, <1>5 DEF Pending
  <2> QED
    BY <1>2, <2>1, FS_RemoveElement
<1> QED
  BY <1>3, <1>4, <1>5

(* A nonce that is not seen and was received is MaxNonces others back.     *)
LEMMA UnseenIsFar ==
  ASSUME TypeOK, NEW p \in Nodes, NEW e, e \notin Seen(p),
         NEW i \in DOMAIN received[p], received[p][i] = e
  PROVE  i + MaxNonces <= Len(received[p])
<1> DEFINE s == received[p]
           m == Largest(1, Len(s) - MaxNonces + 1)
<1>1. s \in Seq(Ids) /\ Len(s) \in Nat /\ MaxNonces \in Nat \ {0} /\ i \in 1..Len(s)
  BY EventsAssumption, LenProperties DEF TypeOK
<1>2. m \in 1..(Len(s) + 1) /\ m >= Len(s) - MaxNonces + 1
      /\ (m = 1 \/ m = Len(s) - MaxNonces + 1)
  BY <1>1 DEF Largest
<1> HIDE DEF m
<1>3. SUFFICES ASSUME i >= m PROVE FALSE
  BY <1>1, <1>2
<1>4. /\ Len(SubSeq(s, m, Len(s))) = Len(s) - m + 1
      /\ \A k \in 1..(Len(s) - m + 1) : SubSeq(s, m, Len(s))[k] = s[m + k - 1]
      /\ DOMAIN SubSeq(s, m, Len(s)) = 1..(Len(s) - m + 1)
  BY <1>1, <1>2
<1>5. i - m + 1 \in 1..(Len(s) - m + 1) /\ m + (i - m + 1) - 1 = i
  BY <1>1, <1>2, <1>3
<1>6. SubSeq(s, m, Len(s))[i - m + 1] = e
  BY <1>4, <1>5
<1> QED
  BY <1>4, <1>5, <1>6 DEF Seen, Window, m

(* What Continue leaves alone.                                             *)
LEMMA ContinueEffect ==
  ASSUME TypeOK, NEW t \in Threads, NEW j, Continue(t, j)
  PROVE  /\ \A u \in Threads \ {t} : pc'[u] = pc[u] /\ job'[u] = job[u]
         /\ pc'[t] \in {"idle", "send"}
  BY DEF Continue, Goto, TypeOK

LEMMA OnceStep == TypeInv /\ OnceInv /\ [Next]_vars => OnceInv'
<1> SUFFICES ASSUME TypeInv, OnceInv, [Next]_vars PROVE OnceInv'
  OBVIOUS
<1> USE EventsAssumption
<1>0. /\ TypeOK
      /\ \A t \in Threads : job[t].at \in Nodes /\ NodeOf[t] \in Nodes
      /\ \A t \in Threads : pc[t] \in {"record", "send", "apply"} =>
           job[t].ev \in DOMAIN events /\ job[t].ev \in Ids
      /\ \A n \in Nodes : log[n] \in Seq(Ids) /\ received[n] \in Seq(Ids)
      /\ Balanced /\ Apart
  BY DEF TypeInv, TypeOK, Job, OnceInv, Ids
<1>T. /\ \A n \in Nodes, e \in Ids : Times(log[n], e) \in Nat /\ Times(received[n], e) \in Nat
      /\ \A n, e : Cardinality(Pending(n, e)) \in Nat /\ Own(n, e) \in Nat
  BY <1>0, TimesTyped, PendingTyped DEF Own
<1>1. ASSUME NEW t \in Threads, NEW l, NEW j,
             pc[t] \in {"idle", "send"}, l \in {"idle", "send", "create"},
             Goto(t, l, j), UNCHANGED <<events, received, log>>
      PROVE  OnceInv'
  <2>1. /\ \A u \in Threads \ {t} : pc'[u] = pc[u] /\ job'[u] = job[u]
        /\ pc'[t] = l
    BY <1>0, <1>1 DEF Goto, TypeOK
  <2>2. \A n, e : ~Writes(t, n, e) /\ ~Writes(t, n, e)'
    BY <1>1, <2>1 DEF Writes
  <2>3. \A n, e : Cardinality(Pending(n, e))' = Cardinality(Pending(n, e))
    BY <2>1, <2>2, PendingChanges
  <2>4. Balanced'
    BY <1>0, <1>1, <2>3 DEF Balanced, Balance, Own
  <2>5. Apart'
    BY <1>0, <1>1 DEF Apart
  <2> QED
    BY <2>4, <2>5 DEF OnceInv
<1>2. ASSUME NEW t \in Threads, NEW sync \in BOOLEAN, IncrementClock(t, sync) PROVE OnceInv'
  BY <1>1, <1>2 DEF IncrementClock
<1>3. ASSUME NEW t \in Threads, NEW e \in Ids, NEW p \in Nodes, Replay(t, e, p) PROVE OnceInv'
  BY <1>1, <1>3 DEF Replay
<1>4. ASSUME NEW t \in Threads, NEW p \in Nodes, IgnoreReplay(t, p) PROVE OnceInv'
  BY <1>1, <1>4 DEF IgnoreReplay, Continue
<1>5. ASSUME NEW t \in Threads, CreateEvent(t) PROVE OnceInv'
  <2> DEFINE x == Len(events) + 1
  <2>0. /\ \A d \in DOMAIN events : d # x /\ events'[d] = events[d]
        /\ DOMAIN events' = DOMAIN events \union {x}
        /\ events'[x].source = NodeOf[t]
    <3>1. events \in Seq([source : Nodes, clock : Clock]) /\ clock[NodeOf[t]] \in Clock
      BY <1>0 DEF TypeOK
    <3>2. events' = Append(events, [source |-> NodeOf[t], clock |-> clock[NodeOf[t]]])
      BY <1>5 DEF CreateEvent
    <3>3. [source |-> NodeOf[t], clock |-> clock[NodeOf[t]]] \in [source : Nodes, clock : Clock]
      BY <1>0, <3>1
    <3> HIDE DEF x
    <3>4. /\ DOMAIN events = 1..Len(events) /\ Len(events) \in Nat
          /\ DOMAIN events' = 1..(Len(events) + 1)
          /\ \A d \in 1..Len(events) : events'[d] = events[d]
          /\ events'[Len(events) + 1] = [source |-> NodeOf[t], clock |-> clock[NodeOf[t]]]
      BY <3>1, <3>2, <3>3, AppendProperties, LenProperties
    <3>5. DOMAIN events' = DOMAIN events \union {Len(events) + 1}
      BY <3>4
    <3> QED
      BY <3>4, <3>5 DEF x
  <2> HIDE DEF x
  <2>1. /\ \A u \in Threads \ {t} : pc'[u] = pc[u] /\ job'[u] = job[u]
        /\ pc[t] = "create" /\ pc'[t] = "record" /\ job'[t].ev = x
        /\ UNCHANGED <<received, log>>
    BY <1>0, <1>5 DEF CreateEvent, Goto, TypeOK, Job, x
  <2>2. ASSUME NEW n \in Nodes, NEW e \in Ids PROVE Balance(n, e)'
    <3>1. ~Writes(t, n, e) /\ (Writes(t, n, e)' <=> n = NodeOf[t] /\ e = x)
      BY <2>1 DEF Writes
    <3>2. CASE n = NodeOf[t] /\ e = x
      <4>1. Cardinality(Pending(n, e))' = Cardinality(Pending(n, e)) + 1
        BY <2>1, <3>1, <3>2, PendingChanges
      <4>2. Own(n, e) = 0 /\ Own(n, e)' = 1
        BY <2>0, <3>2 DEF Own
      <4>3. Times(log[n], e)' = Times(log[n], e) /\ Times(received[n], e)' = Times(received[n], e)
        BY <2>1
      <4> QED
        BY <1>0, <1>T, <4>1, <4>2, <4>3 DEF Balanced, Balance
    <3>3. CASE ~(n = NodeOf[t] /\ e = x)
      <4>1. Cardinality(Pending(n, e))' = Cardinality(Pending(n, e))
        BY <2>1, <3>1, <3>3, PendingChanges
      <4>2. Own(n, e)' = Own(n, e)
        BY <2>0, <3>3 DEF Own
      <4>3. Times(log[n], e)' = Times(log[n], e) /\ Times(received[n], e)' = Times(received[n], e)
        BY <2>1
      <4> QED
        BY <1>0, <4>1, <4>2, <4>3 DEF Balanced, Balance
    <3> QED
      BY <3>2, <3>3
  <2>3. Apart'
    BY <1>0, <2>1 DEF Apart
  <2> QED
    BY <2>2, <2>3 DEF OnceInv, Balanced
<1>6. ASSUME NEW t \in Threads, NEW m \in Nodes, NEW j, Continue(t, j),
             (pc[t] = "record" /\ NodeOf[t] = m) \/ (pc[t] = "apply" /\ job[t].at = m),
             AppendTo(m, job[t].ev), UNCHANGED <<events, received>>
      PROVE  OnceInv'
  <2> DEFINE x == job[t].ev
  <2>1. /\ \A u \in Threads \ {t} : pc'[u] = pc[u] /\ job'[u] = job[u]
        /\ pc'[t] \in {"idle", "send"} /\ x \in Ids
        /\ log'[m] = Append(log[m], x)
        /\ \A n \in Nodes \ {m} : log'[n] = log[n]
    BY <1>0, <1>6, ContinueEffect DEF AppendTo, TypeOK
  <2> HIDE DEF x
  <2>2. ASSUME NEW n \in Nodes, NEW e \in Ids PROVE Balance(n, e)'
    <3>0. Times(received[n], e)' = Times(received[n], e) /\ Own(n, e)' = Own(n, e)
      BY <1>6 DEF Own
    <3>1. ~Writes(t, n, e)' /\ (Writes(t, n, e) <=> n = m /\ e = x)
      BY <1>6, <2>1 DEF Writes, x
    <3>2. CASE n = m /\ e = x
      <4>1. Cardinality(Pending(n, e))' = Cardinality(Pending(n, e)) - 1
        BY <2>1, <3>1, <3>2, PendingChanges
      <4>2. Times(log[n], e)' = Times(log[n], e) + 1
        <5>1. Times(Append(log[m], x), e) = Times(log[m], e) + 1
          BY <1>0, <2>1, <3>2, TimesAppend
        <5>2. log'[n] = Append(log[m], x)
          BY <2>1, <3>2
        <5> QED
          BY <3>2, <5>1, <5>2 DEF Times
      <4>3. Balance(n, e)
        BY <1>0 DEF Balanced
      <4>4. /\ Times(log[n], e) \in Nat /\ Times(received[n], e) \in Nat
            /\ Cardinality(Pending(n, e)) \in Nat /\ Own(n, e) \in Nat
        BY <1>T
      <4> QED
        BY <3>0, <4>1, <4>2, <4>3, <4>4 DEF Balance
    <3>3. CASE ~(n = m /\ e = x)
      <4>1. Cardinality(Pending(n, e))' = Cardinality(Pending(n, e))
        BY <2>1, <3>1, <3>3, PendingChanges
      <4>2. Times(log[n], e)' = Times(log[n], e)
        <5>1. CASE n = m
          <6>1. Times(Append(log[m], x), e) = Times(log[m], e) + 0
            BY <1>0, <2>1, <3>3, <5>1, TimesAppend
          <6>2. log'[n] = Append(log[m], x)
            BY <2>1, <5>1
          <6>3. Times(log[n], e)' = Times(log[n], e) + 0
            BY <5>1, <6>1, <6>2 DEF Times
          <6> QED
            BY <1>T, <6>3
        <5>2. CASE n # m
          BY <2>1, <5>2 DEF Times
        <5> QED
          BY <5>1, <5>2
      <4> QED
        BY <1>0, <3>0, <4>1, <4>2 DEF Balanced, Balance
    <3> QED
      BY <3>2, <3>3
  <2>3. Apart'
    BY <1>0, <1>6 DEF Apart
  <2> QED
    BY <2>2, <2>3 DEF OnceInv, Balanced
<1>7. ASSUME NEW t \in Threads, RecordOwn(t) \/ RecordAtPeer(t) PROVE OnceInv'
  <2>1. CASE RecordOwn(t)
    <3> DEFINE j == [job[t] EXCEPT !.todo = IF job[t].sync THEN {} ELSE Nodes \ {NodeOf[t]}]
    <3>1. PICK m \in Nodes : m = NodeOf[t]
      BY <1>0
    <3>2. /\ Continue(t, j) /\ pc[t] = "record" /\ NodeOf[t] = m
          /\ AppendTo(m, job[t].ev) /\ UNCHANGED <<events, received>>
      BY <2>1, <3>1 DEF RecordOwn
    <3> HIDE DEF j
    <3>3. (pc[t] = "record" /\ NodeOf[t] = m) \/ (pc[t] = "apply" /\ job[t].at = m)
      BY <3>2
    <3> QED
      BY <1>6, <3>2, <3>3, Zenon
  <2>2. CASE RecordAtPeer(t)
    <3> DEFINE j == [job[t] EXCEPT !.at = NodeOf[t]]
    <3>1. /\ Continue(t, j) /\ pc[t] = "apply" /\ job[t].at \in Nodes
          /\ AppendTo(job[t].at, job[t].ev) /\ UNCHANGED <<events, received>>
      BY <1>0, <2>2 DEF RecordAtPeer
    <3> HIDE DEF j
    <3> QED
      BY <1>6, <3>1
  <2> QED
    BY <1>7, <2>1, <2>2
<1>8. ASSUME NEW t \in Threads, NEW p \in Nodes, Receive(t, p) PROVE OnceInv'
  <2> DEFINE x == job[t].ev
  <2>1. /\ \A u \in Threads \ {t} : pc'[u] = pc[u] /\ job'[u] = job[u]
        /\ pc[t] = "send" /\ pc'[t] = "apply" /\ job'[t].ev = x /\ job'[t].at = p
        /\ UNCHANGED <<events, log>> /\ x \in Ids /\ x \notin Seen(p)
        /\ received'[p] = Append(received[p], x)
        /\ \A n \in Nodes \ {p} : received'[n] = received[n]
    BY <1>0, <1>8 DEF Receive, Goto, TypeOK, Job
  <2> HIDE DEF x
  <2>2. ASSUME NEW n \in Nodes, NEW e \in Ids PROVE Balance(n, e)'
    <3>0. Times(log[n], e)' = Times(log[n], e) /\ Own(n, e)' = Own(n, e)
      BY <2>1 DEF Own
    <3>1. ~Writes(t, n, e) /\ (Writes(t, n, e)' <=> n = p /\ e = x)
      BY <2>1 DEF Writes
    <3>2. CASE n = p /\ e = x
      <4>1. Cardinality(Pending(n, e))' = Cardinality(Pending(n, e)) + 1
        BY <2>1, <3>1, <3>2, PendingChanges
      <4>2. Times(received[n], e)' = Times(received[n], e) + 1
        <5>1. Times(Append(received[p], x), e) = Times(received[p], e) + 1
          BY <1>0, <2>1, <3>2, TimesAppend
        <5>2. received'[n] = Append(received[p], x)
          BY <2>1, <3>2
        <5> QED
          BY <3>2, <5>1, <5>2 DEF Times
      <4>3. Balance(n, e)
        BY <1>0 DEF Balanced
      <4>4. /\ Times(log[n], e) \in Nat /\ Times(received[n], e) \in Nat
            /\ Cardinality(Pending(n, e)) \in Nat /\ Own(n, e) \in Nat
        BY <1>T
      <4> QED
        BY <3>0, <4>1, <4>2, <4>3, <4>4 DEF Balance
    <3>3. CASE ~(n = p /\ e = x)
      <4>1. Cardinality(Pending(n, e))' = Cardinality(Pending(n, e))
        BY <2>1, <3>1, <3>3, PendingChanges
      <4>2. Times(received[n], e)' = Times(received[n], e)
        <5>1. CASE n = p
          <6>1. Times(Append(received[p], x), e) = Times(received[p], e) + 0
            BY <1>0, <2>1, <3>3, <5>1, TimesAppend
          <6>2. received'[n] = Append(received[p], x)
            BY <2>1, <5>1
          <6>3. Times(received[n], e)' = Times(received[n], e) + 0
            BY <5>1, <6>1, <6>2 DEF Times
          <6> QED
            BY <1>T, <6>3
        <5>2. CASE n # p
          BY <2>1, <5>2 DEF Times
        <5> QED
          BY <5>1, <5>2
      <4> QED
        BY <1>0, <3>0, <4>1, <4>2 DEF Balanced, Balance
    <3> QED
      BY <3>2, <3>3
  <2>3. ASSUME NEW n \in Nodes, NEW i \in DOMAIN received'[n], NEW k \in DOMAIN received'[n],
               i < k, received'[n][i] = received'[n][k]
        PROVE  k - i > MaxNonces
    <3>1. CASE n # p
      BY <1>0, <2>1, <2>3, <3>1 DEF Apart
    <3>2. CASE n = p
      <4> DEFINE s == received[p]
      <4>1. /\ s \in Seq(Ids) /\ DOMAIN s = 1..Len(s) /\ Len(s) \in Nat
            /\ DOMAIN received'[p] = DOMAIN s \union {Len(s) + 1}
            /\ \A d \in DOMAIN s : received'[p][d] = s[d]
            /\ received'[p][Len(s) + 1] = x
        BY <1>0, <2>1, AppendedId, LenProperties
      <4> HIDE DEF s
      <4>2. i \in DOMAIN s
        BY <2>3, <3>2, <4>1
      <4>3. CASE k \in DOMAIN s
        BY <1>0, <2>3, <3>2, <4>1, <4>2, <4>3 DEF Apart, s
      <4>4. CASE k = Len(s) + 1
        <5>1. s[i] = x
          BY <2>3, <3>2, <4>1, <4>2, <4>4
        <5>2. i + MaxNonces <= Len(s)
          BY <1>0, <2>1, <4>2, <5>1, UnseenIsFar DEF s
        <5> QED
          BY <4>1, <4>2, <4>4, <5>2
      <4> QED
        BY <2>3, <3>2, <4>1, <4>3, <4>4
    <3> QED
      BY <3>1, <3>2
  <2>4. Apart'
    BY <2>3 DEF Apart
  <2> QED
    BY <2>2, <2>4 DEF OnceInv, Balanced
<1>9. CASE UNCHANGED vars
  BY <1>0, <1>9 DEF vars, OnceInv, Balanced, Balance, Pending, Writes, Own, Apart
<1> QED
  BY <1>2, <1>3, <1>4, <1>5, <1>7, <1>8, <1>9 DEF Next, Begin, Step

(* At first nothing is created, accepted or about to be written.           *)
LEMMA OnceInit == Init => OnceInv
<1> SUFFICES ASSUME Init PROVE OnceInv
  OBVIOUS
<1>1. ASSUME NEW n \in Nodes, NEW e \in Ids PROVE Balance(n, e)
  <2>1. Pending(n, e) = {}
    BY DEF Init, Pending, Writes
  <2>2. {i \in DOMAIN log[n] : log[n][i] = e} = {} /\ {i \in DOMAIN received[n] : received[n][i] = e} = {}
    BY <1>1 DEF Init
  <2>3. Own(n, e) = 0
    BY DEF Init, Own
  <2> QED
    BY <2>1, <2>2, <2>3, FS_EmptySet DEF Balance, Times
<1>2. Apart
  BY DEF Init, Apart
<1> QED
  BY <1>1, <1>2 DEF OnceInv, Balanced

(* "Replay-safe": for any number of threads delivering and replaying any   *)
(* events to any node, a log has an event as often as it was accepted and  *)
(* created there, and no nonce is accepted again while it is kept.         *)
THEOREM LogsAreReplaySafe == Spec => []RecordedOnce
<1>1. TypeInv /\ OnceInv => RecordedOnce
  <2> SUFFICES ASSUME TypeInv, OnceInv PROVE RecordedOnce
    OBVIOUS
  <2>1. ASSUME NEW n \in Nodes, NEW e \in Ids
        PROVE  Times(log[n], e) <= Times(received[n], e) + Own(n, e)
    <3>1. log[n] \in Seq(Ids) /\ received[n] \in Seq(Ids)
      BY DEF TypeInv, TypeOK
    <3>2. /\ Times(log[n], e) \in Nat /\ Times(received[n], e) \in Nat
          /\ Cardinality(Pending(n, e)) \in Nat /\ Own(n, e) \in Nat
      BY <3>1, TimesTyped, PendingTyped DEF Own
    <3>3. Balance(n, e)
      BY DEF OnceInv, Balanced
    <3> QED
      BY <3>2, <3>3 DEF Balance
  <2> QED
    BY <2>1 DEF OnceInv, Apart, RecordedOnce
<1> QED
  BY <1>1, OnceInit, InitTyped, TypeStep, OnceStep, PTL DEF Spec
=============================================================================
