-------------------------- MODULE FederationEvents --------------------------
(***************************************************************************)
(* federated_registry.py: the events that federated nodes send each other, *)
(* their vector clocks, the nonces that stop replays and the hash-chained  *)
(* audit log of each node.  What an event makes a node do to its records   *)
(* and leases is Federation.                                               *)
(***************************************************************************)
EXTENDS Naturals, Sequences, FiniteSets

CONSTANTS
  Nodes,
  Threads,      \* request handlers and reapers
  NodeOf,       \* the node a thread works for
  MaxEvents,    \* bound on the events created
  MaxNonces,    \* config.MAX_SEEN_NONCES
  MaxReplays    \* bound on the events delivered a second time

ASSUME EventsAssumption ==
  /\ IsFiniteSet(Threads) /\ NodeOf \in [Threads -> Nodes]
  /\ MaxEvents \in Nat /\ MaxNonces \in Nat \ {0} /\ MaxReplays \in Nat

Ids == 1..MaxEvents
Clock == [Nodes -> Nat]

VARIABLES
  clock,      \* _vector_clock of every node
  events,     \* the events created; its index is the event's nonce
  received,   \* _nonce_order of every node, evicted nonces included
  log,        \* _events of every audit log
  replays,    \* deliveries made by a caller, not by the sender
  pc, job     \* a thread's place, event, peers not told yet, node it is at

vars == <<clock, events, received, log, replays, pc, job>>

Job == [ev : Ids \union {0}, sync : BOOLEAN, todo : SUBSET Nodes, at : Nodes]
NoJob(t) == [ev |-> 0, sync |-> FALSE, todo |-> {}, at |-> NodeOf[t]]

TypeOK ==
  /\ clock \in [Nodes -> Clock]
  /\ events \in Seq([source : Nodes, clock : Clock]) /\ Len(events) <= MaxEvents
  /\ received \in [Nodes -> Seq(Ids)]
  /\ log \in [Nodes -> Seq(Ids)]
  /\ replays \in 0..MaxReplays
  /\ pc \in [Threads -> {"idle", "create", "record", "send", "apply"}]
  /\ job \in [Threads -> Job]
  /\ \A t \in Threads : pc[t] \in {"record", "send", "apply"} => job[t].ev \in DOMAIN events

Init ==
  /\ clock = [n \in Nodes |-> [m \in Nodes |-> 0]]
  /\ events = <<>>
  /\ received = [n \in Nodes |-> <<>>]
  /\ log = [n \in Nodes |-> <<>>]
  /\ replays = 0
  /\ pc = [t \in Threads |-> "idle"]
  /\ job = [t \in Threads |-> NoJob(t)]

Goto(t, l, j) == pc' = [pc EXCEPT ![t] = l] /\ job' = [job EXCEPT ![t] = j]

Continue(t, j) ==
  IF j.todo = {} THEN Goto(t, "idle", NoJob(t)) ELSE Goto(t, "send", j)

-----------------------------------------------------------------------------
(* A broadcast or a sync begins: _increment_clock() ...                    *)
IncrementClock(t, sync) ==
  /\ pc[t] = "idle"
  /\ Len(events) + Cardinality({u \in Threads : pc[u] = "create"}) < MaxEvents
  /\ clock' = [clock EXCEPT ![NodeOf[t]][NodeOf[t]] = @ + 1]
  /\ Goto(t, "create", [NoJob(t) EXCEPT !.sync = sync])
  /\ UNCHANGED <<events, received, log, replays>>

(* Mutant of CreateEvent: the event claims one more than was counted.      *)
CreateAhead(t) ==
  /\ pc[t] = "create"
  /\ events' = Append(events, [source |-> NodeOf[t],
                               clock |-> [clock[NodeOf[t]] EXCEPT ![NodeOf[t]] = @ + 1]])
  /\ Goto(t, "record", [job[t] EXCEPT !.ev = Len(events) + 1])
  /\ UNCHANGED <<clock, received, log, replays>>

(* Mutant of CreateEvent: the thread goes on without the event's nonce.    *)
CreateUnnamed(t) ==
  /\ pc[t] = "create"
  /\ events' = Append(events, [source |-> NodeOf[t], clock |-> clock[NodeOf[t]]])
  /\ Goto(t, "record", job[t])
  /\ UNCHANGED <<clock, received, log, replays>>

(* ... and, under the lock again, _create_event() copies the clock, which  *)
(* another thread of the node may have moved meanwhile.                    *)
CreateEvent(t) ==
  /\ pc[t] = "create"
  /\ events' = Append(events, [source |-> NodeOf[t], clock |-> clock[NodeOf[t]]])
  /\ Goto(t, "record", [job[t] EXCEPT !.ev = Len(events) + 1])
  /\ UNCHANGED <<clock, received, log, replays>>

(* FederationAuditLog.record()                                             *)
AppendTo(n, e) == log' = [log EXCEPT ![n] = Append(@, e)]

RecordOwn(t) ==
  /\ pc[t] = "record"
  /\ AppendTo(NodeOf[t], job[t].ev)
  /\ Continue(t, [job[t] EXCEPT !.todo = IF job[t].sync THEN {} ELSE Nodes \ {NodeOf[t]}])
  /\ UNCHANGED <<clock, events, received, replays>>

-----------------------------------------------------------------------------
Largest(i, j) == IF i >= j THEN i ELSE j

(* _seen_nonces: what is left of the order after evicting the oldest.      *)
Window(s) == SubSeq(s, Largest(1, Len(s) - MaxNonces + 1), Len(s))
Seen(n) == {Window(received[n])[i] : i \in DOMAIN Window(received[n])}

(* Mutant of Receive: the nonce is noted but not looked for.               *)
ReceiveAgain(t, p) ==
  /\ pc[t] = "send" /\ p \in job[t].todo
  /\ received' = [received EXCEPT ![p] = Append(@, job[t].ev)]
  /\ clock' = [clock EXCEPT ![p] =
                 [n \in Nodes |-> Largest(@[n], events[job[t].ev].clock[n])]]
  /\ Goto(t, "apply", [job[t] EXCEPT !.todo = @ \ {p}, !.at = p])
  /\ UNCHANGED <<events, log, replays>>

(* Mutant of Receive: the clock of the event replaces the node's.          *)
ReceiveClock(t, p) ==
  /\ pc[t] = "send" /\ p \in job[t].todo
  /\ job[t].ev \notin Seen(p)
  /\ received' = [received EXCEPT ![p] = Append(@, job[t].ev)]
  /\ clock' = [clock EXCEPT ![p] = events[job[t].ev].clock]
  /\ Goto(t, "apply", [job[t] EXCEPT !.todo = @ \ {p}, !.at = p])
  /\ UNCHANGED <<events, log, replays>>

(* receive_federation_event(): nonce and clock under the peer's lock.      *)
Receive(t, p) ==
  /\ pc[t] = "send" /\ p \in job[t].todo
  /\ job[t].ev \notin Seen(p)
  /\ received' = [received EXCEPT ![p] = Append(@, job[t].ev)]
  /\ clock' = [clock EXCEPT ![p] =
                 [n \in Nodes |-> Largest(@[n], events[job[t].ev].clock[n])]]
  /\ Goto(t, "apply", [job[t] EXCEPT !.todo = @ \ {p}, !.at = p])
  /\ UNCHANGED <<events, log, replays>>

IgnoreReplay(t, p) ==
  /\ pc[t] = "send" /\ p \in job[t].todo
  /\ job[t].ev \in Seen(p)
  /\ Continue(t, [job[t] EXCEPT !.todo = @ \ {p}])
  /\ UNCHANGED <<clock, events, received, log, replays>>

(* The event was applied; it is recorded in the peer's log.                *)
RecordAtPeer(t) ==
  /\ pc[t] = "apply"
  /\ AppendTo(job[t].at, job[t].ev)
  /\ Continue(t, [job[t] EXCEPT !.at = NodeOf[t]])
  /\ UNCHANGED <<clock, events, received, replays>>

(* A caller hands any node, the event's source too, an event that was      *)
(* created before: what the nonces are for.  A source does not note its own. *)
Replay(t, e, p) ==
  /\ pc[t] = "idle" /\ replays < MaxReplays
  /\ e \in DOMAIN events
  /\ replays' = replays + 1
  /\ Goto(t, "send", [NoJob(t) EXCEPT !.ev = e, !.todo = {p}])
  /\ UNCHANGED <<clock, events, received, log>>

-----------------------------------------------------------------------------
Step(t) ==
  \/ CreateEvent(t) \/ RecordOwn(t) \/ RecordAtPeer(t)
  \/ \E p \in Nodes : Receive(t, p) \/ IgnoreReplay(t, p)

Begin(t) ==
  \/ \E sync \in BOOLEAN : IncrementClock(t, sync)
  \/ \E e \in Ids, p \in Nodes : Replay(t, e, p)

Next == \E t \in Threads : Begin(t) \/ Step(t)

(* A thread that began a broadcast runs it to the end.                     *)
Spec == Init /\ [][Next]_vars /\ \A t \in Threads : WF_vars(Step(t))

-----------------------------------------------------------------------------
Covers(c, d) == \A n \in Nodes : d[n] <= c[n]

(* No node, and no event, knows more of a node than the node itself.       *)
ClockSound ==
  \A n \in Nodes :
    /\ \A m \in Nodes : clock[m][n] <= clock[n][n]
    /\ \A e \in DOMAIN events : events[e].clock[n] <= clock[n][n]

(* A node's clock covers every event it ever accepted, in whatever order   *)
(* they came.                                                              *)
AcceptedIsCovered ==
  \A n \in Nodes : \A i \in DOMAIN received[n] :
    Covers(clock[n], events[received[n][i]].clock)

(* "Replay-safe: rejects events with previously seen nonces"               *)
(* (federated_registry.py:557), for events delivered by many threads, late, *)
(* again, or back to their source: a node's log has an event no more often *)
(* than the node accepted it, and once more where it was created; and it is *)
(* accepted again only after its own nonce was pushed out, MaxNonces others *)
(* later.                                                                  *)
Times(s, e) == Cardinality({i \in DOMAIN s : s[i] = e})
Own(n, e) == IF e \in DOMAIN events /\ events[e].source = n THEN 1 ELSE 0

RecordedOnce ==
  \A n \in Nodes :
    /\ \A e \in Ids : Times(log[n], e) <= Times(received[n], e) + Own(n, e)
    /\ \A i, j \in DOMAIN received[n] :
         i < j /\ received[n][i] = received[n][j] => j - i > MaxNonces
=============================================================================
