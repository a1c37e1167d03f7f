----------------------------- MODULE Federation -----------------------------
(***************************************************************************)
(* federated_registry.py, heartbeat_manager.py and the part of             *)
(* platform_service_registry.py they use: nodes that hold service records  *)
(* and leases, tell each other of registrations and removals, pull each    *)
(* other's records, and reap the services whose lease ran out.  All nodes  *)
(* live in one process; an operation is a run of critical sections of one  *)
(* thread, on its own node and on its peers.  What an event carries besides *)
(* its record (clock, nonce, audit chain) is FederationEvents.             *)
(***************************************************************************)
EXTENDS Naturals

CONSTANTS
  Nodes, Services,
  Workers,      \* threads that serve requests, and the one that starts the nodes
  NodeOf,       \* the node a worker's requests work on
  Asks,         \* what a worker is asked to do
  Versions,
  MaxStamp,     \* bound on the records ever created
  TTL           \* lease length in ticks

ASSUME FederationAssumption ==
  /\ NodeOf \in [Workers -> Nodes]
  /\ Asks \in [Workers -> SUBSET {"register", "revoke", "heartbeat", "sync"}]
  /\ Versions \subseteq Nat
  /\ MaxStamp \in Nat
  /\ TTL \in Nat \ {0} /\ Services # {}
  /\ Workers \cap Nodes = {}

Stamps == 1..MaxStamp
Record == [version : Versions, stamp : Stamps]
NoRecord == [version |-> 0, stamp |-> 0]
MaybeRecord == Record \union {NoRecord}
Lease == [status : {"NONE", "ACTIVE", "EXPIRED", "REVOKED"}, left : 0..TTL]
NoLease == [status |-> "NONE", left |-> 0]

Threads == Workers \union Nodes                \* a node stands for its reaper
Home(t) == IF t \in Workers THEN NodeOf[t] ELSE t
Peers(t) == Nodes \ {Home(t)}

VARIABLES
  services,   \* _services of every node
  leases,     \* _leases of every node
  stamps,     \* registration_timestamps given so far
  pc,         \* where a thread is between two critical sections
  job         \* what it is working on

store == <<services, leases, stamps>>
vars == <<services, leases, stamps, pc, job>>

Item == [sid : Services, rec : MaybeRecord]
Kinds == {"none", "renew", "register", "revoke", "expire", "sync"}
Job == [kind : Kinds,
        items : SUBSET Item,                  \* services left to work off
        sid : Services, rec : MaybeRecord,
        todo : SUBSET Nodes,                  \* peers not told yet
        at : Nodes,                           \* the node worked on
        adopt : BOOLEAN]                      \* it had no record
AnyService == CHOOSE s \in Services : TRUE
NoJob(t) == [kind |-> "none", items |-> {}, sid |-> AnyService, rec |-> NoRecord,
             todo |-> {}, at |-> Home(t), adopt |-> FALSE]

(* Types, and what the program counter says of the job.                    *)
TypeOK ==
  /\ services \in [Nodes -> [Services -> MaybeRecord]]
  /\ leases \in [Nodes -> [Services -> Lease]]
  /\ stamps \subseteq Stamps
  /\ pc \in [Threads -> {"idle", "grant", "send", "merge", "lease", "revoke", "items"}]
  /\ job \in [Threads -> Job]

Init ==
  /\ services = [n \in Nodes |-> [s \in Services |-> NoRecord]]
  /\ leases = [n \in Nodes |-> [s \in Services |-> NoLease]]
  /\ stamps = {}
  /\ pc = [t \in Threads |-> "idle"]
  /\ job = [t \in Threads |-> NoJob(t)]

-----------------------------------------------------------------------------
(* ConflictResolver.resolve(): does the remote record beat the local one?  *)
(* Equal stamps never meet: a stamp names one record.                      *)

RemoteWins(remote, local) ==
  \/ remote.version > local.version
  \/ remote.version = local.version /\ remote.stamp < local.stamp

(* The test of the callers: the winner has the stamp of the remote record. *)
Overwrites(remote, local) == RemoteWins(remote, local) \/ remote.stamp = local.stamp

-----------------------------------------------------------------------------
SetRecord(n, s, r) == services' = [services EXCEPT ![n][s] = r]

(* HeartbeatManager.grant_lease(), revoke_lease()                          *)
Grant(n, s) == leases' = [leases EXCEPT ![n][s] = [status |-> "ACTIVE", left |-> TTL]]

DropLease(n, s) ==
  leases' = IF leases[n][s].status = "NONE" THEN leases
            ELSE [leases EXCEPT ![n][s] = [status |-> "REVOKED", left |-> 0]]

Goto(t, l, j) == pc' = [pc EXCEPT ![t] = l] /\ job' = [job EXCEPT ![t] = j]

(* Where a thread goes when it is done with one node, or one item.         *)
Continue(t, j) ==
  LET k == [j EXCEPT !.at = Home(t), !.adopt = FALSE]
  IN  IF j.kind \in {"register", "revoke", "expire"} /\ j.todo # {} THEN Goto(t, "send", k)
      ELSE IF j.items # {}
           THEN Goto(t, "items", [NoJob(t) EXCEPT !.kind = j.kind, !.items = j.items])
      ELSE Goto(t, "idle", NoJob(t))

-----------------------------------------------------------------------------
(* register_service_authenticated(): a request that passed authentication. *)
(* The record is created, with its stamp, before it waits for the registry: *)
(* stamps may come in any order.                                           *)
Register(t, s, v, k) ==
  /\ pc[t] = "idle" /\ k \notin stamps
  /\ stamps' = stamps \union {k}
  /\ LET n == Home(t)
         same == services[n][s] # NoRecord /\ services[n][s].version = v
         r == [version |-> v, stamp |-> k]
     IN  /\ IF same THEN UNCHANGED services ELSE SetRecord(n, s, r)
         /\ Goto(t, "grant", [NoJob(t) EXCEPT !.kind = IF same THEN "renew" ELSE "register",
                                              !.sid = s, !.rec = r,
                                              !.todo = IF same THEN {} ELSE Peers(t)])
  /\ UNCHANGED leases

GrantOwn(t) ==
  /\ pc[t] = "grant"
  /\ Grant(Home(t), job[t].sid)
  /\ Continue(t, job[t])
  /\ UNCHANGED <<services, stamps>>

(* revoke_service(): whether the service is there or not.                  *)
Revoke(t, s) ==
  /\ pc[t] = "idle"
  /\ SetRecord(Home(t), s, NoRecord)
  /\ Goto(t, "revoke", [NoJob(t) EXCEPT !.kind = "revoke", !.sid = s, !.todo = Peers(t)])
  /\ UNCHANGED <<leases, stamps>>

(* receive_heartbeat(): a lease past its end that was not reaped is renewed. *)
Heartbeat(t, s) ==
  /\ pc[t] = "idle"
  /\ leases[Home(t)][s].status = "ACTIVE"
  /\ Grant(Home(t), s)
  /\ UNCHANGED <<services, stamps, pc, job>>

-----------------------------------------------------------------------------
(* What a thread does to one node with one record: read the local one,     *)
(* merge if it wins, grant a lease if there was none.                      *)
Compare(t, n, j) ==
  LET local == services[n][j.sid]
  IN  IF local = NoRecord THEN Goto(t, "merge", [j EXCEPT !.at = n, !.adopt = TRUE])
      ELSE IF Overwrites(j.rec, local) THEN Goto(t, "merge", [j EXCEPT !.at = n, !.adopt = FALSE])
      ELSE Continue(t, j)

(* Mutant of Merge: an adopted service gets no lease here.                 *)
MergeOnly(t) ==
  /\ pc[t] = "merge"
  /\ SetRecord(job[t].at, job[t].sid, job[t].rec)
  /\ Continue(t, job[t])
  /\ UNCHANGED <<leases, stamps>>

(* merge_remote_service() overwrites whatever is there by now.             *)
Merge(t) ==
  /\ pc[t] = "merge"
  /\ SetRecord(job[t].at, job[t].sid, job[t].rec)
  /\ IF job[t].adopt THEN Goto(t, "lease", job[t]) ELSE Continue(t, job[t])
  /\ UNCHANGED <<leases, stamps>>

GrantAdopted(t) ==
  /\ pc[t] = "lease"
  /\ Grant(job[t].at, job[t].sid)
  /\ Continue(t, job[t])
  /\ UNCHANGED <<services, stamps>>

(* receive_federation_event(), run by the sender: a registration ...       *)
TellRegistration(t, p) ==
  /\ pc[t] = "send" /\ p \in job[t].todo
  /\ job[t].kind = "register"
  /\ Compare(t, p, [job[t] EXCEPT !.todo = @ \ {p}])
  /\ UNCHANGED store

(* ... and a removal, in two critical sections.                            *)
TellRemoval(t, p) ==
  /\ pc[t] = "send" /\ p \in job[t].todo
  /\ job[t].kind \in {"revoke", "expire"}
  /\ SetRecord(p, job[t].sid, NoRecord)
  /\ Goto(t, "revoke", [job[t] EXCEPT !.todo = @ \ {p}, !.at = p])
  /\ UNCHANGED <<leases, stamps>>

RevokeLease(t) ==
  /\ pc[t] = "revoke"
  /\ DropLease(job[t].at, job[t].sid)
  /\ Continue(t, job[t])
  /\ UNCHANGED <<services, stamps>>

(* sync_with_peer(): the peer's records are listed once, then worked off.  *)
SyncList(t, p) ==
  /\ pc[t] = "idle"
  /\ LET held == {s \in Services : services[p][s] # NoRecord}
     IN  Continue(t, [NoJob(t) EXCEPT !.kind = "sync",
                        !.items = {[sid |-> s, rec |-> services[p][s]] : s \in held}])
  /\ UNCHANGED store

SyncItem(t, i) ==
  /\ pc[t] = "items" /\ i \in job[t].items
  /\ job[t].kind = "sync"
  /\ Compare(t, Home(t), [job[t] EXCEPT !.items = @ \ {i}, !.sid = i.sid, !.rec = i.rec])
  /\ UNCHANGED store

-----------------------------------------------------------------------------
(* The reaper of a node.                                                   *)
Lapsed(n) == {s \in Services : leases[n][s].status = "ACTIVE" /\ leases[n][s].left = 0}

(* check_expired()                                                         *)
CheckExpired(n) ==
  /\ pc[n] = "idle"
  /\ Lapsed(n) # {}
  /\ leases' = [leases EXCEPT ![n] = [s \in Services |->
                  IF s \in Lapsed(n) THEN [@[s] EXCEPT !.status = "EXPIRED"] ELSE @[s]]]
  /\ Goto(n, "items", [NoJob(n) EXCEPT !.kind = "expire",
                         !.items = {[sid |-> s, rec |-> NoRecord] : s \in Lapsed(n)}])
  /\ UNCHANGED <<services, stamps>>

(* Mutant of OnLeaseExpired: the peers are told and this node is forgotten. *)
TellPeersOnly(n, i) ==
  /\ pc[n] = "items" /\ i \in job[n].items
  /\ job[n].kind = "expire"
  /\ UNCHANGED store
  /\ Continue(n, [job[n] EXCEPT !.items = @ \ {i}, !.sid = i.sid, !.todo = Peers(n)])

(* _on_lease_expired(): remove the service, whatever its lease is by now.  *)
OnLeaseExpired(n, i) ==
  /\ pc[n] = "items" /\ i \in job[n].items
  /\ job[n].kind = "expire"
  /\ SetRecord(n, i.sid, NoRecord)
  /\ Continue(n, [job[n] EXCEPT !.items = @ \ {i}, !.sid = i.sid, !.todo = Peers(n)])
  /\ UNCHANGED <<leases, stamps>>

(* Mutant of Tick: time goes on past the end of a lease.                   *)
TickPast ==
  /\ \E n \in Nodes, s \in Services : leases[n][s].left > 0
  /\ leases' = [n \in Nodes |-> [s \in Services |-> [leases[n][s] EXCEPT !.left = @ - 1]]]
  /\ UNCHANGED <<services, stamps, pc, job>>

(* Time passes for every lease alike.                                      *)
Tick ==
  /\ \E n \in Nodes, s \in Services : leases[n][s].left > 0
  /\ leases' = [n \in Nodes |-> [s \in Services |->
                  [leases[n][s] EXCEPT !.left = IF @ > 0 THEN @ - 1 ELSE 0]]]
  /\ UNCHANGED <<services, stamps, pc, job>>

-----------------------------------------------------------------------------
Request(t) ==
  \/ "register" \in Asks[t] /\ \E s \in Services, v \in Versions, k \in Stamps : Register(t, s, v, k)
  \/ "revoke" \in Asks[t] /\ \E s \in Services : Revoke(t, s)
  \/ "heartbeat" \in Asks[t] /\ \E s \in Services : Heartbeat(t, s)
  \/ "sync" \in Asks[t] /\ \E p \in Peers(t) : SyncList(t, p)

Step(t) ==
  \/ GrantOwn(t) \/ RevokeLease(t) \/ Merge(t) \/ GrantAdopted(t)
  \/ \E p \in Nodes : TellRegistration(t, p) \/ TellRemoval(t, p)
  \/ \E i \in job[t].items : SyncItem(t, i)

Reap(n) == CheckExpired(n) \/ \E i \in job[n].items : OnLeaseExpired(n, i)

Next ==
  \/ \E t \in Workers : Request(t)
  \/ \E t \in Threads : Step(t)
  \/ \E n \in Nodes : Reap(n)
  \/ Tick

(* A thread in an operation gets on with it and the reapers keep looking;  *)
(* requests come or not.                                                   *)
Spec ==
  /\ Init /\ [][Next]_vars
  /\ \A t \in Threads : WF_vars(Step(t))
  /\ \A n \in Nodes : WF_vars(Reap(n))

-----------------------------------------------------------------------------
(* The reaper looks at ACTIVE leases only (heartbeat_manager.py:229).  A      *)
(* service is watched while it has one, is about to be granted one, or is on *)
(* the list the reaper works off.                                          *)
Granting(n, s) ==
  \E t \in Threads :
    /\ job[t].sid = s
    /\ \/ pc[t] = "grant" /\ Home(t) = n
       \/ pc[t] = "lease" /\ job[t].at = n

Listed(n, s) ==
  /\ pc[n] # "idle" /\ job[n].kind = "expire"
  /\ \E i \in job[n].items : i.sid = s

Watched(n, s) == leases[n][s].status = "ACTIVE" \/ Granting(n, s) \/ Listed(n, s)
Unwatched(n, s) == services[n][s] # NoRecord /\ ~Watched(n, s)

(* Only two races leave a registered service that no reaper will look at    *)
(* again: a removal that revokes the lease after the service was registered *)
(* anew, and a merge over a record that was removed since it was read.     *)
(* Every other step, of any thread, leaves each registered service watched. *)
RevokesLate(t, n, s) ==
  /\ pc[t] = "revoke" /\ pc'[t] # "revoke"
  /\ job[t].at = n /\ job[t].sid = s
MergesBlindly(t, n, s) ==
  /\ pc[t] = "merge" /\ pc'[t] # "merge" /\ ~job[t].adopt
  /\ job[t].at = n /\ job[t].sid = s
  /\ services[n][s] = NoRecord

UnwatchedOnlyByRace ==
  [][\A n \in Nodes, s \in Services :
       Unwatched(n, s)' /\ ~Unwatched(n, s) =>
         \E t \in Threads : RevokesLate(t, n, s) \/ MergesBlindly(t, n, s)]_vars

(* "automatically deregistered" (heartbeat_manager.py:54): when the reaper  *)
(* finds a lease expired the service is removed from that node, whatever   *)
(* the other threads do.                                                   *)
ExpiredIsRemoved ==
  \A n \in Nodes, s \in Services :
    (\E i \in job[n].items : i.sid = s) ~> services[n][s] = NoRecord

(* "Services must send heartbeats before the lease expires or they will be *)
(* automatically deregistered" (heartbeat_manager.py:53): a service whose  *)
(* lease is in force at a node that takes its heartbeats is not removed    *)
(* there by the reaper of another node.                                    *)
Served == {NodeOf[t] : t \in {w \in Workers : "heartbeat" \in Asks[w]}}

InForceStays ==
  [][\A n \in Served, s \in Services, r \in Nodes :
       /\ r # n
       /\ services[n][s] # NoRecord /\ services'[n][s] = NoRecord
       /\ pc[r] = "send" /\ pc'[r] = "revoke"
       => leases[n][s].status # "ACTIVE" \/ leases[n][s].left = 0]_vars
=============================================================================
