-------------------------- MODULE FederationProofs --------------------------
(***************************************************************************)
(* What can leave a registered service that no reaper will look at again:   *)
(* for any nodes, services, workers and requests.                          *)
(***************************************************************************)
EXTENDS Federation, TLAPS

Places == {"idle", "grant", "send", "merge", "lease", "revoke", "items"}

LEMMA HomeTyped == \A t \in Threads : Home(t) \in Nodes /\ NoJob(t) \in Job
<1>1. AnyService \in Services
  BY FederationAssumption DEF AnyService
<1>2. \A t \in Threads : Home(t) \in Nodes
  BY FederationAssumption DEF Home, Threads
<1> QED
  BY <1>1, <1>2 DEF NoJob, Job, Kinds, MaybeRecord

(* Where a thread goes next, and that it takes a job along.                *)
LEMMA ContinueTyped ==
  ASSUME TypeOK, NEW t \in Threads, NEW j \in Job, Continue(t, j)
  PROVE  /\ pc' \in [Threads -> Places] /\ job' \in [Threads -> Job]
         /\ pc'[t] \in {"idle", "send", "items"}
         /\ j.kind = "expire" /\ j.items # {} =>
              pc'[t] # "idle" /\ job'[t].kind = "expire" /\ job'[t].items = j.items
         /\ \A u \in Threads \ {t} : pc'[u] = pc[u] /\ job'[u] = job[u]
<1> DEFINE k == [j EXCEPT !.at = Home(t), !.adopt = FALSE]
           i == [NoJob(t) EXCEPT !.kind = j.kind, !.items = j.items]
<1>1. /\ k \in Job /\ i \in Job /\ NoJob(t) \in Job
      /\ k.kind = j.kind /\ k.items = j.items /\ i.kind = j.kind /\ i.items = j.items
  BY HomeTyped DEF Job
<1>2. \/ Goto(t, "send", k) \/ Goto(t, "items", i) \/ (Goto(t, "idle", NoJob(t)) /\ j.items = {})
  <2>1. CASE j.kind \in {"register", "revoke", "expire"} /\ j.todo # {}
    BY <2>1 DEF Continue
  <2>2. CASE ~(j.kind \in {"register", "revoke", "expire"} /\ j.todo # {}) /\ j.items # {}
    BY <2>2 DEF Continue
  <2>3. CASE ~(j.kind \in {"register", "revoke", "expire"} /\ j.todo # {}) /\ j.items = {}
    BY <2>3 DEF Continue
  <2> QED
    BY <2>1, <2>2, <2>3
<1> HIDE DEF k, i
<1>3. CASE Goto(t, "send", k)
  BY <1>1, <1>3 DEF Goto, TypeOK, Places
<1>4. CASE Goto(t, "items", i)
  BY <1>1, <1>4 DEF Goto, TypeOK, Places
<1>5. CASE Goto(t, "idle", NoJob(t)) /\ j.items = {}
  BY <1>1, <1>5 DEF Goto, TypeOK, Places
<1> QED
  BY <1>2, <1>3, <1>4, <1>5

(* The same for a thread that goes to a known place.                       *)
LEMMA GotoTyped ==
  ASSUME TypeOK, NEW t \in Threads, NEW l \in Places, NEW j \in Job, Goto(t, l, j)
  PROVE  /\ pc' \in [Threads -> Places] /\ job' \in [Threads -> Job]
         /\ pc'[t] = l /\ job'[t] = j
         /\ \A u \in Threads \ {t} : pc'[u] = pc[u] /\ job'[u] = job[u]
  BY DEF Goto, TypeOK, Places

LEMMA CompareTyped ==
  ASSUME TypeOK, NEW t \in Threads, NEW n \in Nodes, NEW j \in Job, Compare(t, n, j)
  PROVE  /\ pc' \in [Threads -> Places] /\ job' \in [Threads -> Job]
         /\ pc'[t] \in {"idle", "send", "items", "merge"}
         /\ j.kind = "expire" /\ j.items # {} =>
              pc'[t] # "idle" /\ job'[t].kind = "expire" /\ job'[t].items = j.items
         /\ \A u \in Threads \ {t} : pc'[u] = pc[u] /\ job'[u] = job[u]
<1> DEFINE k == [j EXCEPT !.at = n, !.adopt = TRUE]
           i == [j EXCEPT !.at = n, !.adopt = FALSE]
<1>1. /\ k \in Job /\ i \in Job
      /\ k.kind = j.kind /\ k.items = j.items /\ i.kind = j.kind /\ i.items = j.items
  BY DEF Job
<1>2. Goto(t, "merge", k) \/ Goto(t, "merge", i) \/ Continue(t, j)
  BY DEF Compare
<1> HIDE DEF k, i
<1>3. CASE Goto(t, "merge", k)
  BY <1>1, <1>3, GotoTyped DEF Places
<1>4. CASE Goto(t, "merge", i)
  BY <1>1, <1>4, GotoTyped DEF Places
<1>5. CASE Continue(t, j)
  BY <1>5, ContinueTyped
<1> QED
  BY <1>2, <1>3, <1>4, <1>5

(* Writing a record, and giving or dropping a lease, keep the types.       *)
LEMMA SetTyped ==
  ASSUME TypeOK, NEW n \in Nodes, NEW s \in Services, NEW r \in MaybeRecord, SetRecord(n, s, r)
  PROVE  /\ services' \in [Nodes -> [Services -> MaybeRecord]]
         /\ \A m \in Nodes, q \in Services :
              services'[m][q] = IF m = n /\ q = s THEN r ELSE services[m][q]
  BY DEF SetRecord, TypeOK

LEMMA GrantTyped ==
  ASSUME TypeOK, NEW n \in Nodes, NEW s \in Services, Grant(n, s)
  PROVE  /\ leases' \in [Nodes -> [Services -> Lease]]
         /\ leases'[n][s].status = "ACTIVE"
         /\ \A m \in Nodes, q \in Services :
              leases[m][q].status = "ACTIVE" => leases'[m][q].status = "ACTIVE"
<1>1. [status |-> "ACTIVE", left |-> TTL] \in Lease
  BY FederationAssumption DEF Lease
<1> QED
  BY <1>1 DEF Grant, TypeOK

LEMMA DropTyped ==
  ASSUME TypeOK, NEW n \in Nodes, NEW s \in Services, DropLease(n, s)
  PROVE  /\ leases' \in [Nodes -> [Services -> Lease]]
         /\ \A m \in Nodes, q \in Services :
              leases[m][q].status = "ACTIVE" =>
                leases'[m][q].status = "ACTIVE" \/ (m = n /\ q = s)
<1>1. CASE leases' = leases
  BY <1>1 DEF TypeOK
<1>2. CASE leases' = [leases EXCEPT ![n][s] = [status |-> "REVOKED", left |-> 0]]
  <2>1. [status |-> "REVOKED", left |-> 0] \in Lease
    BY FederationAssumption DEF Lease
  <2> QED
    BY <1>2, <2>1 DEF TypeOK
<1> QED
  BY <1>1, <1>2 DEF DropLease

-----------------------------------------------------------------------------
(* What the theorem says of one step.                                      *)
WatchStep ==
  \A n \in Nodes, s \in Services :
    Unwatched(n, s)' /\ ~Unwatched(n, s) =>
      \E t \in Threads : RevokesLate(t, n, s) \/ MergesBlindly(t, n, s)

(* What one thread's step has to do for it: leave the leases in force or    *)
(* list them, finish what it was about to grant, work off its list, and     *)
(* register nothing that is not watched.                                   *)
LEMMA ThreadWatches ==
  ASSUME TypeOK, NEW t \in Threads,
         \A u \in Threads \ {t} : pc'[u] = pc[u] /\ job'[u] = job[u],
         \A m \in Nodes, q \in Services :
           leases[m][q].status = "ACTIVE" =>
             leases'[m][q].status = "ACTIVE" \/ Listed(m, q)' \/ RevokesLate(t, m, q),
         pc[t] = "grant" => leases'[Home(t)][job[t].sid].status = "ACTIVE",
         pc[t] = "lease" => leases'[job[t].at][job[t].sid].status = "ACTIVE",
         \A q \in Services :
           t \in Nodes /\ Listed(t, q) => Listed(t, q)' \/ services'[t][q] = NoRecord,
         \A m \in Nodes, q \in Services :
           services'[m][q] # NoRecord =>
             services[m][q] # NoRecord \/ Watched(m, q)' \/ MergesBlindly(t, m, q)
  PROVE  WatchStep
<1> SUFFICES ASSUME NEW n \in Nodes, NEW s \in Services,
                    Unwatched(n, s)', ~Unwatched(n, s),
                    ~RevokesLate(t, n, s), ~MergesBlindly(t, n, s)
             PROVE  FALSE
  BY DEF WatchStep
<1>1. services'[n][s] # NoRecord /\ ~Watched(n, s)'
  BY DEF Unwatched
<1>2. Watched(n, s)
  BY <1>1 DEF Unwatched
<1>3. CASE leases[n][s].status = "ACTIVE"
  BY <1>1, <1>3 DEF Watched
<1>4. CASE Listed(n, s)
  <2>1. n \in Threads
    BY DEF Threads
  <2>2. Listed(n, s)'
    <3>1. CASE n = t
      BY <1>1, <1>4, <3>1
    <3>2. CASE n # t
      BY <1>4, <2>1, <3>2 DEF Listed
    <3> QED
      BY <3>1, <3>2
  <2> QED
    BY <1>1, <2>2 DEF Watched
<1>5. CASE Granting(n, s)
  <2>1. PICK u \in Threads : /\ job[u].sid = s
                             /\ \/ pc[u] = "grant" /\ Home(u) = n
                                \/ pc[u] = "lease" /\ job[u].at = n
    BY <1>5 DEF Granting
  <2>2. CASE u = t
    BY <1>1, <2>1, <2>2 DEF Watched
  <2>3. CASE u # t
    BY <1>1, <2>1, <2>3 DEF Watched, Granting
  <2> QED
    BY <2>2, <2>3
<1> QED
  BY <1>2, <1>3, <1>4, <1>5 DEF Watched

(* A thread that goes on with its kind and its list keeps what is on it.   *)
LEMMA ListKept ==
  ASSUME NEW t \in Threads, NEW j,
         pc[t] # "idle" /\ t \in Nodes => j.kind = job[t].kind /\ j.items = job[t].items,
         j.kind = "expire" /\ j.items # {} =>
           pc'[t] # "idle" /\ job'[t].kind = "expire" /\ job'[t].items = j.items
  PROVE  \A q \in Services : t \in Nodes /\ Listed(t, q) => Listed(t, q)'
  BY DEF Listed

StepHolds == TypeOK' /\ WatchStep

(* Every step does.                                                        *)
LEMMA FederationStep == TypeOK /\ [Next]_vars => StepHolds
<1> SUFFICES ASSUME TypeOK, [Next]_vars PROVE StepHolds
  OBVIOUS
<1> USE DEF Places
<1>0. /\ TypeOK
      /\ \A t \in Threads : job[t] \in Job
      /\ \A t \in Threads : /\ job[t].at \in Nodes /\ job[t].sid \in Services
                           /\ job[t].rec \in MaybeRecord /\ Home(t) \in Nodes
      /\ \A t \in Workers : t \in Threads /\ t \notin Nodes
  BY HomeTyped, FederationAssumption DEF TypeOK, Job, Threads
<1>1. ASSUME NEW t \in Workers, NEW s \in Services, NEW v \in Versions, NEW k \in Stamps,
             Register(t, s, v, k)
      PROVE  StepHolds
  <2> DEFINE n == Home(t)
             same == services[n][s] # NoRecord /\ services[n][s].version = v
             r == [version |-> v, stamp |-> k]
             j == [NoJob(t) EXCEPT !.kind = IF same THEN "renew" ELSE "register",
                                   !.sid = s, !.rec = r,
                                   !.todo = IF same THEN {} ELSE Peers(t)]
  <2>1. t \in Threads /\ r \in MaybeRecord /\ stamps' \subseteq Stamps /\ n \in Nodes
    BY <1>0, <1>1 DEF Register, Threads, MaybeRecord, Record, TypeOK
  <2>2. j \in Job /\ j.sid = s
    BY <2>1, HomeTyped DEF NoJob, Job, Kinds, Peers
  <2>3. Goto(t, "grant", j) /\ leases' = leases /\ (services' = services \/ SetRecord(n, s, r))
    BY <1>1 DEF Register
  <2> HIDE DEF j, r, n
  <2>4. /\ pc' \in [Threads -> Places] /\ job' \in [Threads -> Job]
        /\ pc'[t] = "grant" /\ job'[t] = j
        /\ \A u \in Threads \ {t} : pc'[u] = pc[u] /\ job'[u] = job[u]
    BY <1>0, <2>1, <2>2, <2>3, GotoTyped
  <2>5. /\ services' \in [Nodes -> [Services -> MaybeRecord]]
        /\ \A m \in Nodes, q \in Services :
             services'[m][q] # NoRecord => services[m][q] # NoRecord \/ (m = n /\ q = s)
    BY <1>0, <2>1, <2>3, SetTyped DEF TypeOK
  <2>6. TypeOK'
    BY <1>0, <2>1, <2>3, <2>4, <2>5 DEF TypeOK
  <2>7. Watched(n, s)'
    BY <2>1, <2>2, <2>4 DEF Watched, Granting, n
  <2>8. pc[t] = "idle"
    BY <1>1 DEF Register
  <2> QED
    BY <1>0, <2>1, <2>3, <2>4, <2>5, <2>6, <2>7, <2>8, ThreadWatches DEF StepHolds
<1>2. ASSUME NEW t \in Threads, NEW n \in Nodes, pc[t] \in {"grant", "lease"},
             pc[t] = "grant" => n = Home(t), pc[t] = "lease" => n = job[t].at,
             Grant(n, job[t].sid), Continue(t, job[t]), UNCHANGED <<services, stamps>>
      PROVE  StepHolds
  <2>1. TypeOK'
    BY <1>0, <1>2, ContinueTyped, GrantTyped DEF TypeOK
  <2>2. \A q \in Services : t \in Nodes /\ Listed(t, q) => Listed(t, q)'
    BY <1>0, <1>2, ContinueTyped, ListKept
  <2> QED
    BY <1>0, <1>2, <2>1, <2>2, ContinueTyped, GrantTyped, ThreadWatches DEF StepHolds
<1>3. ASSUME NEW t \in Threads, GrantOwn(t) \/ GrantAdopted(t) PROVE StepHolds
  BY <1>0, <1>2, <1>3 DEF GrantOwn, GrantAdopted
<1>4. ASSUME NEW t \in Threads, NEW n \in Nodes, NEW s \in Services, NEW j \in Job,
             pc[t] \notin {"grant", "lease"},
             \A q \in Services :
               t \in Nodes /\ Listed(t, q) =>
                 \/ t = n /\ q = s
                 \/ j.kind = "expire" /\ \E x \in j.items : x.sid = q,
             SetRecord(n, s, NoRecord), Goto(t, "revoke", j) \/ Continue(t, j),
             UNCHANGED <<leases, stamps>>
      PROVE  StepHolds
  <2>1. /\ pc' \in [Threads -> Places] /\ job' \in [Threads -> Job]
        /\ \A u \in Threads \ {t} : pc'[u] = pc[u] /\ job'[u] = job[u]
        /\ j.kind = "expire" /\ j.items # {} =>
             pc'[t] # "idle" /\ job'[t].kind = "expire" /\ job'[t].items = j.items
    BY <1>0, <1>4, GotoTyped, ContinueTyped
  <2>2. /\ services' \in [Nodes -> [Services -> MaybeRecord]]
        /\ services'[n][s] = NoRecord
        /\ \A m \in Nodes, q \in Services :
             services'[m][q] # NoRecord => services[m][q] # NoRecord
    BY <1>0, <1>4, SetTyped DEF MaybeRecord
  <2>3. TypeOK'
    BY <1>0, <1>4, <2>1, <2>2 DEF TypeOK
  <2>4. \A q \in Services :
          t \in Nodes /\ Listed(t, q) => Listed(t, q)' \/ services'[t][q] = NoRecord
    BY <1>4, <2>1, <2>2 DEF Listed
  <2> QED
    BY <1>0, <1>4, <2>1, <2>2, <2>3, <2>4, ThreadWatches DEF StepHolds
<1>5. ASSUME NEW t \in Workers, NEW s \in Services, Revoke(t, s) PROVE StepHolds
  <2> DEFINE j == [NoJob(t) EXCEPT !.kind = "revoke", !.sid = s, !.todo = Peers(t)]
  <2>1. j \in Job
    BY <1>0, HomeTyped DEF NoJob, Job, Kinds, Peers
  <2>2. /\ pc[t] = "idle" /\ SetRecord(Home(t), s, NoRecord) /\ Goto(t, "revoke", j)
        /\ UNCHANGED <<leases, stamps>>
    BY <1>5 DEF Revoke
  <2> QED
    BY <1>0, <1>4, <2>1, <2>2
<1>6. ASSUME NEW t \in Workers, NEW s \in Services, Heartbeat(t, s) PROVE StepHolds
  <2>1. t \in Threads /\ t \notin Nodes /\ Home(t) \in Nodes /\ pc[t] = "idle"
    BY <1>0, <1>6 DEF Heartbeat
  <2>2. TypeOK'
    BY <1>0, <1>6, <2>1, GrantTyped DEF Heartbeat, TypeOK
  <2> QED
    BY <1>0, <1>6, <2>1, <2>2, GrantTyped, ThreadWatches DEF Heartbeat, StepHolds
<1>7. ASSUME NEW t \in Threads, NEW n \in Nodes, NEW j \in Job, Compare(t, n, j),
             pc[t] \notin {"grant", "lease"}, UNCHANGED store,
             \A q \in Services :
               t \in Nodes /\ Listed(t, q) =>
                 j.kind = "expire" /\ \E x \in j.items : x.sid = q
      PROVE  StepHolds
  <2>1. TypeOK'
    BY <1>0, <1>7, CompareTyped DEF TypeOK, store
  <2>2. \A q \in Services : t \in Nodes /\ Listed(t, q) => Listed(t, q)'
    BY <1>0, <1>7, CompareTyped DEF Listed
  <2> QED
    BY <1>0, <1>7, <2>1, <2>2, CompareTyped, ThreadWatches DEF store, StepHolds
<1>8. ASSUME NEW t \in Threads, NEW p \in Nodes, TellRegistration(t, p) PROVE StepHolds
  <2> DEFINE j == [job[t] EXCEPT !.todo = @ \ {p}]
  <2>1. j \in Job /\ job[t].kind = "register"
    BY <1>0, <1>8 DEF Job, TellRegistration
  <2>2. Compare(t, p, j) /\ pc[t] = "send" /\ UNCHANGED store
    BY <1>8 DEF TellRegistration
  <2> HIDE DEF j
  <2> QED
    BY <1>7, <2>1, <2>2 DEF Listed
<1>9. ASSUME NEW t \in Threads, NEW p \in Nodes, TellRemoval(t, p) PROVE StepHolds
  <2> DEFINE j == [job[t] EXCEPT !.todo = @ \ {p}, !.at = p]
  <2>1. j \in Job /\ j.kind = job[t].kind /\ j.items = job[t].items
    BY <1>0 DEF Job
  <2>2. /\ pc[t] = "send" /\ SetRecord(p, job[t].sid, NoRecord) /\ Goto(t, "revoke", j)
        /\ UNCHANGED <<leases, stamps>>
    BY <1>9 DEF TellRemoval
  <2> HIDE DEF j
  <2> QED
    BY <1>0, <1>4, <2>1, <2>2 DEF Listed
<1>10. ASSUME NEW t \in Threads, NEW i \in job[t].items, SyncItem(t, i) PROVE StepHolds
  <2> DEFINE j == [job[t] EXCEPT !.items = @ \ {i}, !.sid = i.sid, !.rec = i.rec]
  <2>1. i \in Item
    BY <1>0 DEF Job
  <2>2. j \in Job
    <3>1. /\ job[t] \in Job /\ job[t].items \ {i} \subseteq Item
          /\ i.sid \in Services /\ i.rec \in MaybeRecord
      BY <1>0, <2>1 DEF Job, Item
    <3> QED
      BY <3>1 DEF Job
  <2>3. Compare(t, Home(t), j) /\ pc[t] = "items" /\ job[t].kind = "sync" /\ UNCHANGED store
    BY <1>10 DEF SyncItem
  <2> HIDE DEF j
  <2> QED
    BY <1>0, <1>7, <2>2, <2>3 DEF Listed
<1>11. ASSUME NEW t \in Threads, RevokeLease(t) PROVE StepHolds
  <2>1. TypeOK'
    BY <1>0, <1>11, ContinueTyped, DropTyped DEF RevokeLease, TypeOK
  <2>2. \A q \in Services : t \in Nodes /\ Listed(t, q) => Listed(t, q)'
    BY <1>0, <1>11, ContinueTyped, ListKept DEF RevokeLease
  <2>3. \A m \in Nodes, q \in Services :
          leases[m][q].status = "ACTIVE" =>
            leases'[m][q].status = "ACTIVE" \/ RevokesLate(t, m, q)
    BY <1>0, <1>11, ContinueTyped, DropTyped DEF RevokeLease, RevokesLate
  <2> QED
    BY <1>0, <1>11, <2>1, <2>2, <2>3, ContinueTyped, ThreadWatches DEF RevokeLease, StepHolds
<1>12. ASSUME NEW t \in Threads, NEW n \in Nodes, NEW s \in Services,
              n = job[t].at, s = job[t].sid, Merge(t)
       PROVE  StepHolds
  <2>1. pc[t] = "merge" /\ UNCHANGED <<leases, stamps>> /\ SetRecord(n, s, job[t].rec)
    BY <1>12 DEF Merge
  <2>2. /\ services' \in [Nodes -> [Services -> MaybeRecord]]
        /\ \A m \in Nodes, q \in Services :
             services'[m][q] # NoRecord => services[m][q] # NoRecord \/ (m = n /\ q = s)
    BY <1>0, <2>1, SetTyped
  <2>3. CASE job[t].adopt
    <3>1. Goto(t, "lease", job[t])
      BY <1>12, <2>3 DEF Merge
    <3>2. /\ pc' \in [Threads -> Places] /\ job' \in [Threads -> Job]
          /\ pc'[t] = "lease" /\ job'[t] = job[t]
          /\ \A u \in Threads \ {t} : pc'[u] = pc[u] /\ job'[u] = job[u]
      BY <1>0, <3>1, GotoTyped
    <3>3. Watched(n, s)'
      BY <1>12, <3>2 DEF Watched, Granting
    <3>4. TypeOK'
      BY <1>0, <2>1, <2>2, <3>2 DEF TypeOK
    <3>5. \A q \in Services : t \in Nodes /\ Listed(t, q) => Listed(t, q)'
      BY <3>2 DEF Listed
    <3> QED
      BY <1>0, <2>1, <2>2, <3>2, <3>3, <3>4, <3>5, ThreadWatches DEF StepHolds
  <2>4. CASE ~job[t].adopt
    <3>1. Continue(t, job[t])
      BY <1>12, <2>4 DEF Merge
    <3>2. /\ pc' \in [Threads -> Places] /\ job' \in [Threads -> Job]
          /\ pc'[t] # "merge"
          /\ \A u \in Threads \ {t} : pc'[u] = pc[u] /\ job'[u] = job[u]
      BY <1>0, <3>1, ContinueTyped
    <3>3. services[n][s] # NoRecord \/ MergesBlindly(t, n, s)
      BY <1>12, <2>1, <2>4, <3>2 DEF MergesBlindly
    <3>4. TypeOK'
      BY <1>0, <2>1, <2>2, <3>2 DEF TypeOK
    <3>5. \A q \in Services : t \in Nodes /\ Listed(t, q) => Listed(t, q)'
      BY <1>0, <3>1, ContinueTyped, ListKept
    <3> QED
      BY <1>0, <2>1, <2>2, <3>2, <3>3, <3>4, <3>5, ThreadWatches DEF StepHolds
  <2> QED
    BY <2>3, <2>4
<1>13. ASSUME NEW t \in Workers, NEW p \in Nodes, SyncList(t, p) PROVE StepHolds
  <2> DEFINE held == {q \in Services : services[p][q] # NoRecord}
             list == {[sid |-> q, rec |-> services[p][q]] : q \in held}
             j == [NoJob(t) EXCEPT !.kind = "sync", !.items = list]
  <2>1. list \subseteq Item
    BY <1>0 DEF Item, TypeOK
  <2>2. j \in Job
    BY <1>0, <2>1, HomeTyped DEF NoJob, Job, Kinds
  <2>3. Continue(t, j) /\ pc[t] = "idle" /\ UNCHANGED store
    BY <1>13 DEF SyncList
  <2> HIDE DEF j
  <2>4. TypeOK'
    BY <1>0, <2>2, <2>3, ContinueTyped DEF store, TypeOK
  <2> QED
    BY <1>0, <2>2, <2>3, <2>4, ContinueTyped, ThreadWatches DEF store, StepHolds
<1>14. ASSUME NEW n \in Nodes, CheckExpired(n) PROVE StepHolds
  <2> DEFINE list == {[sid |-> s, rec |-> NoRecord] : s \in Lapsed(n)}
             j == [NoJob(n) EXCEPT !.kind = "expire", !.items = list]
  <2>1. list \subseteq Item /\ \A q \in Lapsed(n) : \E x \in list : x.sid = q
    <3>1. list \subseteq Item
      BY DEF Lapsed, Item, MaybeRecord
    <3>2. ASSUME NEW q \in Lapsed(n) PROVE \E x \in list : x.sid = q
      <4>1. [sid |-> q, rec |-> NoRecord] \in list
        OBVIOUS
      <4> QED
        BY <4>1
    <3> QED
      BY <3>1, <3>2
  <2>2. n \in Threads /\ j \in Job /\ j.kind = "expire" /\ j.items = list
    BY <2>1, HomeTyped DEF Threads, NoJob, Job, Kinds
  <2>3. Goto(n, "items", j) /\ pc[n] = "idle" /\ UNCHANGED <<services, stamps>>
    BY <1>14 DEF CheckExpired
  <2>4. /\ leases' \in [Nodes -> [Services -> Lease]]
        /\ \A m \in Nodes, q \in Services :
             leases[m][q].status = "ACTIVE" =>
               leases'[m][q].status = "ACTIVE" \/ (m = n /\ q \in Lapsed(n))
    <3> DEFINE new == [q \in Services |->
                         IF q \in Lapsed(n) THEN [leases[n][q] EXCEPT !.status = "EXPIRED"]
                                            ELSE leases[n][q]]
    <3>1. \A q \in Services : [leases[n][q] EXCEPT !.status = "EXPIRED"] \in Lease
      <4> SUFFICES ASSUME NEW q \in Services
                   PROVE  [leases[n][q] EXCEPT !.status = "EXPIRED"] \in Lease
        OBVIOUS
      <4>1. leases[n][q] \in Lease
        BY <1>0 DEF TypeOK
      <4> QED
        BY <4>1 DEF Lease
    <3>2. leases' = [leases EXCEPT ![n] = new] /\ leases \in [Nodes -> [Services -> Lease]]
      BY <1>0, <1>14 DEF CheckExpired, TypeOK
    <3>3. new \in [Services -> Lease]
      BY <3>1, <3>2
    <3>4. \A q \in Services : q \notin Lapsed(n) => new[q] = leases[n][q]
      OBVIOUS
    <3> HIDE DEF new
    <3>5. leases' \in [Nodes -> [Services -> Lease]]
      BY <3>2, <3>3
    <3>6. leases'[n] = new /\ \A m \in Nodes \ {n} : leases'[m] = leases[m]
      BY <3>2
    <3> QED
      BY <3>4, <3>5, <3>6
  <2> HIDE DEF j, list
  <2>5. /\ pc' \in [Threads -> Places] /\ job' \in [Threads -> Job]
        /\ pc'[n] = "items" /\ job'[n] = j
        /\ \A u \in Threads \ {n} : pc'[u] = pc[u] /\ job'[u] = job[u]
    BY <1>0, <2>2, <2>3, GotoTyped
  <2>6. TypeOK'
    BY <1>0, <2>3, <2>4, <2>5 DEF TypeOK
  <2>7. \A q \in Lapsed(n) : Listed(n, q)'
    BY <2>1, <2>2, <2>5 DEF Listed
  <2>8. \A q \in Services : ~Listed(n, q)
    BY <2>3 DEF Listed
  <2> QED
    BY <1>0, <2>2, <2>3, <2>4, <2>5, <2>6, <2>7, <2>8, ThreadWatches DEF StepHolds
<1>15. ASSUME NEW n \in Nodes, NEW i \in job[n].items, OnLeaseExpired(n, i) PROVE StepHolds
  <2> DEFINE j == [job[n] EXCEPT !.items = @ \ {i}, !.sid = i.sid, !.todo = Peers(n)]
  <2>0. n \in Threads
    BY DEF Threads
  <2>1. i \in Item
    BY <1>0, <2>0 DEF Job
  <2>2. j \in Job /\ j.kind = job[n].kind /\ j.items = job[n].items \ {i}
    BY <1>0, <2>0, <2>1 DEF Job, Item, Peers
  <2>3. /\ pc[n] = "items" /\ job[n].kind = "expire"
        /\ SetRecord(n, i.sid, NoRecord) /\ Continue(n, j) /\ UNCHANGED <<leases, stamps>>
    BY <1>15 DEF OnLeaseExpired
  <2> HIDE DEF j
  <2>4. \A q \in Services : Listed(n, q) => q = i.sid \/ \E x \in j.items : x.sid = q
    BY <2>2 DEF Listed
  <2> QED
    BY <1>4, <2>0, <2>1, <2>2, <2>3, <2>4 DEF Item
<1>16. CASE Tick
  <2>1. /\ leases' \in [Nodes -> [Services -> Lease]]
        /\ \A m \in Nodes, q \in Services : leases'[m][q].status = leases[m][q].status
    <3>1. \A m \in Nodes, q \in Services :
            [leases[m][q] EXCEPT !.left = IF @ > 0 THEN @ - 1 ELSE 0] \in Lease
      <4> SUFFICES ASSUME NEW m \in Nodes, NEW q \in Services
                   PROVE  [leases[m][q] EXCEPT !.left = IF @ > 0 THEN @ - 1 ELSE 0] \in Lease
        OBVIOUS
      <4>1. leases[m][q] \in Lease /\ leases[m][q].left \in 0..TTL /\ TTL \in Nat
        BY <1>0, FederationAssumption DEF TypeOK, Lease
      <4>2. (IF leases[m][q].left > 0 THEN leases[m][q].left - 1 ELSE 0) \in 0..TTL
        BY <4>1
      <4> QED
        BY <4>1, <4>2 DEF Lease
    <3> QED
      BY <1>0, <1>16, <3>1 DEF Tick, TypeOK, Lease
  <2>2. UNCHANGED <<services, stamps, pc, job>>
    BY <1>16 DEF Tick
  <2>3. TypeOK'
    BY <1>0, <2>1, <2>2 DEF TypeOK
  <2>4. WatchStep
    BY <2>1, <2>2 DEF WatchStep, Unwatched, Watched, Granting, Listed
  <2> QED
    BY <2>3, <2>4 DEF StepHolds
<1>17. CASE UNCHANGED vars
  <2>1. TypeOK'
    BY <1>17 DEF vars, TypeOK
  <2>2. WatchStep
    BY <1>17 DEF vars, WatchStep, Unwatched, Watched, Granting, Listed
  <2> QED
    BY <2>1, <2>2 DEF StepHolds
<1>18. ASSUME NEW t \in Threads, Step(t) PROVE StepHolds
  <2>1. Merge(t) => StepHolds
    BY <1>0, <1>12
  <2> QED
    BY <1>3, <1>8, <1>9, <1>10, <1>11, <1>18, <2>1 DEF Step
<1>19. ASSUME NEW t \in Workers, Request(t) PROVE StepHolds
  BY <1>1, <1>5, <1>6, <1>13, <1>19 DEF Request, Peers
<1>20. ASSUME NEW n \in Nodes, Reap(n) PROVE StepHolds
  BY <1>14, <1>15, <1>20 DEF Reap
<1> QED
  BY <1>16, <1>17, <1>18, <1>19, <1>20 DEF Next

(* At first there is nothing.                                              *)
LEMMA FederationInit == Init => TypeOK
<1>1. NoRecord \in MaybeRecord /\ NoLease \in Lease
  BY FederationAssumption DEF MaybeRecord, NoLease, Lease
<1> QED
  BY <1>1, HomeTyped DEF Init, TypeOK

(* The records, leases and jobs of all threads keep their types.           *)
THEOREM TypeCorrect == Spec => []TypeOK
<1>1. TypeOK /\ [Next]_vars => TypeOK'
  BY FederationStep DEF StepHolds
<1> QED
  BY <1>1, FederationInit, PTL DEF Spec

(* However registrations, removals, syncs, heartbeats and reapers          *)
(* interleave, the two races are all that leaves a node with a service that *)
(* no reaper will look at again.                                           *)
THEOREM LostOnlyInRaces == Spec => UnwatchedOnlyByRace
<1>1. TypeOK /\ [Next]_vars => [WatchStep]_vars
  BY FederationStep DEF StepHolds
<1>2. TypeOK /\ [Next]_vars => TypeOK'
  BY FederationStep DEF StepHolds
<1>3. Spec => [][WatchStep]_vars
  BY <1>1, <1>2, FederationInit, PTL DEF Spec
<1> QED
  BY <1>3 DEF UnwatchedOnlyByRace, WatchStep
=============================================================================
