---------------------------- MODULE HybridRuntime ----------------------------
(***************************************************************************)
(* hybrid_runtime_orchestrator.py with workload_router.py,                 *)
(* quantum_provider_registry.py and evidence_ledger.py: a workload is      *)
(* routed, executed, recorded in the evidence ledger and answered, while   *)
(* operators change the providers.  The server runs one submission at a    *)
(* time (its endpoints are coroutines without an await); the process may   *)
(* die anywhere and start again from the ledger's file.                    *)
(***************************************************************************)
EXTENDS Naturals, Sequences, FiniteSets

CONSTANTS
  ProviderIds,
  DefaultProviders,   \* what the registry's constructor registers
  Records,            \* provider records operators may register
  Workloads,
  MaxSubmits,         \* bound on the workloads submitted
  MaxChanges,         \* bound on the operators' changes
  MaxRestarts         \* bound on the crashes

Types == {"LOCAL_SIMULATOR", "REMOTE_SIMULATOR", "LIVE_HARDWARE"}
Statuses == {"AVAILABLE", "DEGRADED", "UNAVAILABLE", "UNKNOWN"}
Provider == [type : Types, status : Statuses, qubits : Nat, endpoint : BOOLEAN]
Absent == [type |-> "NONE", status |-> "UNKNOWN", qubits |-> 0, endpoint |-> FALSE]
MaybeProvider == Provider \union {Absent}

(* sized: problem_size is a number; demands: live hardware or entanglement. *)
Workload == [size : Nat, sized : BOOLEAN, qubo : BOOLEAN, simulation : BOOLEAN,
             demands : BOOLEAN, live : BOOLEAN, fallback : BOOLEAN]

ASSUME HybridAssumption ==
  /\ "NONE" \notin ProviderIds
  /\ DefaultProviders \in [ProviderIds -> MaybeProvider]
  /\ Records \subseteq Provider
  /\ Workloads \subseteq Workload
  /\ Workloads # {}
  /\ \A w \in Workloads : w.live => w.demands
  /\ MaxSubmits \in Nat /\ MaxChanges \in Nat /\ MaxRestarts \in Nat

Quantum == {"QUANTUM_LOCAL", "QUANTUM_SIMULATED", "QUANTUM_LIVE"}
Classifications == Quantum \union {"CLASSICAL"}
Paths == {"LIVE", "LOCAL", "SIMULATED", "FALLBACK", "BLOCKED"}
Nobody == "NONE"
Result == [cls : Classifications, path : Paths]
Submission == 1..MaxSubmits

VARIABLES
  providers,   \* _providers
  check,       \* a health check under way: its provider and the record it read
  ledger,      \* the records of the EvidenceLedger in memory, and so its head
  disk,        \* the ledger's file
  pc, work,    \* where submit_workload() is, and its metadata
  decision,    \* the RoutingDecision
  result,      \* the ClassifiedResult
  saved,       \* whether this submission's _save_to_disk() succeeded
  submits,     \* submissions so far; the last is running unless pc is "idle"
  answers,     \* what was answered
  since,       \* how many of them before the last restart
  circuits,    \* the submissions for which a circuit was run
  changes, restarts

registry == <<providers, check, changes>>
evidence == <<ledger, disk>>
run == <<pc, work, decision, result, saved, submits>>
history == <<answers, since, circuits, restarts>>
vars == <<registry, evidence, run, history>>

Decision == [provider : ProviderIds \union {Nobody}, cls : Classifications, path : Paths]
NoDecision == [provider |-> Nobody, cls |-> "CLASSICAL", path |-> "LOCAL"]
NoResult == [cls |-> "CLASSICAL", path |-> "LOCAL"]
Entry == [id : Submission, cls : Classifications, path : Paths]
Outcome == [id : Submission, work : Workloads, result : Result,
            status : {"COMPLETED", "ERROR"}, saved : BOOLEAN]

TypeOK ==
  /\ providers \in [ProviderIds -> MaybeProvider]
  /\ check \in [on : ProviderIds \union {Nobody}, saw : MaybeProvider]
  /\ ledger \in Seq(Entry) /\ disk \in Seq(Entry)
  /\ pc \in {"idle", "route", "execute", "label", "record", "save", "answer"}
  /\ work \in Workloads /\ decision \in Decision /\ result \in Result
  /\ saved \in BOOLEAN
  /\ submits \in 0..MaxSubmits /\ changes \in 0..MaxChanges /\ restarts \in 0..MaxRestarts
  /\ answers \in Seq(Outcome) /\ since \in 0..Len(answers)
  /\ circuits \subseteq Submission
  /\ pc # "idle" => submits > 0

Init ==
  /\ providers = DefaultProviders
  /\ check = [on |-> Nobody, saw |-> Absent]
  /\ ledger = <<>> /\ disk = <<>>
  /\ pc = "idle" /\ work \in Workloads /\ decision = NoDecision /\ result = NoResult
  /\ saved = FALSE
  /\ submits = 0 /\ answers = <<>> /\ since = 0 /\ circuits = {}
  /\ changes = 0 /\ restarts = 0

-----------------------------------------------------------------------------
(* The provider registry, each method one critical section but the health  *)
(* check, which asks the endpoint between two.                             *)
RegisterProvider(p, r) ==
  /\ changes < MaxChanges
  /\ changes' = changes + 1
  /\ providers' = [providers EXCEPT ![p] = r]
  /\ UNCHANGED <<check, evidence, run, history>>

DeregisterProvider(p) ==
  /\ changes < MaxChanges
  /\ providers[p] # Absent
  /\ changes' = changes + 1
  /\ providers' = [providers EXCEPT ![p] = Absent]
  /\ UNCHANGED <<check, evidence, run, history>>

CheckHealth(p) ==
  /\ changes < MaxChanges
  /\ check.on = Nobody
  /\ providers[p] # Absent
  /\ changes' = changes + 1
  /\ check' = [on |-> p, saw |-> providers[p]]
  /\ UNCHANGED <<providers, evidence, run, history>>

Found(r) ==
  IF r.type = "LOCAL_SIMULATOR" THEN {"AVAILABLE"}
  ELSE IF r.endpoint THEN {"AVAILABLE", "DEGRADED", "UNAVAILABLE"}
  ELSE {"UNKNOWN"}

(* Whichever record has the id by now is given the status.                 *)
UpdateHealth(status) ==
  /\ check.on # Nobody
  /\ status \in Found(check.saw)
  /\ providers' = IF providers[check.on] = Absent THEN providers
                  ELSE [providers EXCEPT ![check.on].status = status]
  /\ check' = [on |-> Nobody, saw |-> Absent]
  /\ UNCHANGED <<changes, evidence, run, history>>

-----------------------------------------------------------------------------
(* The router.                                                             *)
IsAvailable(r) == r.status \in {"AVAILABLE", "DEGRADED"}
Available == {p \in ProviderIds : providers[p] # Absent /\ IsAvailable(providers[p])}

TypeRank(type, live) ==
  CASE type = "REMOTE_SIMULATOR" -> 1
    [] type = "LIVE_HARDWARE" -> IF live THEN 0 ELSE 2
    [] OTHER -> IF live THEN 2 ELSE 0

(* get_best_provider(): by type first, then by status; ties go to the      *)
(* provider registered first.                                              *)
Rank(p, live) ==
  2 * TypeRank(providers[p].type, live) + (IF providers[p].status = "AVAILABLE" THEN 0 ELSE 1)

Fit(size) == {p \in Available : providers[p].qubits >= size}
BestProviders(size, live) ==
  {p \in Fit(size) : \A q \in Fit(size) : Rank(p, live) <= Rank(q, live)}

(* assess_suitability(); a hybrid workload is routed like a preferred one. *)
Suitability(w) ==
  IF w.demands THEN "QUANTUM_REQUIRED"
  ELSE IF w.qubo THEN IF w.size >= 3 THEN "QUANTUM_PREFERRED" ELSE "CLASSICAL_PREFERRED"
  ELSE IF w.simulation /\ w.size >= 5 THEN "QUANTUM_PREFERRED"
  ELSE "CLASSICAL_PREFERRED"

(* A size that is no number is compared, with a TypeError.                 *)
RouteRaises(w) == ~w.sized /\ (Available # {} \/ (~w.demands /\ (w.qubo \/ w.simulation)))

Classified(type) ==
  CASE type = "LIVE_HARDWARE" -> "QUANTUM_LIVE"
    [] type = "REMOTE_SIMULATOR" -> "QUANTUM_SIMULATED"
    [] OTHER -> "QUANTUM_LOCAL"

(* Mutant of PathOf: the provider's type is taken for a path.              *)
PathByType(type) == type

PathOf(type) ==
  CASE type = "LIVE_HARDWARE" -> "LIVE"
    [] type = "REMOTE_SIMULATOR" -> "SIMULATED"
    [] OTHER -> "LOCAL"

(* The decisions route() may come to: more than one only if providers tie. *)
Decisions(w) ==
  LET best == BestProviders(w.size, w.live)
  IN  IF Suitability(w) = "CLASSICAL_PREFERRED" THEN {NoDecision}
      ELSE IF best # {}
        THEN {[provider |-> p, cls |-> Classified(providers[p].type),
               path |-> PathOf(providers[p].type)] : p \in best}
      ELSE IF Suitability(w) = "QUANTUM_PREFERRED" \/ w.fallback
        THEN {[NoDecision EXCEPT !.path = "FALLBACK"]}
      ELSE {[NoDecision EXCEPT !.path = "BLOCKED"]}

-----------------------------------------------------------------------------
(* submit_workload()                                                       *)
Submit(w) ==
  /\ pc = "idle" /\ submits < MaxSubmits
  /\ pc' = "route" /\ work' = w
  /\ submits' = submits + 1
  /\ UNCHANGED <<registry, evidence, decision, result, saved, history>>

Answer(status, r, s) ==
  /\ answers' = Append(answers, [id |-> submits, work |-> work, result |-> r,
                                 status |-> status, saved |-> s])
  /\ pc' = "idle"
  /\ decision' = NoDecision /\ result' = NoResult /\ saved' = FALSE

Blocked == [NoResult EXCEPT !.path = "BLOCKED"]
Fallback == [NoResult EXCEPT !.path = "FALLBACK"]

Route ==
  /\ pc = "route"
  /\ ~RouteRaises(work)
  /\ decision' \in Decisions(work)
  /\ pc' = "execute"
  /\ UNCHANGED <<registry, evidence, work, result, saved, submits, history>>

RouteFails ==
  /\ pc = "route"
  /\ RouteRaises(work)
  /\ Answer("ERROR", Blocked, FALSE)
  /\ UNCHANGED <<registry, evidence, work, submits, since, circuits, restarts>>

Executed(r) ==
  /\ result' = r
  /\ pc' = "record"
  /\ UNCHANGED <<registry, evidence, work, decision, saved, submits, history>>

(* Paths that need no provider.                                            *)
ExecuteClassical ==
  /\ pc = "execute"
  /\ decision.provider = Nobody
  /\ Executed([NoResult EXCEPT !.path = decision.path])

(* Looked up again: it may be gone, down, or another one under its id.     *)
CanRun(r) == r # Absent /\ IsAvailable(r) /\ r.type = "LOCAL_SIMULATOR"

(* Mutant of RunCircuit: what was looked up is taken to be what was routed *)
(* to, so that a provider that is gone seems to have run.                  *)
RunUnchecked ==
  /\ pc = "execute"
  /\ decision.provider # Nobody
  /\ circuits' = IF CanRun(providers[decision.provider]) THEN circuits \union {submits} ELSE circuits
  /\ pc' = "label"
  /\ UNCHANGED <<registry, evidence, work, decision, result, saved, submits, answers, since, restarts>>

(* run_quantum_producer() returned ...                                     *)
RunCircuit ==
  /\ pc = "execute"
  /\ decision.provider # Nobody
  /\ CanRun(providers[decision.provider])
  /\ circuits' = circuits \union {submits}
  /\ pc' = "label"
  /\ UNCHANGED <<registry, evidence, work, decision, result, saved, submits, answers, since, restarts>>

(* ... and its counts were classified and labelled as they were routed.    *)
Label ==
  /\ pc = "label"
  /\ Executed([cls |-> decision.cls, path |-> decision.path])

(* No provider, not available, no endpoint for its type, or an exception   *)
(* before or after the circuit.                                            *)
QuantumFails ==
  /\ pc \in {"execute", "label"}
  /\ decision.provider # Nobody
  /\ Executed(IF work.fallback THEN Fallback ELSE Blocked)

(* The trace store, before the evidence, or a stage after it raises: the   *)
(* answer is an error, whatever ran.                                       *)
StageFails ==
  /\ pc \in {"record", "answer"}
  /\ Answer("ERROR", Blocked, saved)
  /\ UNCHANGED <<registry, evidence, work, submits, since, circuits, restarts>>

-----------------------------------------------------------------------------
(* Mutant of Record: what was blocked leaves no evidence.                  *)
RecordExecuted ==
  /\ pc = "record"
  /\ ledger' = IF result.path = "BLOCKED" THEN ledger
               ELSE Append(ledger, [id |-> submits, cls |-> result.cls, path |-> result.path])
  /\ pc' = "save"
  /\ UNCHANGED <<registry, disk, work, decision, result, saved, submits, history>>

(* EvidenceLedger.append(): the head is the one just read.                 *)
Record ==
  /\ pc = "record"
  /\ ledger' = Append(ledger, [id |-> submits, cls |-> result.cls, path |-> result.path])
  /\ pc' = "save"
  /\ UNCHANGED <<registry, disk, work, decision, result, saved, submits, history>>

(* _save_to_disk(): the whole ledger through a temporary file ...          *)
Save ==
  /\ pc = "save"
  /\ disk' = ledger
  /\ saved' = TRUE
  /\ pc' = "answer"
  /\ UNCHANGED <<registry, ledger, work, decision, result, submits, history>>

(* ... or not, which only the log tells.                                   *)
SaveFails ==
  /\ pc = "save"
  /\ pc' = "answer"
  /\ UNCHANGED <<registry, evidence, work, decision, result, saved, submits, history>>

Complete ==
  /\ pc = "answer"
  /\ Answer("COMPLETED", result, saved)
  /\ UNCHANGED <<registry, evidence, work, submits, since, circuits, restarts>>

-----------------------------------------------------------------------------
(* Mutant of Restart: the ledger begins anew.                              *)
RestartBlank ==
  /\ restarts < MaxRestarts
  /\ restarts' = restarts + 1
  /\ ledger' = <<>>
  /\ providers' = DefaultProviders
  /\ check' = [on |-> Nobody, saw |-> Absent]
  /\ pc' = "idle" /\ decision' = NoDecision /\ result' = NoResult /\ saved' = FALSE
  /\ since' = Len(answers)
  /\ UNCHANGED <<disk, work, submits, answers, circuits, changes>>

(* The process dies, and _load_from_disk() restores the ledger.            *)
Restart ==
  /\ restarts < MaxRestarts
  /\ restarts' = restarts + 1
  /\ ledger' = disk
  /\ providers' = DefaultProviders
  /\ check' = [on |-> Nobody, saw |-> Absent]
  /\ pc' = "idle" /\ decision' = NoDecision /\ result' = NoResult /\ saved' = FALSE
  /\ since' = Len(answers)
  /\ UNCHANGED <<disk, work, submits, answers, circuits, changes>>

Operate ==
  \/ \E p \in ProviderIds, r \in Records : RegisterProvider(p, r)
  \/ \E p \in ProviderIds : DeregisterProvider(p) \/ CheckHealth(p)
  \/ \E s \in Statuses : UpdateHealth(s)

Step ==
  \/ Route \/ RouteFails
  \/ ExecuteClassical \/ RunCircuit \/ Label \/ QuantumFails \/ StageFails
  \/ Record \/ Save \/ SaveFails \/ Complete

Next == Operate \/ (\E w \in Workloads : Submit(w)) \/ Step \/ Restart

Spec == Init /\ [][Next]_vars

-----------------------------------------------------------------------------
(* "A classical fallback is NEVER presented as quantum execution"          *)
(* (FAILURE_AND_FALLBACK_POLICY.md:35), whatever happened to the provider  *)
(* since the routing and whatever failed after it: an answer, and a record *)
(* in the ledger or its file, that says quantum is of a submission that ran *)
(* a circuit and did not fall back.  (Not the converse: a circuit may have *)
(* run behind a fallback or an error.)  And a workload that requires       *)
(* quantum execution and accepts no fallback gets it or is blocked.        *)
SaysQuantum(r, id) ==
  r.cls \in Quantum => id \in circuits /\ r.path \notin {"FALLBACK", "BLOCKED"}

NeverMasquerades ==
  /\ \A i \in DOMAIN answers :
       LET r == answers[i].result
           w == answers[i].work
       IN  /\ SaysQuantum(r, answers[i].id)
           /\ w.demands /\ ~w.fallback => r.cls \in Quantum \/ r.path = "BLOCKED"
  /\ \A k \in DOMAIN ledger : SaysQuantum(ledger[k], ledger[k].id)
  /\ \A k \in DOMAIN disk : SaysQuantum(disk[k], disk[k].id)

Entries(s, id) == {k \in DOMAIN s : s[k].id = id}

(* A workload answered COMPLETED, blocked or not, is in the ledger once and *)
(* as it was answered: until the next restart, and for ever if its record  *)
(* was saved.                                                              *)
AnsweredHasEvidence ==
  \A i \in DOMAIN answers :
    LET a == answers[i]
        Holds(s) == /\ Cardinality(Entries(s, a.id)) = 1
                    /\ \A k \in Entries(s, a.id) :
                         s[k].cls = a.result.cls /\ s[k].path = a.result.path
    IN  a.status = "COMPLETED" => /\ i > since => Holds(ledger)
                                  /\ a.saved => Holds(disk)

(* "Evidence ledger auto-restores" (FAILURE_AND_FALLBACK_POLICY.md:80): the *)
(* chain in the file only grows at its end, through failed writes, crashes *)
(* and restarts.                                                           *)
EvidenceOnlyGrows ==
  [][/\ Len(disk) <= Len(disk')
     /\ disk = SubSeq(disk', 1, Len(disk))]_disk
=============================================================================
