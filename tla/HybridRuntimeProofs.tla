------------------------ MODULE HybridRuntimeProofs ------------------------
(***************************************************************************)
(* What the hybrid runtime tells its callers and keeps as evidence, for    *)
(* any providers, workloads, failures of the disk and number of restarts.  *)
(***************************************************************************)
EXTENDS HybridRuntime, FiniteSetTheorems, SequenceTheorems, TLAPS

(* What the router may decide.                                             *)
LEMMA DecisionTyped ==
  ASSUME NEW w \in Workloads, NEW d \in Decisions(w)
  PROVE  /\ d \in Decision
         /\ d.provider # Nobody => d.cls \in Quantum /\ d.path \in {"LIVE", "LOCAL", "SIMULATED"}
         /\ d.provider = Nobody => d.cls = "CLASSICAL"
         /\ d.provider = Nobody /\ w.demands /\ ~w.fallback => d.path = "BLOCKED"
<1>1. NoDecision \in Decision
  BY DEF NoDecision, Decision, Classifications, Quantum, Paths
<1>2. CASE d = NoDecision /\ Suitability(w) = "CLASSICAL_PREFERRED"
  <2>1. ~w.demands
    BY <1>2 DEF Suitability
  <2> QED
    BY <1>1, <1>2, <2>1 DEF NoDecision
<1>3. ASSUME NEW p \in BestProviders(w.size, w.live),
             d = [provider |-> p, cls |-> Classified(providers[p].type),
                  path |-> PathOf(providers[p].type)]
      PROVE  /\ d \in Decision /\ d.provider # Nobody
             /\ d.cls \in Quantum /\ d.path \in {"LIVE", "LOCAL", "SIMULATED"}
  <2>1. p \in ProviderIds /\ p # Nobody
    BY HybridAssumption DEF BestProviders, Fit, Available, Nobody
  <2>2. Classified(providers[p].type) \in Quantum
    BY DEF Classified, Quantum
  <2>3. PathOf(providers[p].type) \in {"LIVE", "LOCAL", "SIMULATED"}
    BY DEF PathOf
  <2> QED
    BY <1>3, <2>1, <2>2, <2>3 DEF Decision, Classifications, Paths
<1>4. CASE d = [NoDecision EXCEPT !.path = "FALLBACK"]
           /\ (Suitability(w) = "QUANTUM_PREFERRED" \/ w.fallback)
  <2>1. ~(w.demands /\ ~w.fallback)
    BY <1>4 DEF Suitability
  <2> QED
    BY <1>1, <1>4, <2>1 DEF NoDecision, Decision, Paths
<1>5. CASE d = [NoDecision EXCEPT !.path = "BLOCKED"]
  BY <1>1, <1>5 DEF NoDecision, Decision, Paths
<1> QED
  BY <1>2, <1>3, <1>4, <1>5 DEF Decisions

-----------------------------------------------------------------------------
(* The types, and beside them what the place says of the decision and the  *)
(* result: this is what keeps a fallback from passing for a circuit.       *)
HonestDecision ==
  /\ decision.provider # Nobody =>
       decision.cls \in Quantum /\ decision.path \in {"LIVE", "LOCAL", "SIMULATED"}
  /\ pc = "execute" /\ decision.provider = Nobody /\ work.demands /\ ~work.fallback =>
       decision.path = "BLOCKED"

Honest(r, w, id) ==
  /\ SaysQuantum(r, id)
  /\ w.demands /\ ~w.fallback => r.cls \in Quantum \/ r.path = "BLOCKED"

(* From the circuit on it is known that the submission ran one; a result   *)
(* is what an answer and a record may show.                                *)
HonestInv ==
  /\ TypeOK
  /\ HonestDecision
  /\ pc = "label" => decision.provider # Nobody /\ submits \in circuits
  /\ pc \in {"record", "save", "answer"} => Honest(result, work, submits)
  /\ NeverMasquerades

LEMMA NothingTyped == NoResult \in Result /\ NoDecision \in Decision /\ Blocked \in Result
                      /\ Fallback \in Result /\ Absent \in MaybeProvider
  BY DEF NoResult, Result, NoDecision, Decision, Blocked, Fallback, Classifications, Quantum,
         Paths, MaybeProvider

(* Answering keeps the types and adds an honest answer.                    *)
LEMMA AnswerKeeps ==
  ASSUME HonestInv, pc # "idle", NEW status \in {"COMPLETED", "ERROR"}, NEW r \in Result,
         NEW s \in BOOLEAN, Honest(r, work, submits), Answer(status, r, s),
         UNCHANGED <<registry, evidence, work, submits, since, circuits, restarts>>
  PROVE  HonestInv'
<1> DEFINE a == [id |-> submits, work |-> work, result |-> r, status |-> status, saved |-> s]
<1>0. TypeOK /\ NeverMasquerades
  BY DEF HonestInv
<1>1. a \in Outcome /\ answers \in Seq(Outcome)
  BY <1>0 DEF TypeOK, Outcome, Submission
<1>2. answers' = Append(answers, a) /\ pc' = "idle"
      /\ decision' = NoDecision /\ result' = NoResult /\ saved' = FALSE
  BY DEF Answer
<1>3. /\ answers' \in Seq(Outcome) /\ Len(answers') = Len(answers) + 1
      /\ Len(answers) \in Nat
      /\ \A i \in DOMAIN answers' : \/ i \in DOMAIN answers /\ answers'[i] = answers[i]
                                   \/ answers'[i] = a
  <2>1. /\ answers' \in Seq(Outcome) /\ Len(answers') = Len(answers) + 1
        /\ \A i \in 1..Len(answers) : answers'[i] = answers[i]
        /\ answers'[Len(answers) + 1] = a
    BY <1>1, <1>2, AppendProperties
  <2>2. DOMAIN answers = 1..Len(answers) /\ DOMAIN answers' = 1..Len(answers') /\ Len(answers) \in Nat
    BY <1>1, <2>1, LenProperties
  <2> QED
    BY <2>1, <2>2
<1>4. TypeOK'
  <2>1. since' \in 0..Len(answers')
    BY <1>0, <1>3 DEF TypeOK
  <2>2. UNCHANGED <<providers, check, changes, ledger, disk, work, submits, since, circuits, restarts>>
    BY DEF registry, evidence
  <2> HIDE DEF a
  <2> QED
    BY <1>0, <1>2, <1>3, <2>1, <2>2, NothingTyped DEF TypeOK
<1>5. a.result = r /\ a.work = work /\ a.id = submits
  OBVIOUS
<1> HIDE DEF a
<1>6. NeverMasquerades'
  <2>1. UNCHANGED <<ledger, disk, circuits>>
    BY DEF evidence
  <2> QED
    BY <1>0, <1>3, <1>5, <2>1 DEF NeverMasquerades, Honest, SaysQuantum
<1>7. HonestDecision'
  BY <1>2 DEF HonestDecision, NoDecision
<1> QED
  BY <1>2, <1>4, <1>6, <1>7 DEF HonestInv

(* Every step keeps it: whatever is looked up at the execution, a quantum  *)
(* label is given only where a circuit is run.                             *)
LEMMA HonestStep == HonestInv /\ [Next]_vars => HonestInv'
<1> SUFFICES ASSUME HonestInv, [Next]_vars PROVE HonestInv'
  OBVIOUS
<1> USE HybridAssumption DEF registry, evidence, run, history
<1>0. TypeOK /\ HonestDecision /\ NeverMasquerades
      /\ (pc = "label" => decision.provider # Nobody /\ submits \in circuits)
      /\ (pc \in {"record", "save", "answer"} => Honest(result, work, submits))
  BY DEF HonestInv
<1>1. ASSUME providers' \in [ProviderIds -> MaybeProvider],
             check' \in [on : ProviderIds \union {Nobody}, saw : MaybeProvider],
             changes' \in 0..MaxChanges, UNCHANGED <<evidence, run, history>>
      PROVE  HonestInv'
  <2>1. TypeOK'
    BY <1>0, <1>1 DEF TypeOK
  <2> QED
    BY <1>0, <1>1, <2>1 DEF HonestInv, HonestDecision, Honest, SaysQuantum, NeverMasquerades
<1>2. ASSUME Operate PROVE HonestInv'
  <2>1. ASSUME NEW p \in ProviderIds, NEW r \in Records, RegisterProvider(p, r) PROVE HonestInv'
    BY <1>0, <1>1, <2>1 DEF RegisterProvider, TypeOK, MaybeProvider
  <2>2. ASSUME NEW p \in ProviderIds, DeregisterProvider(p) PROVE HonestInv'
    BY <1>0, <1>1, <2>2, NothingTyped DEF DeregisterProvider, TypeOK
  <2>3. ASSUME NEW p \in ProviderIds, CheckHealth(p) PROVE HonestInv'
    BY <1>0, <1>1, <2>3 DEF CheckHealth, TypeOK
  <2>4. ASSUME NEW s \in Statuses, UpdateHealth(s) PROVE HonestInv'
    <3>1. check.on \in ProviderIds /\ providers[check.on] \in MaybeProvider
      BY <1>0, <2>4 DEF UpdateHealth, TypeOK
    <3>2. providers[check.on] # Absent => [providers[check.on] EXCEPT !.status = s] \in MaybeProvider
      BY <3>1 DEF MaybeProvider, Provider
    <3>3. providers' \in [ProviderIds -> MaybeProvider]
      BY <1>0, <2>4, <3>1, <3>2 DEF UpdateHealth, TypeOK
    <3> QED
      BY <1>0, <1>1, <2>4, <3>3, NothingTyped DEF UpdateHealth, TypeOK
  <2> QED
    BY <1>2, <2>1, <2>2, <2>3, <2>4 DEF Operate
<1>3. ASSUME NEW w \in Workloads, Submit(w) PROVE HonestInv'
  <2>1. TypeOK'
    BY <1>0, <1>3 DEF Submit, TypeOK
  <2> QED
    BY <1>0, <1>3, <2>1 DEF Submit, HonestInv, HonestDecision, Honest, SaysQuantum, NeverMasquerades
<1>4. CASE Route
  <2>1. work \in Workloads /\ decision' \in Decisions(work) /\ pc' = "execute"
    BY <1>0, <1>4 DEF Route, TypeOK
  <2>2. /\ decision' \in Decision
        /\ HonestDecision'
    BY <1>4, <2>1, DecisionTyped DEF HonestDecision, Route, Quantum
  <2>3. TypeOK'
    BY <1>0, <1>4, <2>2 DEF Route, TypeOK
  <2> QED
    BY <1>0, <1>4, <2>2, <2>3 DEF Route, HonestInv, NeverMasquerades, SaysQuantum
<1>5. CASE RouteFails
  <2>1. Honest(Blocked, work, submits)
    BY DEF Honest, SaysQuantum, Blocked, NoResult, Quantum
  <2> QED
    BY <1>5, <2>1, AnswerKeeps, NothingTyped DEF RouteFails
<1>6. ASSUME NEW r \in Result, pc \in {"execute", "label"}, Honest(r, work, submits), Executed(r) PROVE HonestInv'
  <2>1. TypeOK'
    BY <1>0, <1>6 DEF Executed, TypeOK
  <2> QED
    BY <1>0, <1>6, <2>1 DEF Executed, HonestInv, HonestDecision, NeverMasquerades, Honest, SaysQuantum
<1>7. CASE ExecuteClassical
  <2> DEFINE r == [NoResult EXCEPT !.path = decision.path]
  <2>1. r \in Result
    BY <1>0, NothingTyped DEF TypeOK, Decision, Result
  <2>2. Honest(r, work, submits)
    BY <1>0, <1>7 DEF ExecuteClassical, HonestDecision, Honest, SaysQuantum, NoResult, Quantum
  <2> QED
    BY <1>6, <1>7, <2>1, <2>2 DEF ExecuteClassical
<1>8. CASE RunCircuit
  <2>1. /\ pc' = "label" /\ circuits' = circuits \union {submits}
        /\ decision.provider # Nobody /\ submits \in Submission
        /\ UNCHANGED <<providers, check, changes, ledger, disk, work, decision, result, saved,
                       submits, answers, since, restarts>>
    BY <1>0, <1>8 DEF RunCircuit, TypeOK, Submission
  <2>2. TypeOK'
    <3>1. circuits' \subseteq Submission
      BY <1>0, <2>1 DEF TypeOK
    <3> HIDE DEF Submission
    <3> QED
      BY <1>0, <1>8, <2>1, <3>1 DEF RunCircuit, TypeOK
  <2>3. NeverMasquerades'
    BY <1>0, <2>1 DEF NeverMasquerades, SaysQuantum
  <2>4. HonestDecision'
    BY <1>0, <2>1 DEF HonestDecision
  <2> QED
    BY <2>1, <2>2, <2>3, <2>4 DEF HonestInv
<1>9. CASE Label
  <2> DEFINE r == [cls |-> decision.cls, path |-> decision.path]
  <2>1. r \in Result
    BY <1>0 DEF TypeOK, Decision, Result
  <2>2. Honest(r, work, submits)
    BY <1>0, <1>9 DEF Label, HonestDecision, Honest, SaysQuantum
  <2> QED
    BY <1>6, <1>9, <2>1, <2>2 DEF Label
<1>15. CASE QuantumFails
  <2>1. /\ work.fallback => Honest(Fallback, work, submits)
        /\ Honest(Blocked, work, submits)
    BY DEF Honest, SaysQuantum, Fallback, Blocked, NoResult, Quantum
  <2> QED
    BY <1>6, <1>15, <2>1, NothingTyped DEF QuantumFails
<1>16. CASE StageFails
  <2>1. Honest(Blocked, work, submits)
    BY DEF Honest, SaysQuantum, Blocked, NoResult, Quantum
  <2>2. pc # "idle" /\ saved \in BOOLEAN
    BY <1>0, <1>16 DEF StageFails, TypeOK
  <2> QED
    BY <1>16, <2>1, <2>2, AnswerKeeps, NothingTyped DEF StageFails
<1>10. CASE Record
  <2> DEFINE e == [id |-> submits, cls |-> result.cls, path |-> result.path]
  <2>1. e \in Entry
    BY <1>0, <1>10 DEF Record, TypeOK, Entry, Submission, Result
  <2>2. /\ e.id = submits /\ e.cls = result.cls /\ e.path = result.path
        /\ ledger' = Append(ledger, e) /\ pc = "record" /\ pc' = "save"
        /\ UNCHANGED <<providers, check, changes, disk, work, decision, result, saved,
                       submits, answers, since, circuits, restarts>>
    BY <1>10 DEF Record
  <2> HIDE DEF e
  <2>3. /\ ledger' \in Seq(Entry)
        /\ \A k \in DOMAIN ledger' : \/ k \in DOMAIN ledger /\ ledger'[k] = ledger[k]
                                     \/ ledger'[k] = e
    BY <1>0, <2>1, <2>2, AppendProperties, LenProperties DEF TypeOK
  <2>4. TypeOK'
    BY <1>0, <2>2, <2>3 DEF TypeOK
  <2>5. SaysQuantum(e, e.id)
    BY <1>0, <2>2 DEF Honest, SaysQuantum
  <2>6. NeverMasquerades'
    BY <1>0, <2>2, <2>3, <2>5 DEF NeverMasquerades, SaysQuantum
  <2>7. HonestDecision'
    BY <1>0, <2>2 DEF HonestDecision
  <2>8. Honest(result, work, submits)'
    BY <1>0, <2>2 DEF Honest, SaysQuantum
  <2> QED
    BY <2>2, <2>4, <2>6, <2>7, <2>8 DEF HonestInv
<1>11. CASE Save
  <2>1. TypeOK'
    BY <1>0, <1>11 DEF Save, TypeOK
  <2> QED
    BY <1>0, <1>11, <2>1 DEF Save, HonestInv, HonestDecision, NeverMasquerades, Honest, SaysQuantum
<1>17. CASE SaveFails
  <2>1. TypeOK'
    BY <1>0, <1>17 DEF SaveFails, TypeOK
  <2> QED
    BY <1>0, <1>17, <2>1 DEF SaveFails, HonestInv, HonestDecision, NeverMasquerades, Honest, SaysQuantum
<1>12. CASE Complete
  BY <1>0, <1>12, AnswerKeeps DEF Complete, TypeOK
<1>13. CASE Restart
  <2>1. Len(answers) \in Nat
    BY <1>0, LenProperties DEF TypeOK
  <2>2. since' \in 0..Len(answers') /\ restarts' \in 0..MaxRestarts
    BY <1>0, <1>13, <2>1 DEF Restart, TypeOK
  <2>3. check' \in [on : ProviderIds \union {Nobody}, saw : MaybeProvider]
        /\ providers' \in [ProviderIds -> MaybeProvider]
    BY <1>13, NothingTyped DEF Restart
  <2>4. TypeOK'
    BY <1>0, <1>13, <2>2, <2>3, NothingTyped DEF Restart, TypeOK
  <2> QED
    BY <1>0, <1>13, <2>4 DEF Restart, HonestInv, HonestDecision, NoDecision, NeverMasquerades, SaysQuantum
<1>14. CASE UNCHANGED vars
  BY <1>0, <1>14 DEF vars, TypeOK, HonestInv, HonestDecision, NeverMasquerades, Honest, SaysQuantum
<1> QED
  BY <1>2, <1>3, <1>4, <1>5, <1>7, <1>8, <1>9, <1>10, <1>11, <1>12, <1>13, <1>14, <1>15,
     <1>16, <1>17 DEF Next, Step

(* At first there is nothing to be dishonest about.                        *)
LEMMA HonestInit == Init => HonestInv
<1> SUFFICES ASSUME Init PROVE HonestInv
  OBVIOUS
<1>1. TypeOK
  <2>1. since \in 0..Len(answers) /\ Len(answers) = 0
    BY DEF Init
  <2>2. submits \in 0..MaxSubmits /\ changes \in 0..MaxChanges /\ restarts \in 0..MaxRestarts
    BY HybridAssumption DEF Init
  <2>3. ledger \in Seq(Entry) /\ disk \in Seq(Entry) /\ answers \in Seq(Outcome)
    BY DEF Init
  <2>4. check \in [on : ProviderIds \union {Nobody}, saw : MaybeProvider]
    BY NothingTyped DEF Init
  <2> QED
    BY <2>1, <2>2, <2>3, <2>4, HybridAssumption, NothingTyped DEF Init, TypeOK
<1> QED
  BY <1>1 DEF Init, HonestInv, HonestDecision, NoDecision, NeverMasquerades

(* The registry, the ledger, its file and the answers keep their types.    *)
THEOREM TypeCorrect == Spec => []TypeOK
<1>1. HonestInv => TypeOK
  BY DEF HonestInv
<1> QED
  BY <1>1, HonestInit, HonestStep, PTL DEF Spec

(* However the providers change between the routing and the execution, and *)
(* whatever fails after the circuit, what an answer, the ledger or its     *)
(* file calls quantum ran a circuit, and a workload that accepts no        *)
(* fallback is not given one.                                              *)
THEOREM FallbackNeverMasquerades == Spec => []NeverMasquerades
<1>1. HonestInv => NeverMasquerades
  BY DEF HonestInv
<1> QED
  BY <1>1, HonestInit, HonestStep, PTL DEF Spec

-----------------------------------------------------------------------------
(* The evidence.  What the file holds is where the ledger began: a save    *)
(* that failed left an older beginning, and a restart goes back to it.     *)
Prefix(s, t) == DOMAIN s \subseteq DOMAIN t /\ \A k \in DOMAIN s : t[k] = s[k]

DiskIsPrefix == ledger \in Seq(Entry) /\ disk \in Seq(Entry) /\ Prefix(disk, ledger)

LEMMA PrefixIsSubSeq ==
  ASSUME NEW s \in Seq(Entry), NEW t \in Seq(Entry), Prefix(s, t)
  PROVE  Len(s) <= Len(t) /\ s = SubSeq(t, 1, Len(s))
<1>1. /\ Len(s) \in Nat /\ DOMAIN s = 1..Len(s) /\ s \in [1..Len(s) -> Entry]
      /\ Len(t) \in Nat /\ DOMAIN t = 1..Len(t)
  BY LenProperties
<1>2. \A k \in 1..Len(s) : k \in 1..Len(t) /\ t[k] = s[k]
  BY <1>1 DEF Prefix
<1>3. Len(s) <= Len(t)
  <2>1. CASE Len(s) = 0
    BY <1>1, <2>1
  <2>2. CASE Len(s) # 0
    <3>1. Len(s) \in 1..Len(s)
      BY <1>1, <2>2
    <3> QED
      BY <1>1, <1>2, <3>1
  <2> QED
    BY <2>1, <2>2
<1> DEFINE u == SubSeq(t, 1, Len(s))
<1>4. \A k \in 1..Len(s) : t[k] \in Entry
  BY <1>1, <1>2
<1>5. /\ u \in Seq(Entry) /\ Len(u) = Len(s)
      /\ \A k \in 1..Len(s) : u[k] = t[k]
  <2>1. /\ u \in Seq(Entry)
        /\ Len(u) = IF 1 <= Len(s) THEN Len(s) - 1 + 1 ELSE 0
        /\ \A k \in 1..(Len(s) - 1 + 1) : u[k] = t[1 + k - 1]
    BY <1>1, <1>4, SubSeqProperties
  <2>2. Len(s) - 1 + 1 = Len(s) /\ \A k \in 1..Len(s) : 1 + k - 1 = k
    BY <1>1
  <2> QED
    BY <1>1, <2>1, <2>2
<1>6. u \in [1..Len(s) -> Entry]
  BY <1>5, LenProperties
<1>7. \A k \in 1..Len(s) : s[k] = u[k]
  BY <1>2, <1>5
<1> HIDE DEF u
<1>8. s = u
  BY <1>1, <1>6, <1>7
<1> QED
  BY <1>3, <1>8 DEF u

(* One step: the ledger is appended to, written out, or reloaded.          *)
LEMMA EvidenceStep ==
  ASSUME TypeOK, DiskIsPrefix, [Next]_vars
  PROVE  DiskIsPrefix' /\ (disk' = disk \/ Prefix(disk, disk'))
<1>1. CASE UNCHANGED evidence
  BY <1>1 DEF evidence, DiskIsPrefix
<1>2. CASE Record
  <2> DEFINE e == [id |-> submits, cls |-> result.cls, path |-> result.path]
  <2>1. e \in Entry /\ ledger' = Append(ledger, e) /\ UNCHANGED disk
    BY <1>2 DEF Record, TypeOK, Entry, Submission, Result
  <2> HIDE DEF e
  <2>2. /\ ledger' \in Seq(Entry) /\ Len(ledger') = Len(ledger) + 1
        /\ \A k \in 1..Len(ledger) : ledger'[k] = ledger[k]
    BY <2>1, AppendProperties DEF DiskIsPrefix
  <2>3. /\ Len(ledger) \in Nat
        /\ DOMAIN ledger = 1..Len(ledger) /\ DOMAIN ledger' = 1..Len(ledger')
    BY <2>2, LenProperties DEF DiskIsPrefix
  <2>4. DOMAIN ledger \subseteq DOMAIN ledger'
    BY <2>2, <2>3
  <2> QED
    BY <2>1, <2>2, <2>3, <2>4 DEF DiskIsPrefix, Prefix
<1>3. CASE Save
  BY <1>3 DEF Save, DiskIsPrefix, Prefix
<1>4. CASE Restart
  BY <1>4 DEF Restart, DiskIsPrefix, Prefix
<1>5. CASE UNCHANGED vars
  BY <1>1, <1>5 DEF vars
<1>6. ASSUME Operate \/ (\E w \in Workloads : Submit(w)) PROVE UNCHANGED evidence
  BY <1>6 DEF Operate, RegisterProvider, DeregisterProvider, CheckHealth, UpdateHealth, Submit
<1>7. ASSUME Route \/ RouteFails \/ ExecuteClassical \/ RunCircuit \/ Label \/ QuantumFails
             \/ StageFails \/ SaveFails \/ Complete
      PROVE  UNCHANGED evidence
  BY <1>7 DEF Route, RouteFails, ExecuteClassical, RunCircuit, Label, QuantumFails, StageFails,
              Executed, SaveFails, Complete
<1> QED
  BY <1>1, <1>2, <1>3, <1>4, <1>5, <1>6, <1>7 DEF Next, Step

(* "Evidence ledger auto-restores": through failed saves, crashes and      *)
(* restarts the chain in the file only grows, at its end.                  *)
THEOREM EvidenceIsKept == Spec => EvidenceOnlyGrows
<1>1. Init => DiskIsPrefix
  BY DEF Init, DiskIsPrefix, Prefix
<1>2. TypeOK /\ DiskIsPrefix /\ [Next]_vars => DiskIsPrefix'
  BY EvidenceStep
<1>3. TypeOK /\ DiskIsPrefix /\ DiskIsPrefix' /\ [Next]_vars =>
        [/\ Len(disk) <= Len(disk')
         /\ disk = SubSeq(disk', 1, Len(disk))]_disk
  <2> SUFFICES ASSUME TypeOK, DiskIsPrefix, DiskIsPrefix', [Next]_vars, disk' # disk
               PROVE  Len(disk) <= Len(disk') /\ disk = SubSeq(disk', 1, Len(disk))
    OBVIOUS
  <2>1. Prefix(disk, disk')
    BY EvidenceStep
  <2> QED
    BY <2>1, PrefixIsSubSeq DEF DiskIsPrefix
<1> QED
  BY <1>1, <1>2, <1>3, TypeCorrect, PTL DEF Spec, EvidenceOnlyGrows

-----------------------------------------------------------------------------
(* That every answer has its evidence needs more: no two entries are of    *)
(* one submission, none is of a submission not recorded yet, and the entry *)
(* of the running one is there from its recording on.                      *)
Shows(s, id, r) == \E k \in DOMAIN s : s[k].id = id /\ s[k].cls = r.cls /\ s[k].path = r.path
UniqueIds(s) == \A i, k \in DOMAIN s : s[i].id = s[k].id => i = k

EntriesInv ==
  /\ UniqueIds(ledger)
  /\ \A k \in DOMAIN ledger : ledger[k].id <= submits
  /\ pc \in {"route", "execute", "label", "record"} => \A k \in DOMAIN ledger : ledger[k].id < submits

RunningInv ==
  /\ pc \in {"save", "answer"} => Shows(ledger, submits, result)
  /\ pc = "answer" /\ saved => Shows(disk, submits, result)
  /\ pc # "answer" => ~saved

AnswersInv ==
  \A i \in DOMAIN answers : answers[i].status = "COMPLETED" =>
    /\ i > since => Shows(ledger, answers[i].id, answers[i].result)
    /\ answers[i].saved => Shows(disk, answers[i].id, answers[i].result)

EvidenceInv == DiskIsPrefix /\ EntriesInv /\ RunningInv /\ AnswersInv

LEMMA ShownOnce ==
  ASSUME NEW s, UniqueIds(s), NEW id, NEW r, Shows(s, id, r)
  PROVE  /\ Cardinality(Entries(s, id)) = 1
         /\ \A k \in Entries(s, id) : s[k].cls = r.cls /\ s[k].path = r.path
<1>1. PICK k \in DOMAIN s : s[k].id = id /\ s[k].cls = r.cls /\ s[k].path = r.path
  BY DEF Shows
<1>2. Entries(s, id) = {k}
  BY <1>1 DEF Entries, UniqueIds
<1> QED
  BY <1>1, <1>2, FS_Singleton

LEMMA EvidenceSuffices == EvidenceInv => AnsweredHasEvidence
<1> SUFFICES ASSUME EvidenceInv, NEW i \in DOMAIN answers, answers[i].status = "COMPLETED"
             PROVE  /\ i > since =>
                         /\ Cardinality(Entries(ledger, answers[i].id)) = 1
                         /\ \A k \in Entries(ledger, answers[i].id) :
                              /\ ledger[k].cls = answers[i].result.cls
                              /\ ledger[k].path = answers[i].result.path
                    /\ answers[i].saved =>
                         /\ Cardinality(Entries(disk, answers[i].id)) = 1
                         /\ \A k \in Entries(disk, answers[i].id) :
                              /\ disk[k].cls = answers[i].result.cls
                              /\ disk[k].path = answers[i].result.path
  BY DEF AnsweredHasEvidence
<1>1. UniqueIds(ledger) /\ UniqueIds(disk)
  BY DEF EvidenceInv, EntriesInv, DiskIsPrefix, Prefix, UniqueIds
<1>2. /\ i > since => Shows(ledger, answers[i].id, answers[i].result)
      /\ answers[i].saved => Shows(disk, answers[i].id, answers[i].result)
  BY DEF EvidenceInv, AnswersInv
<1> QED
  BY <1>1, <1>2, ShownOnce

(* What was shown is shown by a longer chain.                              *)
LEMMA StillShown ==
  ASSUME NEW s, NEW t, Prefix(s, t), NEW id, NEW r, Shows(s, id, r)
  PROVE  Shows(t, id, r)
  BY DEF Prefix, Shows

(* Steps that touch neither the chain nor the answers.                     *)
LEMMA QuietStep ==
  ASSUME TypeOK, EvidenceInv, UNCHANGED <<ledger, disk, answers, since>>, submits' \in Nat,
         \/ UNCHANGED <<pc, submits, result, saved>>
         \/ pc = "idle" /\ pc' = "route" /\ submits' = submits + 1 /\ saved' = saved
         \/ /\ pc \in {"route", "execute", "label"} /\ pc' \in {"execute", "label", "record"}
            /\ UNCHANGED <<submits, saved>>
         \/ pc = "save" /\ pc' = "answer" /\ UNCHANGED <<submits, result, saved>>
  PROVE  EvidenceInv'
<1>1. submits \in Nat /\ \A k \in DOMAIN ledger : ledger[k].id \in Nat
  <2>1. \A k \in DOMAIN ledger : ledger[k] \in Entry
    BY ElementOfSeq, LenProperties DEF EvidenceInv, DiskIsPrefix
  <2> QED
    BY <2>1, HybridAssumption DEF TypeOK, Entry, Submission
<1>2. EntriesInv'
  BY <1>1 DEF EvidenceInv, EntriesInv, UniqueIds
<1>3. RunningInv'
  BY DEF EvidenceInv, RunningInv, Shows
<1> QED
  BY <1>2, <1>3 DEF EvidenceInv, DiskIsPrefix, AnswersInv

LEMMA EvidenceInvStep == TypeOK /\ TypeOK' /\ EvidenceInv /\ [Next]_vars => EvidenceInv'
<1> SUFFICES ASSUME TypeOK, TypeOK', EvidenceInv, [Next]_vars PROVE EvidenceInv'
  OBVIOUS
<1>0. /\ DiskIsPrefix /\ EntriesInv /\ RunningInv /\ AnswersInv
      /\ DiskIsPrefix' /\ submits \in Nat /\ submits' \in Nat
  BY EvidenceStep, HybridAssumption DEF EvidenceInv, TypeOK
<1>1. ASSUME Operate PROVE EvidenceInv'
  <2>1. UNCHANGED <<evidence, run, history>>
    BY <1>1 DEF Operate, RegisterProvider, DeregisterProvider, CheckHealth, UpdateHealth
  <2> QED
    BY <1>0, <2>1, QuietStep DEF evidence, run, history
<1>2. ASSUME NEW w \in Workloads, Submit(w) PROVE EvidenceInv'
  BY <1>0, <1>2, QuietStep DEF Submit, history, evidence
<1>3. CASE Route
  BY <1>0, <1>3, QuietStep DEF Route, history, evidence
<1>4. CASE ExecuteClassical \/ Label \/ QuantumFails
  BY <1>0, <1>4, QuietStep DEF ExecuteClassical, Label, QuantumFails, Executed, history, evidence
<1>13. CASE RunCircuit
  BY <1>0, <1>13, QuietStep DEF RunCircuit, evidence
<1>5. CASE SaveFails
  BY <1>0, <1>5, QuietStep DEF SaveFails, history, evidence
<1>6. ASSUME pc \in {"route", "record", "answer"}, NEW status \in {"COMPLETED", "ERROR"}, NEW r, NEW s,
             status = "COMPLETED" => pc = "answer" /\ r = result /\ s = saved,
             Answer(status, r, s), UNCHANGED <<evidence, submits, since>>
      PROVE  EvidenceInv'
  <2> DEFINE a == [id |-> submits, work |-> work, result |-> r, status |-> status, saved |-> s]
  <2>1. /\ answers' = Append(answers, a) /\ pc' = "idle" /\ saved' = FALSE
        /\ UNCHANGED <<ledger, disk, submits, since>>
    BY <1>6 DEF Answer, evidence
  <2>2. a.id = submits /\ a.result = r /\ a.status = status /\ a.saved = s
    OBVIOUS
  <2> HIDE DEF a
  <2>3. \A i \in DOMAIN answers' : \/ i \in DOMAIN answers /\ answers'[i] = answers[i]
                                  \/ answers'[i] = a
    <3>1. answers \in Seq(Outcome)
      BY DEF TypeOK
    <3> QED
      BY <2>1, <3>1
  <2>4. status = "COMPLETED" =>
          /\ Shows(ledger, submits, r)
          /\ s => Shows(disk, submits, r)
    BY <1>0, <1>6 DEF RunningInv
  <2>5. AnswersInv'
    BY <1>0, <2>1, <2>2, <2>3, <2>4 DEF AnswersInv
  <2>6. EntriesInv' /\ RunningInv'
    BY <1>0, <2>1 DEF EntriesInv, RunningInv
  <2> QED
    BY <1>0, <2>5, <2>6 DEF EvidenceInv
<1>7. CASE RouteFails
  BY <1>6, <1>7 DEF RouteFails
<1>8. CASE Complete
  BY <1>6, <1>8 DEF Complete
<1>14. CASE StageFails
  BY <1>6, <1>14 DEF StageFails
<1>9. CASE Record
  <2> DEFINE e == [id |-> submits, cls |-> result.cls, path |-> result.path]
  <2>1. /\ e.id = submits /\ e.cls = result.cls /\ e.path = result.path
        /\ ledger' = Append(ledger, e) /\ pc = "record" /\ pc' = "save"
        /\ UNCHANGED <<disk, answers, since, submits, result, saved>>
    BY <1>9 DEF Record, history
  <2>2. e \in Entry
    BY <1>9 DEF Record, TypeOK, Entry, Submission, Result
  <2> HIDE DEF e
  <2>3. /\ Len(ledger) \in Nat /\ DOMAIN ledger = 1..Len(ledger)
        /\ DOMAIN ledger' = 1..(Len(ledger) + 1)
        /\ \A k \in DOMAIN ledger : ledger'[k] = ledger[k]
        /\ ledger'[Len(ledger) + 1] = e
    BY <1>0, <2>1, <2>2, AppendProperties, LenProperties DEF DiskIsPrefix
  <2>4. \A k \in DOMAIN ledger : ledger[k].id < submits
    BY <1>0, <2>1 DEF EntriesInv
  <2>5. \A k \in DOMAIN ledger' : k \in DOMAIN ledger \/ k = Len(ledger) + 1
    BY <2>3
  <2>6. \A k \in DOMAIN ledger : ledger'[k].id # submits
    BY <1>0, <2>3, <2>4
  <2>7. EntriesInv'
    BY <1>0, <2>1, <2>3, <2>4, <2>5, <2>6 DEF EntriesInv, UniqueIds
  <2>8. Shows(ledger', submits', result')
    BY <2>1, <2>3 DEF Shows
  <2>9. Prefix(ledger, ledger')
    BY <2>3 DEF Prefix
  <2>10. RunningInv' /\ AnswersInv'
    BY <1>0, <2>1, <2>8, <2>9, StillShown DEF RunningInv, AnswersInv
  <2> QED
    BY <1>0, <2>7, <2>10 DEF EvidenceInv
<1>10. CASE Save
  <2>1. /\ pc = "save" /\ pc' = "answer" /\ disk' = ledger
        /\ UNCHANGED <<ledger, answers, since, submits, result>>
    BY <1>10 DEF Save, history
  <2>2. EntriesInv'
    BY <1>0, <2>1 DEF EntriesInv
  <2>3. RunningInv'
    BY <1>0, <2>1 DEF RunningInv
  <2>4. AnswersInv'
    BY <1>0, <2>1, StillShown DEF AnswersInv, DiskIsPrefix
  <2> QED
    BY <1>0, <2>2, <2>3, <2>4 DEF EvidenceInv
<1>11. CASE Restart
  <2>1. /\ pc' = "idle" /\ ~saved' /\ ledger' = disk /\ since' = Len(answers)
        /\ UNCHANGED <<disk, answers, submits>>
    BY <1>11 DEF Restart
  <2>2. EntriesInv'
    BY <1>0, <2>1 DEF EntriesInv, UniqueIds, DiskIsPrefix, Prefix
  <2>3. RunningInv'
    BY <2>1 DEF RunningInv
  <2>4. \A i \in DOMAIN answers : ~(i > Len(answers))
    <3>1. answers \in Seq(Outcome)
      BY DEF TypeOK
    <3> QED
      BY <3>1
  <2>5. AnswersInv'
    BY <1>0, <2>1, <2>4 DEF AnswersInv
  <2> QED
    BY <1>0, <2>2, <2>3, <2>5 DEF EvidenceInv
<1>12. CASE UNCHANGED vars
  BY <1>0, <1>12, QuietStep DEF vars, evidence, run, history
<1> QED
  BY <1>1, <1>2, <1>3, <1>4, <1>5, <1>7, <1>8, <1>9, <1>10, <1>11, <1>12,
     <1>13, <1>14 DEF Next, Step

(* Every workload answered COMPLETED is in the ledger once and as it was   *)
(* answered, until the process dies, and in the file for ever if its save  *)
(* succeeded.                                                              *)
THEOREM AnswersAreEvident == Spec => []AnsweredHasEvidence
<1>1. Init => EvidenceInv
  BY DEF Init, EvidenceInv, DiskIsPrefix, Prefix, EntriesInv, UniqueIds, RunningInv, AnswersInv
<1> QED
  BY <1>1, EvidenceInvStep, EvidenceSuffices, TypeCorrect, PTL DEF Spec
=============================================================================
