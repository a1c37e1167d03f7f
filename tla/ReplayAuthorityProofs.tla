------------------------ MODULE ReplayAuthorityProofs ------------------------
(***************************************************************************)
(* The authority above the registry, for every number of messages and      *)
(* threads: what it stores without a lock stays consistent, and its        *)
(* answers keep the registry's contract.                                   *)
(***************************************************************************)
EXTENDS ReplayAuthority, FiniteSetTheorems, SequenceTheorems, TLAPS

(* The steps of both users of the authority, with and without a capacity.  *)
AuthorityNext == Restart \/ ReceiverNext

Deciding == {"storing", "linking", "returning"}


(* Whether the registry is private and bounded or shared and durable.      *)
LEMMA GatewayIsAuthority == [GatewayNext]_vars => [AuthorityNext]_vars
BY DEF GatewayNext, ReceiverNext, AuthorityNext

LEMMA ReceiverIsAuthority == [ReceiverNext]_vars => [AuthorityNext]_vars
BY DEF AuthorityNext

(* Storing the record of a message appends it, or overwrites in its place. *)
LEMMA LineageTyped ==
  ASSUME TypeOK, NEW t \in Threads, StoreLineage(t),
         decision[t].seq \in Nat
  PROVE  lineage' \in Seq(Records)
<1> DEFINE record == [msg |-> msg[t], seq |-> decision[t].seq]
           here == {k \in 1..Len(lineage) : lineage[k].msg = msg[t]}
<1>1. record \in Records /\ lineage \in Seq(Records)
  BY DEF TypeOK, Records
<1>2. lineage' = IF here = {} THEN Append(lineage, record)
                ELSE [k \in 1..Len(lineage) |-> IF k \in here THEN record ELSE lineage[k]]
  BY DEF StoreLineage
<1> HIDE DEF record, here
<1>3. CASE here = {}
  BY <1>1, <1>2, <1>3, AppendProperties
<1>4. CASE here # {}
  <2>1. Len(lineage) \in Nat /\ \A k \in 1..Len(lineage) : lineage[k] \in Records
    BY <1>1, LenProperties, ElementOfSeq
  <2>2. \A k \in 1..Len(lineage) : (IF k \in here THEN record ELSE lineage[k]) \in Records
    BY <1>1, <2>1
  <2> QED
    BY <1>2, <1>4, <2>1, <2>2, IsASeq
<1> QED
  BY <1>3, <1>4

(* Every lineage record is about a message.                                *)
LEMMA LineageMessages ==
  ASSUME TypeOK PROVE \A k \in 1..Len(lineage) : lineage[k].msg \in Messages
<1>1. \A k \in 1..Len(lineage) : lineage[k] \in Records
  BY LenProperties, ElementOfSeq DEF TypeOK
<1> QED
  BY <1>1 DEF Records

LEMMA TypingStep ==
  ASSUME TypeOK, [AuthorityNext]_vars PROVE TypeOK'
<1> USE CapacityAssumption DEF TypeOK, Goto, registry, memory, file, store
<1>0. \A t \in Threads : decision[t].seq \in Nat
  BY DEF Undecided
<1>1. ASSUME NEW t \in Threads, NEW m \in Messages, Receive(t, m) PROVE TypeOK'
  BY <1>1 DEF Receive
<1>2. ASSUME NEW t \in Threads, SubmitStale(t) PROVE TypeOK'
  BY <1>2 DEF SubmitStale, Decide, Status
<1>3. ASSUME NEW t \in Threads, SubmitDuplicate(t) PROVE TypeOK'
  BY <1>3 DEF SubmitDuplicate, Decide, Status
<1>4. ASSUME NEW t \in Threads, SubmitValid(t) PROVE TypeOK'
  BY <1>4 DEF SubmitValid, EnterMessage, Persisted, Decide, Status
<1>5. ASSUME NEW t \in Threads, SubmitFails(t) PROVE TypeOK'
  BY <1>5 DEF SubmitFails, EnterMessage
<1>6. ASSUME NEW t \in Threads, StoreVerdict(t) PROVE TypeOK'
  BY <1>6 DEF StoreVerdict, Undecided, Status
<1>7. ASSUME NEW t \in Threads, StoreLineage(t) PROVE TypeOK'
  <2>1. lineage' \in Seq(Records)
    BY <1>0, <1>7, LineageTyped
  <2> QED
    BY <1>7, <2>1 DEF StoreLineage
<1>8. ASSUME NEW t \in Threads, Return(t) PROVE TypeOK'
  <2>1. <<msg[t], decision[t].seq>> \in Messages \X Nat
    BY <1>0
  <2> QED
    BY <1>8, <2>1 DEF Return
<1>9. ASSUME NEW t \in Threads, CheckCapacity(t) PROVE TypeOK'
  BY <1>9 DEF CheckCapacity
<1>10. ASSUME NEW t \in Threads, ResetRegistry(t) PROVE TypeOK'
  BY <1>10 DEF ResetRegistry, ClearMemory, Persisted
<1>11. ASSUME NEW t \in Threads, ResetFails(t) PROVE TypeOK'
  BY <1>11 DEF ResetFails, ClearMemory
<1>12. ASSUME NEW t \in Threads, BeginReport(t) \/ EndReport(t) PROVE TypeOK'
  <2>1. Answered \subseteq Messages
    BY DEF Answered
  <2>2. CASE BeginReport(t)
    BY <2>1, <2>2 DEF BeginReport
  <2>3. CASE EndReport(t)
    BY <2>3 DEF EndReport
  <2> QED
    BY <1>12, <2>2, <2>3
<1>13. CASE Restart
  BY <1>13 DEF Restart
<1>14. CASE UNCHANGED vars
  BY <1>14 DEF vars
<1> QED
  BY <1>1, <1>2, <1>3, <1>4, <1>5, <1>6, <1>7, <1>8, <1>9, <1>10, <1>12, <1>13, <1>14, <1>11
  DEF AuthorityNext, ReceiverNext, Step, MakeRoom

LEMMA InitTyped == Init => TypeOK
<1> SUFFICES ASSUME Init PROVE TypeOK
  OBVIOUS
<1>1. lineage \in Seq(Records)
  BY EmptySeq DEF Init
<1> QED
  BY <1>1, CapacityAssumption DEF Init, TypeOK, Undecided

(* The registry, the two dictionaries and the threads keep their types,    *)
(* for the gateway and for the receiver.                                   *)
THEOREM TypeCorrect == (GatewaySpec => []TypeOK) /\ (ReceiverSpec => []TypeOK)
<1>1. TypeOK /\ [AuthorityNext]_vars => TypeOK'
  BY TypingStep
<1> QED
  BY <1>1, InitTyped, GatewayIsAuthority, ReceiverIsAuthority, PTL DEF GatewaySpec, ReceiverSpec

-----------------------------------------------------------------------------
(* What the two dictionaries, and the reports being made, say of each      *)
(* other at every moment, though no lock is held over them.                *)
StoreInv ==
  /\ \A k \in 1..Len(lineage) : verdicts[lineage[k].msg] # "NONE"
  /\ \A k, l \in 1..Len(lineage) : lineage[k].msg = lineage[l].msg => k = l
  /\ \A t \in Threads : pc[t] \in Deciding => decision[t].status \in Status
  /\ \A t \in Threads : pc[t] = "linking" => verdicts[msg[t]] # "NONE"
  /\ \A t \in Threads : pc[t] = "reporting" =>
       \A m \in seen[t] : verdicts[m] # "NONE"

(* The records after StoreLineage(t): one for each message, the new one    *)
(* for the message of t.                                                   *)
LEMMA LineageStored ==
  ASSUME TypeOK, StoreInv, NEW t \in Threads, StoreLineage(t),
         NEW k \in 1..Len(lineage')
  PROVE  /\ \/ lineage'[k] = [msg |-> msg[t], seq |-> decision[t].seq]
            \/ k \in 1..Len(lineage) /\ lineage'[k] = lineage[k]
         /\ \A l \in 1..Len(lineage') : lineage'[k].msg = lineage'[l].msg => k = l
<1> DEFINE record == [msg |-> msg[t], seq |-> decision[t].seq]
           here == {i \in 1..Len(lineage) : lineage[i].msg = msg[t]}
<1>1. lineage \in Seq(Records) /\ Len(lineage) \in Nat
  BY LenProperties DEF TypeOK
<1>2. lineage' = IF here = {} THEN Append(lineage, record)
                ELSE [i \in 1..Len(lineage) |-> IF i \in here THEN record ELSE lineage[i]]
  BY DEF StoreLineage
<1>3. record.msg = msg[t]
  OBVIOUS
<1>4. \A i, l \in 1..Len(lineage) : lineage[i].msg = lineage[l].msg => i = l
  BY DEF StoreInv
<1>5. \A i \in 1..Len(lineage) : i \in here <=> lineage[i].msg = msg[t]
  OBVIOUS
<1> HIDE DEF record, here
<1>6. CASE here = {}
  <2>1. /\ Len(lineage') = Len(lineage) + 1
        /\ \A i \in 1..Len(lineage) : lineage'[i] = lineage[i]
        /\ lineage'[Len(lineage) + 1] = record
    <3>1. record \in Records
      BY DEF record, Records, TypeOK, Undecided
    <3> QED
      BY <1>1, <1>2, <1>6, <3>1, AppendProperties
  <2>2. \A i \in 1..Len(lineage) : lineage[i].msg # msg[t]
    BY <1>5, <1>6
  <2>3. \A i \in 1..Len(lineage') : i \in 1..Len(lineage) \/ i = Len(lineage) + 1
    BY <1>1, <2>1
  <2>4. \A l \in 1..Len(lineage') : lineage'[k].msg = lineage'[l].msg => k = l
    BY <1>3, <1>4, <2>1, <2>2, <2>3
  <2>5. lineage'[k] = record \/ (k \in 1..Len(lineage) /\ lineage'[k] = lineage[k])
    BY <2>1, <2>3
  <2> QED
    BY <2>4, <2>5 DEF record
<1>7. CASE here # {}
  <2>1. lineage' = [i \in 1..Len(lineage) |-> IF i \in here THEN record ELSE lineage[i]]
    BY <1>2, <1>7
  <2>2. lineage' \in Seq({lineage'[i] : i \in 1..Len(lineage)}) /\ Len(lineage') = Len(lineage)
    <3> DEFINE f(i) == IF i \in here THEN record ELSE lineage[i]
               S == {f(i) : i \in 1..Len(lineage)}
    <3>1. \A i \in 1..Len(lineage) : f(i) \in S
      OBVIOUS
    <3>2. lineage' = [i \in 1..Len(lineage) |-> f(i)]
      BY <2>1
    <3>3. \A i \in 1..Len(lineage) : lineage'[i] = f(i)
      BY <3>2
    <3> HIDE DEF f
    <3>4. lineage' \in Seq(S) /\ Len(lineage') = Len(lineage)
      BY <1>1, <3>1, <3>2, IsASeq
    <3> QED
      BY <3>3, <3>4
  <2>3. \A i \in 1..Len(lineage) : lineage'[i].msg = lineage[i].msg
    BY <1>3, <1>5, <2>1
  <2>4. \A l \in 1..Len(lineage') : lineage'[k].msg = lineage'[l].msg => k = l
    BY <1>4, <2>2, <2>3
  <2>5. lineage'[k] = record \/ (k \in 1..Len(lineage) /\ lineage'[k] = lineage[k])
    BY <2>1, <2>2
  <2> QED
    BY <2>4, <2>5 DEF record
<1> QED
  BY <1>6, <1>7

LEMMA StoreStep ==
  ASSUME TypeOK, StoreInv, [AuthorityNext]_vars PROVE StoreInv'
<1> USE DEF TypeOK, StoreInv, Deciding, Goto, registry, memory, file, store
<1>1. ASSUME NEW t \in Threads, NEW m \in Messages, Receive(t, m) PROVE StoreInv'
  BY <1>1 DEF Receive
<1>2. ASSUME NEW t \in Threads, SubmitStale(t) PROVE StoreInv'
  BY <1>2 DEF SubmitStale, Decide, Status
<1>3. ASSUME NEW t \in Threads, SubmitDuplicate(t) PROVE StoreInv'
  BY <1>3 DEF SubmitDuplicate, Decide, Status
<1>4. ASSUME NEW t \in Threads, SubmitValid(t) PROVE StoreInv'
  BY <1>4 DEF SubmitValid, Decide, Status
<1>5. ASSUME NEW t \in Threads, SubmitFails(t) PROVE StoreInv'
  BY <1>5 DEF SubmitFails
<1>6. ASSUME NEW t \in Threads, StoreVerdict(t) PROVE StoreInv'
  <2>1. \A m \in Messages : verdicts[m] # "NONE" => verdicts'[m] # "NONE"
    BY <1>6 DEF StoreVerdict, Status
  <2>2. verdicts'[msg'[t]] # "NONE"
    BY <1>6 DEF StoreVerdict, Status
  <2>3. \A k \in 1..Len(lineage) : lineage[k].msg \in Messages
    BY LineageMessages
  <2>4. UNCHANGED <<lineage, msg, decision, seen>>
    BY <1>6 DEF StoreVerdict
  <2>5. \A k \in 1..Len(lineage') : verdicts'[lineage'[k].msg] # "NONE"
    BY <2>1, <2>3, <2>4
  <2>6. \A u \in Threads : pc'[u] = "linking" => verdicts'[msg'[u]] # "NONE"
    <3> TAKE u \in Threads
    <3>1. CASE u = t
      BY <2>2, <2>4, <3>1
    <3>2. CASE u # t
      <4>1. pc'[u] = pc[u]
        BY <1>6, <3>2 DEF StoreVerdict
      <4> QED
        BY <2>1, <2>4, <4>1
    <3> QED
      BY <3>1, <3>2
  <2>7. \A u \in Threads : pc'[u] \in Deciding => decision'[u].status \in Status
    BY <1>6 DEF StoreVerdict
  <2>8. \A u \in Threads : pc'[u] = "reporting" => \A m \in seen'[u] : verdicts'[m] # "NONE"
    <3>1. \A u \in Threads : pc'[u] = "reporting" => pc[u] = "reporting"
      BY <1>6 DEF StoreVerdict
    <3>2. \A u \in Threads : seen[u] \subseteq Messages
      OBVIOUS
    <3> QED
      BY <2>1, <2>4, <3>1, <3>2
  <2> QED
    BY <2>4, <2>5, <2>6, <2>7, <2>8
<1>7. ASSUME NEW t \in Threads, StoreLineage(t) PROVE StoreInv'
  <2>1. \A k \in 1..Len(lineage') :
          /\ \/ lineage'[k] = [msg |-> msg[t], seq |-> decision[t].seq]
             \/ k \in 1..Len(lineage) /\ lineage'[k] = lineage[k]
          /\ \A l \in 1..Len(lineage') : lineage'[k].msg = lineage'[l].msg => k = l
    BY <1>7, LineageStored
  <2>2. /\ UNCHANGED <<verdicts, msg, decision, seen>>
        /\ pc[t] = "linking" /\ pc' = [pc EXCEPT ![t] = "returning"]
    BY <1>7 DEF StoreLineage
  <2>3. \A k \in 1..Len(lineage') : verdicts'[lineage'[k].msg] # "NONE"
    <3> TAKE k \in 1..Len(lineage')
    <3>1. lineage'[k].msg = msg[t]
          \/ (k \in 1..Len(lineage) /\ lineage'[k].msg = lineage[k].msg)
      BY <2>1
    <3> QED
      BY <2>2, <3>1
  <2>4. \A u \in Threads : pc'[u] \in Deciding => decision'[u].status \in Status
    BY <2>2
  <2>5. \A u \in Threads : pc'[u] = "linking" => verdicts'[msg'[u]] # "NONE"
    BY <2>2
  <2>6. \A u \in Threads : pc'[u] = "reporting" => \A m \in seen'[u] : verdicts'[m] # "NONE"
    BY <2>2
  <2> QED
    BY <2>1, <2>3, <2>4, <2>5, <2>6
<1>8. ASSUME NEW t \in Threads, Return(t) PROVE StoreInv'
  BY <1>8 DEF Return
<1>9. ASSUME NEW t \in Threads, CheckCapacity(t) PROVE StoreInv'
  BY <1>9 DEF CheckCapacity
<1>10. ASSUME NEW t \in Threads, ResetRegistry(t) PROVE StoreInv'
  BY <1>10 DEF ResetRegistry, ClearMemory
<1>11. ASSUME NEW t \in Threads, ResetFails(t) PROVE StoreInv'
  BY <1>11 DEF ResetFails, ClearMemory
<1>12. ASSUME NEW t \in Threads, BeginReport(t) \/ EndReport(t) PROVE StoreInv'
  <2>1. /\ UNCHANGED <<verdicts, lineage, msg, decision>>
        /\ pc' \in {[pc EXCEPT ![t] = "idle"], [pc EXCEPT ![t] = "reporting"]}
    BY <1>12 DEF BeginReport, EndReport
  <2>2. \A u \in Threads : pc'[u] = "reporting" => \A m \in seen'[u] : verdicts'[m] # "NONE"
    <3>1. CASE BeginReport(t)
      <4>1. pc' = [pc EXCEPT ![t] = "reporting"] /\ seen' = [seen EXCEPT ![t] = Answered]
        BY <3>1 DEF BeginReport
      <4> QED
        BY <2>1, <4>1 DEF Answered
    <3>2. CASE EndReport(t)
      <4>1. pc' = [pc EXCEPT ![t] = "idle"] /\ seen' = [seen EXCEPT ![t] = {}]
        BY <3>2 DEF EndReport
      <4> QED
        BY <2>1, <4>1
    <3> QED
      BY <1>12, <3>1, <3>2
  <2> QED
    BY <2>1, <2>2
<1>13. CASE Restart
  <2>1. Len(lineage') = 0
    BY <1>13, EmptySeq DEF Restart
  <2> QED
    BY <1>13, <2>1 DEF Restart
<1>14. CASE UNCHANGED vars
  BY <1>14 DEF vars
<1> QED
  BY <1>1, <1>2, <1>3, <1>4, <1>5, <1>6, <1>7, <1>8, <1>9, <1>10, <1>12, <1>13, <1>14, <1>11
  DEF AuthorityNext, ReceiverNext, Step, MakeRoom

(* A sequence whose elements carry different messages lists as many        *)
(* messages as it has positions.                                           *)
LEMMA ListedCounted ==
  ASSUME TypeOK, StoreInv
  PROVE  IsFiniteSet(Listed) /\ Cardinality(Listed) = Len(lineage)
<1> DEFINE f == [k \in 1..Len(lineage) |-> lineage[k].msg]
<1>1. Len(lineage) \in Nat
  BY LenProperties DEF TypeOK
<1>2. f \in Bijection(1..Len(lineage), Listed)
  <2>1. f \in [1..Len(lineage) -> Listed]
    BY DEF Listed
  <2>2. \A k, l \in 1..Len(lineage) : f[k] = f[l] => k = l
    BY DEF StoreInv
  <2>3. \A r \in Listed : \E k \in 1..Len(lineage) : f[k] = r
    BY DEF Listed
  <2> QED
    BY <2>1, <2>2, <2>3 DEF Bijection, Injection, Surjection, IsInjective
<1>3. IsFiniteSet(1..Len(lineage)) /\ Cardinality(1..Len(lineage)) = Len(lineage)
  <2>1. ASSUME NEW n \in Nat PROVE IsFiniteSet(1..n) /\ Cardinality(1..n) = n
    <3>1. IsFiniteSet(1..n) /\ Cardinality(1..n) = IF 1 > n THEN 0 ELSE n - 1 + 1
      BY FS_Interval
    <3> QED
      BY <3>1
  <2> QED
    BY <1>1, <2>1
<1>4. ExistsBijection(1..Len(lineage), Listed)
  BY <1>2 DEF ExistsBijection
<1> QED
  BY <1>3, <1>4, FS_Bijection

(* What is left of a finite set without one of its subsets.                *)
LEMMA RestCounted ==
  ASSUME NEW S, IsFiniteSet(S), NEW T \in SUBSET S
  PROVE  /\ Cardinality(S) \in Nat /\ Cardinality(T) \in Nat
         /\ Cardinality(S \ T) = Cardinality(S) - Cardinality(T)
<1>1. IsFiniteSet(T)
  BY FS_Subset
<1>2. Cardinality(S \ T) = Cardinality(S) - Cardinality(S \cap T)
  BY FS_Difference
<1>3. S \cap T = T
  OBVIOUS
<1>4. Cardinality(S) \in Nat /\ Cardinality(T) \in Nat
  BY <1>1, FS_CardinalityType
<1> QED
  BY <1>2, <1>3, <1>4

LEMMA StoreCounts == TypeOK /\ StoreInv => RejectedCountShort
<1> SUFFICES ASSUME TypeOK, StoreInv, NEW t \in Threads, pc[t] = "reporting"
             PROVE  RejectedCount(t) = Cardinality(Answered \ Listed)
                                         - Cardinality(Answered \ seen[t])
  BY DEF RejectedCountShort
<1>1. IsFiniteSet(Answered)
  BY MessagesAssumption, FS_Subset DEF Answered
<1>2. Listed \in SUBSET Answered
  BY LineageMessages DEF Listed, Answered, StoreInv
<1>3. seen[t] \in SUBSET Answered
  BY DEF TypeOK, Answered, StoreInv
<1>4. /\ Cardinality(Answered) \in Nat
      /\ Cardinality(Answered \ Listed) = Cardinality(Answered) - Cardinality(Listed)
  BY <1>1, <1>2, RestCounted
<1>5. /\ Cardinality(seen[t]) \in Nat
      /\ Cardinality(Answered \ seen[t]) = Cardinality(Answered) - Cardinality(seen[t])
  BY <1>1, <1>3, RestCounted
<1>6. Cardinality(Listed) = Len(lineage) /\ Len(lineage) \in Nat
  BY ListedCounted, LenProperties DEF TypeOK
<1> QED
  BY <1>4, <1>5, <1>6 DEF RejectedCount

LEMMA StoreInit == Init => StoreInv
<1> SUFFICES ASSUME Init PROVE StoreInv
  OBVIOUS
<1>1. Len(lineage) = 0
  BY EmptySeq DEF Init
<1> QED
  BY <1>1 DEF Init, StoreInv, Deciding

(* verification_report() counts the messages refused and never accepted,   *)
(* less those stored between its two reads: for the gateway with its       *)
(* restarts, and for the receiver whose registry is emptied under the two  *)
(* dictionaries.                                                           *)
THEOREM RejectedCountCorrect ==
  (GatewaySpec => []RejectedCountShort) /\ (ReceiverSpec => []RejectedCountShort)
<1>1. TypeOK /\ StoreInv /\ [AuthorityNext]_vars => StoreInv'
  BY StoreStep
<1> QED
  BY <1>1, StoreInit, StoreCounts, TypeCorrect, GatewayIsAuthority, ReceiverIsAuthority, PTL
  DEF GatewaySpec, ReceiverSpec

-----------------------------------------------------------------------------
(* What the threads between the registry's decision and their answer know  *)
(* of the registry.  A restart takes them away, so it is kept.             *)
Granting(t) == pc[t] \in Deciding /\ decision[t].status = "VALID"

(* Memory and file are numbered without gaps, and memory, which may hold    *)
(* messages a failed write did not save, agrees with the file on the rest.  *)
NumberingInv ==
  /\ Contract!Contiguous(entries, counter)
  /\ Contract!Contiguous(saved, savedCounter)
  /\ \A m \in Messages : saved[m] # 0 => entries[m] = saved[m]

(* A pending VALID carries the number in the file, it is the only one for  *)
(* its message, and no caller has been told before.                        *)
PendingIsEntered ==
  \A t \in Threads : Granting(t) =>
    decision[t].seq = saved[msg[t]] /\ saved[msg[t]] # 0

PendingIsSingle ==
  \A t, u \in Threads : Granting(t) /\ Granting(u) /\ msg[t] = msg[u] => t = u

PendingIsNew ==
  \A t \in Threads : Granting(t) => \A g \in told : g[1] # msg[t]

ToldIsEntered == \A g \in told : saved[g[1]] = g[2] /\ g[2] # 0

LineageIsEntered ==
  /\ \A t \in Threads : pc[t] = "linking" => Granting(t)
  /\ \A k \in 1..Len(lineage) :
       lineage[k].seq = saved[lineage[k].msg] /\ lineage[k].seq # 0

GrantInv ==
  /\ NumberingInv
  /\ PendingIsEntered
  /\ PendingIsSingle
  /\ PendingIsNew
  /\ ToldIsEntered
  /\ LineageIsEntered

(* The next number for a new message leaves no gap and moves no other, and *)
(* so does the file when the memory is written.                            *)
LEMMA EntryMade ==
  ASSUME TypeOK, NumberingInv, NEW t \in Threads, EnterMessage(t),
         Persisted \/ UNCHANGED file
  PROVE  /\ NumberingInv'
         /\ saved[msg[t]] = 0
         /\ counter + 1 # 0
         /\ Persisted => saved'[msg[t]] = counter + 1
         /\ \A m \in Messages : saved[m] # 0 => saved'[m] = saved[m]
<1> USE CapacityAssumption DEF TypeOK
<1>1. /\ entries[msg[t]] = 0
      /\ counter' = counter + 1
      /\ entries' = [entries EXCEPT ![msg[t]] = counter + 1]
      /\ counter \in Nat
  BY DEF EnterMessage, Known
<1>2. \A m \in Messages : entries[m] <= counter
  BY DEF NumberingInv, Contract!Contiguous
<1>3. \A m \in Messages : entries'[m] <= counter'
  BY <1>1, <1>2
<1>4. \A m, n \in Contract!Known(entries') : entries'[m] = entries'[n] => m = n
  BY <1>1, <1>2 DEF NumberingInv, Contract!Contiguous, Contract!Known
<1>5. ASSUME NEW n \in 1..counter' PROVE \E m \in Messages : entries'[m] = n
  <2>1. CASE n = counter + 1
    BY <1>1, <2>1
  <2>2. CASE n # counter + 1
    <3>1. n \in 1..counter
      BY <1>1, <2>2
    <3>2. PICK m \in Messages : entries[m] = n
      BY <3>1 DEF NumberingInv, Contract!Contiguous
    <3> QED
      BY <1>1, <3>1, <3>2
  <2> QED
    BY <2>1, <2>2
<1>6. Contract!Contiguous(entries', counter')
  BY <1>3, <1>4, <1>5 DEF Contract!Contiguous
<1>7. saved[msg[t]] = 0 /\ \A m \in Messages : saved[m] # 0 => entries'[m] = saved[m]
  BY <1>1 DEF NumberingInv
<1>8. CASE Persisted
  <2>1. saved' = entries' /\ savedCounter' = counter'
    BY <1>8 DEF Persisted
  <2>2. NumberingInv'
    BY <1>6, <2>1 DEF NumberingInv, Contract!Contiguous, Contract!Known
  <2> QED
    BY <1>1, <1>7, <2>1, <2>2
<1>9. CASE UNCHANGED file /\ ~Persisted
  <2>1. saved' = saved /\ savedCounter' = savedCounter
    BY <1>9 DEF file
  <2>2. NumberingInv'
    BY <1>6, <1>7, <2>1 DEF NumberingInv, Contract!Contiguous, Contract!Known
  <2> QED
    BY <1>1, <1>7, <1>9, <2>1, <2>2
<1> QED
  BY <1>8, <1>9

(* A decision that is not VALID, and what else leaves the registry, the    *)
(* answers and the pending VALIDs alone, keeps the invariant.              *)
LEMMA QuietStep ==
  ASSUME TypeOK, GrantInv, UNCHANGED <<registry, lineage, told>>,
         \A t \in Threads : Granting(t)' =>
           Granting(t) /\ UNCHANGED <<msg[t], decision[t]>>,
         \A t \in Threads : pc'[t] = "linking" => Granting(t)'
  PROVE  GrantInv'
<1> USE DEF GrantInv, registry, memory, file
<1>1. NumberingInv'
  BY DEF NumberingInv, Contract!Contiguous, Contract!Known
<1>2. PendingIsEntered'
  BY DEF PendingIsEntered
<1>3. PendingIsSingle'
  BY DEF PendingIsSingle
<1>4. PendingIsNew'
  BY DEF PendingIsNew
<1>5. ToldIsEntered'
  BY DEF ToldIsEntered
<1>6. LineageIsEntered'
  BY DEF LineageIsEntered
<1> QED
  BY <1>1, <1>2, <1>3, <1>4, <1>5, <1>6

(* A new message is entered: written and with an answer to come, or        *)
(* neither.                                                                *)
LEMMA EnterStep ==
  ASSUME TypeOK, GrantInv, NEW t \in Threads, EnterMessage(t),
         UNCHANGED <<lineage, msg, told>>,
         \A u \in Threads \ {t} : UNCHANGED <<pc[u], decision[u]>>,
         \/ Persisted /\ decision'[t].seq = counter + 1
         \/ (UNCHANGED file) /\ ~Granting(t)',
         pc'[t] # "linking"
  PROVE  GrantInv'
<1> USE DEF GrantInv
<1>1. /\ NumberingInv'
      /\ saved[msg[t]] = 0
      /\ counter + 1 # 0
      /\ Persisted => saved'[msg[t]] = counter + 1
      /\ \A m \in Messages : saved[m] # 0 => saved'[m] = saved[m]
  BY EntryMade
<1>2. \A u \in Threads \ {t} : Granting(u)' => Granting(u) /\ msg[u] # msg[t]
  BY <1>1 DEF Granting, PendingIsEntered
<1>3. \A u \in Threads : msg[u] \in Messages
  BY DEF TypeOK
<1>4. PendingIsEntered'
  <2>1. Granting(t)' => decision'[t].seq = saved'[msg[t]] /\ saved'[msg[t]] # 0
    BY <1>1
  <2>2. ASSUME NEW u \in Threads \ {t}, Granting(u)'
        PROVE  decision'[u].seq = saved'[msg[u]] /\ saved'[msg[u]] # 0
    BY <1>1, <1>2, <1>3, <2>2 DEF PendingIsEntered
  <2> QED
    BY <2>1, <2>2 DEF PendingIsEntered
<1>5. PendingIsSingle'
  BY <1>2 DEF PendingIsSingle
<1>6. \A g \in told : g[1] \in Messages /\ g[1] # msg[t]
  BY <1>1 DEF TypeOK, ToldIsEntered
<1>7. PendingIsNew'
  BY <1>2, <1>6 DEF PendingIsNew
<1>8. ToldIsEntered'
  BY <1>1, <1>6 DEF ToldIsEntered
<1>9. \A k \in 1..Len(lineage) : lineage[k].msg \in Messages
  BY LineageMessages
<1>10. LineageIsEntered'
  <2>1. ASSUME NEW u \in Threads, pc'[u] = "linking" PROVE Granting(u)'
    BY <2>1 DEF Granting, LineageIsEntered
  <2>2. \A k \in 1..Len(lineage) :
          lineage[k].seq = saved'[lineage[k].msg] /\ lineage[k].seq # 0
    BY <1>1, <1>9 DEF LineageIsEntered
  <2> QED
    BY <2>1, <2>2 DEF LineageIsEntered
<1> QED
  BY <1>1, <1>4, <1>5, <1>7, <1>8, <1>10

(* The gateway's steps; a restart takes the pending answers away.          *)
LEMMA GrantStep ==
  ASSUME TypeOK, StoreInv, GrantInv, [GatewayNext]_vars PROVE GrantInv'
<1> USE DEF TypeOK, Deciding, Goto, registry, memory, file, store
<1>1. ASSUME NEW t \in Threads, NEW m \in Messages, Receive(t, m) PROVE GrantInv'
  <2>1. \A u \in Threads : Granting(u)' => Granting(u) /\ UNCHANGED <<msg[u], decision[u]>>
    BY <1>1 DEF Receive, Granting
  <2>2. \A u \in Threads : pc'[u] = "linking" => Granting(u)'
    BY <1>1 DEF Receive, Granting, GrantInv, LineageIsEntered
  <2> QED
    BY <1>1, <2>1, <2>2, QuietStep DEF Receive
<1>2. ASSUME NEW t \in Threads, NEW status \in Status \ {"VALID"}, NEW seq,
             pc[t] = "submitting", Decide(t, status, seq),
             UNCHANGED <<registry, store, msg, seen, told>>
      PROVE  GrantInv'
  <2>1. \A u \in Threads : Granting(u)' => Granting(u) /\ UNCHANGED <<msg[u], decision[u]>>
    BY <1>2 DEF Decide, Granting
  <2>2. \A u \in Threads : pc'[u] = "linking" => Granting(u)'
    BY <1>2 DEF Decide, Granting, GrantInv, LineageIsEntered
  <2> QED
    BY <1>2, <2>1, <2>2, QuietStep
<1>3. ASSUME NEW t \in Threads, SubmitStale(t) PROVE GrantInv'
  BY <1>2, <1>3 DEF SubmitStale, Status
<1>4. ASSUME NEW t \in Threads, SubmitDuplicate(t) PROVE GrantInv'
  BY <1>2, <1>4 DEF SubmitDuplicate, Status
<1>5. ASSUME NEW t \in Threads, SubmitValid(t) PROVE GrantInv'
  <2>1. \A u \in Threads \ {t} : UNCHANGED <<pc[u], decision[u]>>
    BY <1>5 DEF SubmitValid, Decide
  <2>2. decision'[t].seq = counter + 1 /\ pc'[t] # "linking"
    BY <1>5 DEF SubmitValid, Decide
  <2> QED
    BY <1>5, <2>1, <2>2, EnterStep DEF SubmitValid
<1>6. ASSUME NEW t \in Threads, SubmitFails(t) PROVE GrantInv'
  <2>1. \A u \in Threads \ {t} : UNCHANGED <<pc[u], decision[u]>>
    BY <1>6 DEF SubmitFails
  <2>2. ~Granting(t)' /\ pc'[t] # "linking"
    BY <1>6 DEF SubmitFails, Granting
  <2> QED
    BY <1>6, <2>1, <2>2, EnterStep DEF SubmitFails
<1>7. ASSUME NEW t \in Threads, StoreVerdict(t) PROVE GrantInv'
  <2>1. \A u \in Threads : Granting(u)' => Granting(u) /\ UNCHANGED <<msg[u], decision[u]>>
    BY <1>7 DEF StoreVerdict, Granting
  <2>2. \A u \in Threads : pc'[u] = "linking" => Granting(u)'
    BY <1>7 DEF StoreVerdict, Granting, GrantInv, LineageIsEntered
  <2> QED
    BY <1>7, <2>1, <2>2, QuietStep DEF StoreVerdict
<1>8. ASSUME NEW t \in Threads, StoreLineage(t) PROVE GrantInv'
  <2>1. /\ pc[t] = "linking" /\ pc' = [pc EXCEPT ![t] = "returning"]
        /\ UNCHANGED <<registry, verdicts, msg, decision, told>>
    BY <1>8 DEF StoreLineage
  <2>2. Granting(t) /\ decision[t].seq = saved[msg[t]] /\ decision[t].seq # 0
    BY <2>1 DEF GrantInv, LineageIsEntered, PendingIsEntered
  <2>3. \A u \in Threads : Granting(u)' <=> Granting(u)
    BY <2>1, <2>2 DEF Granting
  <2>4. NumberingInv' /\ PendingIsEntered' /\ PendingIsSingle' /\ PendingIsNew' /\ ToldIsEntered'
    BY <2>1, <2>3 DEF GrantInv, NumberingInv, PendingIsEntered, PendingIsSingle, PendingIsNew,
       ToldIsEntered, Contract!Contiguous, Contract!Known
  <2>5. ASSUME NEW k \in 1..Len(lineage')
        PROVE  lineage'[k].seq = saved'[lineage'[k].msg] /\ lineage'[k].seq # 0
    <3>1. \/ lineage'[k] = [msg |-> msg[t], seq |-> decision[t].seq]
          \/ k \in 1..Len(lineage) /\ lineage'[k] = lineage[k]
      BY <1>8, LineageStored
    <3>2. UNCHANGED <<saved, msg>>
      BY <2>1
    <3>3. CASE lineage'[k] = [msg |-> msg[t], seq |-> decision[t].seq]
      <4>1. lineage'[k].msg = msg[t] /\ lineage'[k].seq = decision[t].seq
        BY <3>3
      <4> QED
        BY <2>2, <3>2, <4>1
    <3>4. CASE k \in 1..Len(lineage) /\ lineage'[k] = lineage[k]
      BY <3>2, <3>4 DEF GrantInv, LineageIsEntered
    <3> QED
      BY <3>1, <3>3, <3>4
  <2>6. \A u \in Threads : pc'[u] = "linking" => Granting(u)'
    BY <2>1, <2>3 DEF GrantInv, LineageIsEntered
  <2> QED
    BY <2>4, <2>5, <2>6 DEF GrantInv, LineageIsEntered
<1>9. ASSUME NEW t \in Threads, Return(t) PROVE GrantInv'
  <2>1. /\ pc[t] = "returning" /\ pc' = [pc EXCEPT ![t] = "idle"]
        /\ decision' = [decision EXCEPT ![t] = Undecided]
        /\ UNCHANGED <<registry, verdicts, lineage, msg>>
        /\ told' = told \union
             (IF Granting(t) THEN {<<msg[t], decision[t].seq>>} ELSE {})
    BY <1>9 DEF Return, Granting
  <2>2. \A u \in Threads : Granting(u)' => Granting(u) /\ u # t /\ decision'[u] = decision[u]
    BY <2>1 DEF Granting
  <2>3. NumberingInv' /\ PendingIsEntered' /\ PendingIsSingle'
    BY <2>1, <2>2 DEF GrantInv, NumberingInv, PendingIsEntered, PendingIsSingle,
       Contract!Contiguous, Contract!Known
  <2>4. \A g \in told' : g \in told \/ (Granting(t) /\ g[1] = msg[t] /\ g[2] = decision[t].seq)
    BY <2>1
  <2>5. PendingIsNew'
    BY <2>1, <2>2, <2>4 DEF GrantInv, PendingIsNew, PendingIsSingle
  <2>6. ToldIsEntered'
    BY <2>1, <2>4 DEF GrantInv, ToldIsEntered, PendingIsEntered
  <2>7. LineageIsEntered'
    BY <2>1 DEF GrantInv, LineageIsEntered, Granting
  <2> QED
    BY <2>3, <2>5, <2>6, <2>7 DEF GrantInv
<1>10. ASSUME NEW t \in Threads, BeginReport(t) \/ EndReport(t) PROVE GrantInv'
  <2>1. \A u \in Threads : Granting(u)' => Granting(u) /\ UNCHANGED <<msg[u], decision[u]>>
    BY <1>10 DEF BeginReport, EndReport, Granting
  <2>2. \A u \in Threads : pc'[u] = "linking" => Granting(u)'
    BY <1>10 DEF BeginReport, EndReport, Granting, GrantInv, LineageIsEntered
  <2> QED
    BY <1>10, <2>1, <2>2, QuietStep DEF BeginReport, EndReport
<1>11. CASE Restart
  <2>1. \A u \in Threads : ~Granting(u)' /\ pc'[u] # "linking"
    BY <1>11 DEF Restart, Granting
  <2>2. Len(lineage') = 0
    BY <1>11, EmptySeq DEF Restart
  <2>3. counter' = savedCounter /\ entries' = saved /\ UNCHANGED <<savedCounter, saved, told>>
    BY <1>11 DEF Restart
  <2>4. NumberingInv' /\ ToldIsEntered'
    BY <2>3 DEF GrantInv, NumberingInv, ToldIsEntered, Contract!Contiguous, Contract!Known
  <2> QED
    BY <2>1, <2>2, <2>4 DEF GrantInv, PendingIsEntered, PendingIsSingle, PendingIsNew, LineageIsEntered
<1>12. CASE UNCHANGED vars
  <2>1. \A u \in Threads : Granting(u)' <=> Granting(u)
    BY <1>12 DEF vars, Granting
  <2> QED
    BY <1>12, <2>1, QuietStep DEF vars, GrantInv, LineageIsEntered
<1> QED
  BY <1>1, <1>3, <1>4, <1>5, <1>6, <1>7, <1>8, <1>9, <1>10, <1>11, <1>12 DEF GatewayNext, Step

LEMMA GrantInit == Init => GrantInv
<1> SUFFICES ASSUME Init PROVE GrantInv
  OBVIOUS
<1>1. \A t \in Threads : pc[t] = "idle"
  BY DEF Init
<1>2. NumberingInv
  BY DEF Init, NumberingInv, Contract!Contiguous, Contract!Known
<1>3. Len(lineage) = 0
  BY EmptySeq DEF Init
<1> QED
  BY <1>1, <1>2, <1>3 DEF Init, GrantInv, Granting, Deciding, PendingIsEntered,
     PendingIsSingle, PendingIsNew, ToldIsEntered, LineageIsEntered

LEMMA GrantInvariant == GatewaySpec => [](TypeOK /\ StoreInv /\ GrantInv)
<1>1. TypeOK /\ StoreInv /\ [AuthorityNext]_vars => StoreInv'
  BY StoreStep
<1>2. TypeOK /\ StoreInv /\ GrantInv /\ [GatewayNext]_vars => GrantInv'
  BY GrantStep
<1> QED
  BY <1>1, <1>2, StoreInit, GrantInit, TypeCorrect, GatewayIsAuthority, PTL DEF GatewaySpec

LEMMA LineageNumbered == TypeOK /\ GrantInv => LineageMatchesRegistry
<1> SUFFICES ASSUME TypeOK, GrantInv, NEW k \in 1..Len(lineage)
             PROVE  /\ lineage[k].seq = entries[lineage[k].msg]
                    /\ lineage[k].seq = saved[lineage[k].msg]
                    /\ lineage[k].seq > 1 => \E m \in Messages : saved[m] = lineage[k].seq - 1
  BY DEF LineageMatchesRegistry, LineageSet
<1> DEFINE n == lineage[k].seq
<1>1. lineage[k].msg \in Messages
  BY LineageMessages
<1>2. n = saved[lineage[k].msg] /\ n # 0
  BY DEF GrantInv, LineageIsEntered
<1>3. n = entries[lineage[k].msg]
  BY <1>1, <1>2 DEF GrantInv, NumberingInv
<1>4. /\ n \in Nat /\ savedCounter \in Nat /\ n <= savedCounter
      /\ \A i \in 1..savedCounter : \E m \in Messages : saved[m] = i
  BY <1>1, <1>2, CapacityAssumption DEF TypeOK, GrantInv, NumberingInv, Contract!Contiguous
<1> HIDE DEF n
<1>5. ASSUME n > 1 PROVE \E m \in Messages : saved[m] = n - 1
  <2>1. n - 1 \in 1..savedCounter
    BY <1>4, <1>5
  <2> QED
    BY <1>4, <2>1
<1> QED
  BY <1>2, <1>3, <1>5 DEF n

(* Restarts, failed writes and threads that store late never make a record *)
(* disagree with the registry, in memory or on disk, and every parent is a *)
(* message of its file.                                                    *)
THEOREM LineageCorrect == GatewaySpec => []LineageMatchesRegistry
BY GrantInvariant, LineageNumbered, PTL

-----------------------------------------------------------------------------
(* Each of the gateway's steps does what the contract lets one do, or      *)
(* leaves what the contract speaks of alone: a failed write and a restart  *)
(* change the memory and not the file.                                     *)
LEMMA ContractStep ==
  ASSUME TypeOK, GrantInv, TypeOK', GrantInv', [GatewayNext]_vars
  PROVE  [Contract!ContractNext]_(Contract!contractVars)
<1> USE DEF Goto, registry, memory, file, store
<1>1. ASSUME NEW t \in Threads, EnterMessage(t), Persisted, UNCHANGED told
      PROVE  Contract!Record
  <2>1. \A m \in Messages : saved[m] # 0 => saved'[m] = saved[m]
    BY <1>1, EntryMade DEF GrantInv
  <2>2. savedCounter' \in Nat /\ saved' \in [Messages -> Nat]
    BY CapacityAssumption DEF TypeOK
  <2> QED
    BY <1>1, <2>1, <2>2 DEF GrantInv, NumberingInv, Contract!Record, Contract!Extends, Contract!Known
<1>2. ASSUME NEW t \in Threads, Return(t), Granting(t) PROVE Contract!Grant(msg[t])
  <2>1. /\ told' = told \union {<<msg[t], decision[t].seq>>}
        /\ UNCHANGED <<savedCounter, saved>>
    BY <1>2 DEF Return, Granting
  <2> QED
    BY <1>2, <2>1 DEF GrantInv, PendingIsEntered, PendingIsNew, Contract!Grant
<1>3. ASSUME NEW t \in Threads, Return(t), ~Granting(t) PROVE UNCHANGED Contract!contractVars
  BY <1>3 DEF Return, Granting, Deciding, Contract!contractVars
<1>4. CASE UNCHANGED <<savedCounter, saved, told>>
  BY <1>4 DEF Contract!contractVars
<1>5. ASSUME NEW t \in Threads, Step(t)
      PROVE  \/ UNCHANGED <<savedCounter, saved, told>>
             \/ EnterMessage(t) /\ Persisted /\ UNCHANGED told
             \/ Return(t)
  BY <1>5 DEF Step, Receive, SubmitStale, SubmitDuplicate, SubmitValid, SubmitFails,
     StoreVerdict, StoreLineage, BeginReport, EndReport
<1>6. \A t \in Threads : msg[t] \in Messages
  BY DEF TypeOK
<1> QED
  BY <1>1, <1>2, <1>3, <1>4, <1>5, <1>6 DEF GatewayNext, Restart, vars, Contract!ContractNext

(* The authority passes the registry's promise on: whatever its threads    *)
(* store without a lock, whatever a failed write does not save and a       *)
(* restart takes away, no message is answered VALID twice, none before its *)
(* number is in the file, and the file's numbering only grows.             *)
THEOREM ImplementsContract == GatewaySpec => KeepsContract
<1>1. Init => Contract!ContractInit
  BY DEF Init, Contract!ContractInit
<1>2. /\ TypeOK /\ GrantInv
      /\ TypeOK' /\ GrantInv'
      /\ [GatewayNext]_vars
      => [Contract!ContractNext]_(Contract!contractVars)
  BY ContractStep
<1> QED
  BY <1>1, <1>2, GrantInvariant, PTL DEF GatewaySpec, KeepsContract, Contract!ContractSpec
=============================================================================
