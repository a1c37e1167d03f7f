------------------------ MODULE ReplayRegistryProofs ------------------------
(***************************************************************************)
(* Theorems about ReplayRegistry.  Type correctness and contiguous         *)
(* numbering hold for any number of registry objects on the file.  The     *)
(* promises to the caller (durable, at most one VALID) hold for one        *)
(* object, which SingleObject assumes: two objects on one file may both    *)
(* call a message new.                                                     *)
(***************************************************************************)
EXTENDS ReplayRegistry, TLAPS

SingleObject == \A i, j \in Instances : i = j

-----------------------------------------------------------------------------
(* The state has the types declared, for any constants.                    *)
THEOREM TypeCorrect == Spec => []TypeOK
<1> USE HomeAssumption, ClockAssumption DEF TypeOK, File, Fresh, Status, InLock
<1>1. Init => TypeOK
  BY DEF Init
<1>2. TypeOK /\ [Next]_vars => TypeOK'
  <2> SUFFICES ASSUME TypeOK, [Next]_vars PROVE TypeOK'
    OBVIOUS
  <2>1. CASE Tick
    BY <2>1 DEF Tick, memory, files, call, history
  <2>2. ASSUME NEW t \in Threads, NEW m \in Messages, NEW issuedAt \in 0..MaxClock,
               Submit(t, m, issuedAt)
        PROVE  TypeOK'
    <3>1. issuedAt \in Nat
      OBVIOUS
    <3>2. CASE Decide(t, "STALE", 0)
      BY <2>2, <3>1, <3>2 DEF Submit, Decide, memory, files, history
    <3>3. CASE pc' = [pc EXCEPT ![t] = "waiting"] /\ UNCHANGED <<answer, seq>>
      BY <2>2, <3>1, <3>3 DEF Submit, memory, files, history
    <3> QED
      BY <2>2, <3>2, <3>3 DEF Submit
  <2>3. ASSUME NEW t \in Threads, RejectDuplicate(t) PROVE TypeOK'
    BY <2>3 DEF RejectDuplicate, Decide, memory, files, call, history
  <2>4. ASSUME NEW t \in Threads, Enter(t) PROVE TypeOK'
    BY <2>4 DEF Enter, EnterAs, files, call, history
  <2>5. ASSUME NEW t \in Threads, WriteTmp(t) PROVE TypeOK'
    BY <2>5 DEF WriteTmp, Snapshot, memory, call, history
  <2>6. ASSUME NEW t \in Threads, Replace(t) PROVE TypeOK'
    BY <2>6 DEF Replace, Decide, Release, memory, call, history
  <2>7. ASSUME NEW t \in Threads, PersistFails(t) PROVE TypeOK'
    BY <2>7 DEF PersistFails, Decide, Release, memory, call, history
  <2>8. ASSUME NEW t \in Threads, Return(t) PROVE TypeOK'
    <3>1. CASE answer[t] = "VALID"
      <4>1. /\ granted' = granted \union {<<msg[t], seq[t]>>}
            /\ grants' = [grants EXCEPT ![msg[t]] = @ + 1]
        BY <2>8, <3>1 DEF Return
      <4>2. granted' \subseteq Messages \X Nat /\ grants' \in [Messages -> Nat]
        BY <4>1
      <4> QED
        BY <2>8, <4>2 DEF Return, Forget, memory, files
    <3>2. CASE answer[t] # "VALID"
      BY <2>8, <3>2 DEF Return, Forget, memory, files, history
    <3> QED
      BY <3>1, <3>2
  <2>9. ASSUME NEW i \in Instances, Restart(i) PROVE TypeOK'
    BY <2>9 DEF Restart, Loaded, Forget, files, history
  <2>10. CASE UNCHANGED vars
    BY <2>10 DEF vars, memory, files, call, history
  <2> QED
    BY <2>1, <2>2, <2>3, <2>4, <2>5, <2>6, <2>7, <2>8, <2>9, <2>10 DEF Next, Step
<1> QED
  BY <1>1, <1>2, PTL DEF Spec

-----------------------------------------------------------------------------
(* An empty registry is numbered without gaps.                             *)
LEMMA FreshContiguous == Contract!Contiguous(Fresh.entries, Fresh.counter)
  BY DEF Fresh, Contract!Contiguous, Contract!Known

(* Giving a new message the next number keeps the numbering without gaps.  *)
LEMMA NextNumberContiguous ==
  ASSUME NEW f \in [Messages -> Nat], NEW c \in Nat, NEW m \in Messages,
         f[m] = 0, Contract!Contiguous(f, c)
  PROVE  Contract!Contiguous([f EXCEPT ![m] = c + 1], c + 1)
<1> DEFINE g == [f EXCEPT ![m] = c + 1]
<1>1. \A x \in Messages : g[x] <= c + 1
  BY DEF Contract!Contiguous
<1>2. \A x, y \in Contract!Known(g) : g[x] = g[y] => x = y
  BY DEF Contract!Contiguous, Contract!Known
<1>3. ASSUME NEW n \in 1..(c + 1) PROVE \E x \in Messages : g[x] = n
  <2>1. CASE n = c + 1
    BY <2>1
  <2>2. CASE n # c + 1
    <3>1. n \in 1..c
      BY <2>2
    <3>2. PICK x \in Messages : f[x] = n
      BY <3>1 DEF Contract!Contiguous
    <3>3. x # m
      BY <3>1, <3>2
    <3> QED
      BY <3>2, <3>3
  <2> QED
    BY <2>1, <2>2
<1> QED
  BY <1>1, <1>2, <1>3 DEF Contract!Contiguous

(* A renamed temporary file becomes the registry: it must be numbered too. *)
TmpContiguous == tmp # NoFile => Contract!Contiguous(tmp.entries, tmp.counter)

NumberingInv == SequencesContiguous /\ TmpContiguous

LEMMA NumberingStep ==
  TypeOK /\ NumberingInv /\ [Next]_vars => NumberingInv'
<1> SUFFICES ASSUME TypeOK, NumberingInv, [Next]_vars PROVE NumberingInv'
  OBVIOUS
<1> USE DEF NumberingInv, SequencesContiguous, TmpContiguous
<1>1. CASE UNCHANGED <<memory, files>>
  BY <1>1 DEF memory, files
<1>2. ASSUME NEW t \in Threads, Enter(t) PROVE NumberingInv'
  <2> DEFINE i == Home[t]
  <2>1. /\ i \in Instances
        /\ counter' = [counter EXCEPT ![i] = counter[i] + 1]
        /\ entries' = [entries EXCEPT ![i] = [entries[i] EXCEPT ![msg[t]] = counter[i] + 1]]
        /\ entries[i][msg[t]] = 0
        /\ UNCHANGED <<disk, tmp>>
    BY <1>2, HomeAssumption DEF Enter, EnterAs, TypeOK, files
  <2>2. Contract!Contiguous([entries[i] EXCEPT ![msg[t]] = counter[i] + 1], counter[i] + 1)
    BY <2>1, NextNumberContiguous DEF TypeOK
  <2>3. ASSUME NEW j \in Instances PROVE Contract!Contiguous(entries'[j], counter'[j])
    BY <2>1, <2>2, <2>3 DEF TypeOK
  <2> QED
    BY <2>1, <2>3
<1>3. ASSUME NEW t \in Threads, WriteTmp(t) PROVE NumberingInv'
  BY <1>3, HomeAssumption DEF WriteTmp, Snapshot, memory
<1>4. ASSUME NEW t \in Threads, Replace(t) PROVE NumberingInv'
  BY <1>4 DEF Replace, memory
<1>5. ASSUME NEW t \in Threads, PersistFails(t) PROVE NumberingInv'
  BY <1>5, FreshContiguous DEF PersistFails, memory
<1>6. ASSUME NEW i \in Instances, Restart(i) PROVE NumberingInv'
  BY <1>6 DEF Restart, Loaded, files, TypeOK
<1> QED
  BY <1>1, <1>2, <1>3, <1>4, <1>5, <1>6
  DEF Next, Step, Tick, Submit, RejectDuplicate, Return, vars

(* However many objects share the file and however they interleave, each   *)
(* object's numbering and the file's are 1..counter without gap or repeat. *)
THEOREM NumberingContiguous == Spec => []SequencesContiguous
<1>1. Init => NumberingInv
  BY FreshContiguous DEF Init, Fresh, NumberingInv, SequencesContiguous, TmpContiguous
<1>2. NumberingInv => SequencesContiguous
  BY DEF NumberingInv
<1> QED
  BY <1>1, <1>2, TypeCorrect, NumberingStep, PTL DEF Spec

-----------------------------------------------------------------------------
(* The inductive invariant behind the promises to the caller, one object.  *)

(* Only the holder of the lock is between Enter and the end of _persist(). *)
LockOwner == \A t \in Threads : pc[t] \in InLock => holder[Home[t]] = t

(* Memory is never behind the file.                                        *)
MemoryExtendsDisk ==
  \A i \in Instances, m \in Messages :
    disk.entries[m] # 0 => entries[i][m] = disk.entries[m]

(* What is about to be renamed is what the lock holder has in memory.      *)
TmpIsSnapshot ==
  \A t \in Threads : pc[t] = "replacing" => tmp = Snapshot(Home[t])

(* The message being persisted is not on disk yet, so nobody has been told *)
(* VALID for it; its number is the one in memory.                          *)
EntryPending ==
  \A t \in Threads : pc[t] \in InLock =>
    /\ disk.entries[msg[t]] = 0
    /\ seq[t] = entries[Home[t]][msg[t]]
    /\ seq[t] # 0

Promised(t) == pc[t] = "returning" /\ answer[t] = "VALID"

(* A VALID on its way to the caller is on disk, is the only one for its    *)
(* message, and the first.                                                 *)
PromiseKept ==
  /\ \A t \in Threads : Promised(t) =>
       /\ disk.entries[msg[t]] = seq[t]
       /\ seq[t] # 0
       /\ grants[msg[t]] = 0
  /\ \A t, u \in Threads : Promised(t) /\ Promised(u) /\ msg[t] = msg[u] => t = u

(* The two histories agree, and agree with the file.                       *)
GrantsOnDisk ==
  /\ \A g \in granted : g[2] # 0 /\ grants[g[1]] # 0
  /\ \A m \in Messages : grants[m] # 0 => disk.entries[m] # 0

DurabilityInv ==
  /\ LockOwner
  /\ MemoryExtendsDisk
  /\ TmpIsSnapshot
  /\ EntryPending
  /\ PromiseKept
  /\ GrantsOnDisk
  /\ ValidIsDurable
  /\ AtMostOnceValid

LEMMA DurabilityInit == Init => DurabilityInv
  BY DEF Init, Fresh, DurabilityInv, LockOwner, MemoryExtendsDisk, TmpIsSnapshot, InLock,
         EntryPending, PromiseKept, Promised, GrantsOnDisk, ValidIsDurable, AtMostOnceValid

LEMMA DurabilityStep ==
  ASSUME SingleObject, TypeOK, DurabilityInv, [Next]_vars
  PROVE  DurabilityInv'
<1> USE HomeAssumption, NoThreadAssumption
    DEF DurabilityInv, LockOwner, MemoryExtendsDisk, TmpIsSnapshot, EntryPending,
        PromiseKept, Promised, GrantsOnDisk, ValidIsDurable, AtMostOnceValid, InLock, TypeOK
<1>1. CASE UNCHANGED vars \/ Tick
  BY <1>1 DEF vars, Tick, memory, files, call, history, Snapshot
<1>2. ASSUME NEW t \in Threads, NEW m \in Messages, NEW issuedAt \in 0..MaxClock,
             Submit(t, m, issuedAt)
      PROVE  DurabilityInv'
  <2>1. CASE Decide(t, "STALE", 0)
    BY <1>2, <2>1 DEF Submit, Decide, memory, files, history, Snapshot
  <2>2. CASE pc' = [pc EXCEPT ![t] = "waiting"] /\ UNCHANGED <<answer, seq>>
    BY <1>2, <2>2 DEF Submit, memory, files, history, Snapshot
  <2> QED
    BY <1>2, <2>1, <2>2 DEF Submit
<1>3. ASSUME NEW t \in Threads, RejectDuplicate(t) PROVE DurabilityInv'
  BY <1>3 DEF RejectDuplicate, Decide, memory, files, call, history, Snapshot
<1>4. ASSUME NEW t \in Threads, Enter(t) PROVE DurabilityInv'
  <2>1. \A u \in Threads : pc[u] \notin InLock
    BY <1>4, SingleObject DEF Enter, EnterAs, SingleObject
  <2>2. disk.entries[msg[t]] = 0
    BY <1>4 DEF Enter, EnterAs
  <2>3. /\ LockOwner'
        /\ TmpIsSnapshot'
        /\ EntryPending'
    BY <1>4, <2>1, <2>2 DEF Enter, EnterAs, files, call, history
  <2>4. MemoryExtendsDisk'
    BY <1>4, <2>2, SingleObject DEF Enter, EnterAs, files, SingleObject
  <2> QED
    BY <1>4, <2>3, <2>4 DEF Enter, EnterAs, files, call, history
<1>5. ASSUME NEW t \in Threads, WriteTmp(t) PROVE DurabilityInv'
  <2>1. \A u \in Threads : pc[u] \in InLock => u = t
    BY <1>5, SingleObject DEF WriteTmp, SingleObject
  <2> QED
    BY <1>5, <2>1 DEF WriteTmp, Snapshot, memory, call, history
<1>6. ASSUME NEW t \in Threads, Replace(t) PROVE DurabilityInv'
  <2>1. \A u \in Threads : pc[u] \in InLock => u = t
    BY <1>6, SingleObject DEF Replace, SingleObject
  <2>2. \A i \in Instances : i = Home[t]
    BY SingleObject DEF SingleObject
  <2>3. disk'.entries = entries[Home[t]] /\ UNCHANGED <<memory, call, history>>
    BY <1>6 DEF Replace, Snapshot
  <2>4. \A m \in Messages : disk.entries[m] # 0 => disk'.entries[m] = disk.entries[m]
    BY <2>3
  <2>5. LockOwner' /\ TmpIsSnapshot' /\ EntryPending'
    BY <1>6, <2>1 DEF Replace, Decide
  <2>6. MemoryExtendsDisk'
    BY <2>2, <2>3 DEF memory
  <2>7. PromiseKept'
    BY <1>6, <2>3, <2>4, SMTT(30) DEF Replace, Decide, call, history
  <2>8. GrantsOnDisk' /\ ValidIsDurable' /\ AtMostOnceValid'
    BY <2>3, <2>4, ZenonT(30) DEF history
  <2> QED
    BY <2>5, <2>6, <2>7, <2>8
<1>7. ASSUME NEW t \in Threads, PersistFails(t) PROVE DurabilityInv'
  <2>1. \A u \in Threads : pc[u] \in InLock => u = t
    BY <1>7, SingleObject DEF PersistFails, SingleObject
  <2> QED
    BY <1>7, <2>1 DEF PersistFails, Decide, Release, Snapshot, memory, call, history
<1>8. ASSUME NEW t \in Threads, Return(t) PROVE DurabilityInv'
  <2>1. LockOwner' /\ MemoryExtendsDisk' /\ TmpIsSnapshot' /\ EntryPending'
    BY <1>8 DEF Return, Forget, memory, files, Snapshot
  <2>2. CASE answer[t] = "VALID"
    <3>1. /\ granted' = granted \union {<<msg[t], seq[t]>>}
          /\ grants' = [grants EXCEPT ![msg[t]] = grants[msg[t]] + 1]
      BY <1>8, <2>2 DEF Return
    <3>2. /\ Promised(t)
          /\ pc' = [pc EXCEPT ![t] = "idle"]
          /\ UNCHANGED <<disk, tmp, msg>>
          /\ \A u \in Threads : u # t => answer'[u] = answer[u] /\ seq'[u] = seq[u]
      BY <1>8, <2>2 DEF Return, Forget, files
    <3>3. PromiseKept'
      BY <3>1, <3>2
    <3>4. GrantsOnDisk' /\ ValidIsDurable' /\ AtMostOnceValid'
      BY <3>1, <3>2
    <3> QED
      BY <2>1, <3>3, <3>4
  <2>3. CASE answer[t] # "VALID"
    BY <1>8, <2>1, <2>3 DEF Return, Forget, memory, files, history
  <2> QED
    BY <2>2, <2>3
<1>9. ASSUME NEW i \in Instances, Restart(i) PROVE DurabilityInv'
  <2>1. \A t \in Threads : pc'[t] = "idle"
    BY <1>9, SingleObject DEF Restart, Loaded, SingleObject
  <2>2. \A j \in Instances : entries'[j] = disk.entries
    BY <1>9, SingleObject DEF Restart, Loaded, SingleObject
  <2> QED
    BY <1>9, <2>1, <2>2 DEF Restart, Loaded, files, history
<1> QED
  BY <1>1, <1>2, <1>3, <1>4, <1>5, <1>6, <1>7, <1>8, <1>9 DEF Next, Step

(* One object on the file: a message is answered VALID at most once, over  *)
(* all threads, failed writes and restarts.                                *)
THEOREM AtMostOnce ==
  ASSUME SingleObject PROVE Spec => []AtMostOnceValid
<1>1. TypeOK /\ DurabilityInv /\ [Next]_vars => DurabilityInv'
  BY DurabilityStep, SingleObject
<1>2. DurabilityInv => AtMostOnceValid
  BY DEF DurabilityInv
<1> QED
  BY <1>1, <1>2, DurabilityInit, TypeCorrect, PTL DEF Spec

(* One object on the file: what was answered VALID is on disk with its     *)
(* number, whatever crashes since.                                         *)
THEOREM Durability ==
  ASSUME SingleObject PROVE Spec => []ValidIsDurable
<1>1. TypeOK /\ DurabilityInv /\ [Next]_vars => DurabilityInv'
  BY DurabilityStep, SingleObject
<1>2. DurabilityInv => ValidIsDurable
  BY DEF DurabilityInv
<1> QED
  BY <1>1, <1>2, DurabilityInit, TypeCorrect, PTL DEF Spec

-----------------------------------------------------------------------------
(* Every step of one object is a step of the contract or leaves what the   *)
(* contract speaks of alone.                                               *)
LEMMA ContractStep ==
  ASSUME SingleObject, TypeOK, TypeOK', DurabilityInv, NumberingInv, NumberingInv', [Next]_vars
  PROVE  [Contract!ContractNext]_(Contract!contractVars)
<1> USE HomeAssumption, NoThreadAssumption DEF TypeOK, DurabilityInv, InLock
<1>1. ASSUME NEW t \in Threads, Replace(t) PROVE Contract!Record
  <2>1. disk' = tmp /\ UNCHANGED granted
    BY <1>1 DEF Replace, history
  <2>2. disk'.entries = entries[Home[t]]
    BY <1>1 DEF Replace, TmpIsSnapshot, Snapshot
  <2>3. Contract!Extends(disk'.entries, disk.entries)
    BY <2>2 DEF MemoryExtendsDisk, Contract!Extends, Contract!Known
  <2>4. /\ disk'.counter \in Nat
        /\ disk'.entries \in [Messages -> Nat]
    BY DEF File
  <2> QED
    BY <2>1, <2>3, <2>4 DEF NumberingInv, SequencesContiguous, Contract!Record
<1>2. ASSUME NEW t \in Threads, Return(t), Promised(t) PROVE Contract!Grant(msg[t])
  <2>1. granted' = granted \union {<<msg[t], seq[t]>>} /\ UNCHANGED disk
    BY <1>2 DEF Return, Promised, files
  <2>2. /\ disk.entries[msg[t]] = seq[t]
        /\ seq[t] # 0
        /\ \A g \in granted : g[1] # msg[t]
    BY <1>2 DEF PromiseKept, GrantsOnDisk
  <2> QED
    BY <2>1, <2>2 DEF Contract!Grant
<1>3. ASSUME NEW t \in Threads, Return(t), ~Promised(t)
      PROVE  UNCHANGED Contract!contractVars
  BY <1>3 DEF Return, Promised, files, history, Contract!contractVars
<1>4. CASE UNCHANGED <<disk, granted>>
  BY <1>4 DEF Contract!contractVars
<1> QED
  BY <1>1, <1>2, <1>3, <1>4
  DEF Next, Step, Tick, Submit, RejectDuplicate, Enter, EnterAs, WriteTmp, PersistFails, Restart, Loaded, vars,
      files, history, Contract!ContractNext

(* One object on the file implements ReplayContract, the file in the role  *)
(* of the durable numbering.                                               *)
THEOREM ImplementsContract ==
  ASSUME SingleObject PROVE Spec => KeepsContract
<1>1. Init => Contract!ContractInit
  BY DEF Init, Fresh, Contract!ContractInit
<1>2. TypeOK /\ DurabilityInv /\ [Next]_vars => DurabilityInv'
  BY DurabilityStep, SingleObject
<1>3. /\ TypeOK /\ TypeOK'
      /\ DurabilityInv
      /\ NumberingInv /\ NumberingInv'
      /\ [Next]_vars
      => [Contract!ContractNext]_(Contract!contractVars)
  BY ContractStep, SingleObject
<1>4. Init => NumberingInv
  BY FreshContiguous DEF Init, Fresh, NumberingInv, SequencesContiguous, TmpContiguous
<1> QED
  BY <1>1, <1>2, <1>3, <1>4, DurabilityInit, TypeCorrect, NumberingStep, PTL
  DEF Spec, KeepsContract, Contract!ContractSpec
=============================================================================
