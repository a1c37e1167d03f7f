--------------------------- MODULE ReplayRegistry ---------------------------
(***************************************************************************)
(* replay_registry.py: the file-backed registry behind every replay        *)
(* verdict.  Each process keeps its own ReplayRegistry object (instance)   *)
(* with a lock; its threads call submit(); every acceptance rewrites the   *)
(* backing file through a temporary file.  A process may die between any   *)
(* two steps and comes back with what _load() finds in the file.           *)
(*                                                                         *)
(* submit() is five steps: the clock is read before the lock is taken      *)
(* (Submit), the entry is made under the lock (Enter), the temporary file  *)
(* is written (WriteTmp), renamed over the registry (Replace), and, the    *)
(* lock released, the decision reaches the caller (Return).                *)
(***************************************************************************)
EXTENDS Naturals

CONSTANTS
  Messages,    \* message ids
  Threads,     \* threads that call submit()
  Instances,   \* ReplayRegistry objects on one backing file
  Home,        \* Home[t]: the object thread t calls
  TTL,         \* replay window, in clock ticks
  MaxClock,    \* bound: the clock stops here
  NoThread,    \* the lock is free
  NoFile       \* the temporary file does not exist

ASSUME HomeAssumption == Home \in [Threads -> Instances]
ASSUME ClockAssumption == TTL \in Nat /\ MaxClock \in Nat
ASSUME NoThreadAssumption == NoThread \notin Threads

VARIABLES
  clock,       \* time.time()
  counter,     \* counter[i]: _sequence_counter of i
  entries,     \* entries[i][m]: the sequence number in _entries of i; 0: unknown
  disk,        \* the backing file; a missing or unreadable file loads as Fresh
  tmp,         \* the temporary file, one for all the objects on this path
  holder,      \* holder[i]: the thread inside the "with self._lock" of i
  pc,          \* where each thread is in submit()
  msg,         \* the message id it submits
  issued,      \* the issue time it submits
  answer,      \* the decision it is about to return
  seq,         \* the sequence number of that decision
  granted,     \* history: <<m, s>> when m was answered VALID as number s
  grants       \* history: how many times m was answered VALID

memory == <<counter, entries>>
files == <<disk, tmp>>
call == <<msg, issued>>
history == <<granted, grants>>
vars == <<clock, memory, files, holder, pc, call, answer, seq, history>>

Status == {"NONE", "VALID", "DUPLICATE", "STALE", "ERROR"}
InLock == {"writing", "replacing"}

File == [counter : Nat, entries : [Messages -> Nat]]

Fresh == [counter |-> 0, entries |-> [m \in Messages |-> 0]]

ASSUME NoFileAssumption == NoFile \notin File

TypeOK ==
  /\ clock \in Nat
  /\ counter \in [Instances -> Nat]
  /\ entries \in [Instances -> [Messages -> Nat]]
  /\ disk \in File
  /\ tmp \in File \union {NoFile}
  /\ holder \in [Instances -> Threads \union {NoThread}]
  /\ pc \in [Threads -> {"idle", "waiting", "returning"} \union InLock]
  /\ msg \in [Threads -> Messages]
  /\ issued \in [Threads -> Nat]
  /\ answer \in [Threads -> Status]
  /\ seq \in [Threads -> Nat]
  /\ granted \subseteq Messages \X Nat
  /\ grants \in [Messages -> Nat]

Init ==
  /\ clock = 0
  /\ counter = [i \in Instances |-> 0]
  /\ entries = [i \in Instances |-> Fresh.entries]
  /\ disk = Fresh
  /\ tmp = NoFile
  /\ holder = [i \in Instances |-> NoThread]
  /\ pc = [t \in Threads |-> "idle"]
  /\ msg \in {[t \in Threads |-> m] : m \in Messages}
  /\ issued = [t \in Threads |-> 0]
  /\ answer = [t \in Threads |-> "NONE"]
  /\ seq = [t \in Threads |-> 0]
  /\ granted = {}
  /\ grants = [m \in Messages |-> 0]

-----------------------------------------------------------------------------
(* Mutant of Decide: the number before the one decided.                    *)
DecidePrevious(t, status, number) ==
  /\ pc' = [pc EXCEPT ![t] = "returning"]
  /\ answer' = [answer EXCEPT ![t] = status]
  /\ seq' = [seq EXCEPT ![t] = number - 1]

(* The decision is made: t leaves the lock, if it held it, and will return. *)
Decide(t, status, number) ==
  /\ pc' = [pc EXCEPT ![t] = "returning"]
  /\ answer' = [answer EXCEPT ![t] = status]
  /\ seq' = [seq EXCEPT ![t] = number]

(* The local variables of the threads T are gone.                          *)
Forget(T) ==
  /\ issued' = [t \in Threads |-> IF t \in T THEN 0 ELSE issued[t]]
  /\ answer' = [t \in Threads |-> IF t \in T THEN "NONE" ELSE answer[t]]
  /\ seq' = [t \in Threads |-> IF t \in T THEN 0 ELSE seq[t]]

Release(t) == holder' = [holder EXCEPT ![Home[t]] = NoThread]

Tick ==
  /\ clock < MaxClock
  /\ clock' = clock + 1
  /\ UNCHANGED <<memory, files, holder, pc, call, answer, seq, history>>

(* The call and the stale check, which reads the clock before the lock.    *)
Submit(t, m, issuedAt) ==
  /\ pc[t] = "idle"
  /\ msg' = [msg EXCEPT ![t] = m]
  /\ issued' = [issued EXCEPT ![t] = issuedAt]
  /\ \/ /\ clock > issuedAt + TTL
        /\ Decide(t, "STALE", 0)
     \/ /\ clock <= issuedAt + TTL
        /\ pc' = [pc EXCEPT ![t] = "waiting"]
        /\ UNCHANGED <<answer, seq>>
  /\ UNCHANGED <<clock, memory, files, holder, history>>

(* The lock is taken; a known message is refused and the lock released.    *)
RejectDuplicate(t) ==
  LET i == Home[t] IN
  /\ pc[t] = "waiting"
  /\ holder[i] = NoThread
  /\ entries[i][msg[t]] # 0
  /\ Decide(t, "DUPLICATE", entries[i][msg[t]])
  /\ UNCHANGED <<clock, memory, files, holder, call, history>>

EnterAs(t, number) ==
  LET i == Home[t] IN
  /\ pc[t] = "waiting"
  /\ holder[i] = NoThread
  /\ holder' = [holder EXCEPT ![i] = t]
  /\ counter' = [counter EXCEPT ![i] = number]
  /\ entries' = [entries EXCEPT ![i][msg[t]] = number]
  /\ seq' = [seq EXCEPT ![t] = number]
  /\ pc' = [pc EXCEPT ![t] = "writing"]
  /\ UNCHANGED <<clock, files, call, answer, history>>

(* Mutant of Enter: the duplicate test is not repeated under the lock.     *)
EnterUnchecked(t) == EnterAs(t, counter[Home[t]] + 1)

(* A new message gets the next number.  The gap this number leaves is      *)
(* always 1, so with the positive gap config.validate() demands the FUTURE *)
(* branch of submit() is never taken.                                      *)
Enter(t) ==
  LET i == Home[t] IN
  /\ entries[i][msg[t]] = 0
  /\ EnterAs(t, counter[i] + 1)

Snapshot(i) == [counter |-> counter[i], entries |-> entries[i]]

WriteTmp(t) ==
  /\ pc[t] = "writing"
  /\ tmp' = Snapshot(Home[t])
  /\ pc' = [pc EXCEPT ![t] = "replacing"]
  /\ UNCHANGED <<clock, memory, disk, holder, call, answer, seq, history>>

Replace(t) ==
  /\ pc[t] = "replacing"
  /\ tmp # NoFile
  /\ disk' = tmp
  /\ tmp' = NoFile
  /\ Decide(t, "VALID", seq[t])
  /\ Release(t)
  /\ UNCHANGED <<clock, memory, call, history>>

(* Mutants of PersistFails: the exception is swallowed; it leaves the lock *)
(* taken.                                                                  *)
PersistSwallowed(t) ==
  /\ pc[t] \in InLock
  /\ tmp' \in {tmp} \union (IF pc[t] = "writing" THEN {Fresh} ELSE {})
  /\ Decide(t, "VALID", seq[t])
  /\ Release(t)
  /\ UNCHANGED <<clock, memory, disk, call, history>>

PersistKeepsLock(t) ==
  /\ pc[t] \in InLock
  /\ tmp' \in {tmp} \union (IF pc[t] = "writing" THEN {Fresh} ELSE {})
  /\ Decide(t, "ERROR", 0)
  /\ UNCHANGED <<clock, memory, disk, holder, call, history>>

(* _persist() raises (the disk is full, the file is not ours, another      *)
(* object has renamed the temporary file): the exception leaves submit()   *)
(* and the lock, the new entry stays in memory.  A failed write_text       *)
(* leaves a truncated temporary file, which would load as Fresh.           *)
PersistFails(t) ==
  /\ pc[t] \in InLock
  /\ tmp' \in {tmp} \union (IF pc[t] = "writing" THEN {Fresh} ELSE {})
  /\ Decide(t, "ERROR", 0)
  /\ Release(t)
  /\ UNCHANGED <<clock, memory, disk, call, history>>

Return(t) ==
  /\ pc[t] = "returning"
  /\ pc' = [pc EXCEPT ![t] = "idle"]
  /\ IF answer[t] = "VALID"
       THEN /\ granted' = granted \union {<<msg[t], seq[t]>>}
            /\ grants' = [grants EXCEPT ![msg[t]] = @ + 1]
       ELSE UNCHANGED history
  /\ Forget({t})
  /\ UNCHANGED <<clock, memory, files, holder, msg>>

(* Mutants of Loaded: the file is not read; its counter is not read.       *)
LoadedBlank == Fresh
LoadedUncounted == [disk EXCEPT !.counter = 0]

(* What _load() finds.                                                     *)
Loaded == disk

(* The process of object i dies and starts again: _load() reads the file.  *)
Restart(i) ==
  /\ counter' = [counter EXCEPT ![i] = Loaded.counter]
  /\ entries' = [entries EXCEPT ![i] = Loaded.entries]
  /\ holder' = [holder EXCEPT ![i] = NoThread]
  /\ pc' = [t \in Threads |-> IF Home[t] = i THEN "idle" ELSE pc[t]]
  /\ Forget({t \in Threads : Home[t] = i})
  /\ UNCHANGED <<clock, files, msg, history>>

Step(t) ==
  \/ RejectDuplicate(t)
  \/ Enter(t)
  \/ WriteTmp(t)
  \/ Replace(t)
  \/ PersistFails(t)
  \/ Return(t)

Next ==
  \/ Tick
  \/ \E t \in Threads : Step(t)
  \/ \E t \in Threads, m \in Messages, issuedAt \in 0..MaxClock : Submit(t, m, issuedAt)
  \/ \E i \in Instances : Restart(i)

Spec == Init /\ [][Next]_vars

(* A thread inside submit() is scheduled again: threads are preempted, not *)
(* stopped.  Nothing is assumed of the clock, of callers or of crashes.    *)
FairSpec == Spec /\ \A t \in Threads : WF_vars(Step(t))

-----------------------------------------------------------------------------
(* At most one VALID for a message, across threads, restarts and failed    *)
(* writes: what canonical_replay_authority.py is there for.                *)
AtMostOnceValid == \A m \in Messages : grants[m] <= 1

(* "survives process restarts": a VALID answer is on disk, with its        *)
(* number, before the caller has it and for ever after.                    *)
ValidIsDurable == \A g \in granted : disk.entries[g[1]] = g[2]

(* Sequence numbers in use are 1.._sequence_counter, each used once, in    *)
(* every object and in the file: parent_reference = seq - 1 of a lineage   *)
(* record always names a message.                                          *)
Contract == INSTANCE ReplayContract WITH
              lastSeq <- disk.counter, durable <- disk.entries, granted <- granted

SequencesContiguous ==
  /\ Contract!Contiguous(disk.entries, disk.counter)
  /\ \A i \in Instances : Contract!Contiguous(entries[i], counter[i])

(* The registry keeps the contract it is used under.                       *)
KeepsContract == Contract!ContractSpec

(* "with self._lock" is left on every path, the failing write included:    *)
(* no thread is locked out for ever.                                       *)
LockIsReleased ==
  \A i \in Instances : holder[i] # NoThread ~> holder[i] = NoThread
=============================================================================
