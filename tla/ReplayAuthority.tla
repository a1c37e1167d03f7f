-------------------------- MODULE ReplayAuthority --------------------------
(***************************************************************************)
(* canonical_replay_authority.py above one ReplayRegistry, called by the   *)
(* threads of QuantumGateway.transmit() or gateway.py's Receiver.receive().*)
(* The registry decides, and writes its file, under its lock (the steps of *)
(* ReplayRegistry are taken together here, its memory and its file are     *)
(* kept apart); what the authority does with the decision, storing the     *)
(* verdict and the lineage record, is not under any lock, and neither are  *)
(* the capacity test the Receiver makes first and the verification report. *)
(***************************************************************************)
EXTENDS Integers, FiniteSets, Sequences

CONSTANTS
  Messages,
  Threads,
  Capacity,      \* of the Receiver; 0: none, as for QuantumGateway
  MaxCounter     \* bound on the sequence counter

ASSUME CapacityAssumption == Capacity \in Nat /\ MaxCounter \in Nat
ASSUME MessagesAssumption == IsFiniteSet(Messages)

VARIABLES
  counter,       \* the registry's _sequence_counter
  entries,       \* its _entries: entries[m] is the sequence number of m, 0: unknown
  savedCounter,  \* the counter in its file
  saved,         \* the entries in its file
  verdicts,      \* _all_verdicts: verdicts[m] is the last stored status, "NONE": no key
  lineage,       \* _lineage: the records in the order of their insertion
  pc,            \* where each thread is in receive()
  msg,           \* the message it submits
  decision,      \* what the registry decided for it
  seen,          \* the messages with a verdict when a report counted them
  told           \* history: the <<m, s>> answered VALID and not reset since

memory == <<counter, entries>>
file == <<savedCounter, saved>>
registry == <<memory, file>>
store == <<verdicts, lineage>>
vars == <<registry, store, pc, msg, decision, seen, told>>

Status == {"VALID", "DUPLICATE", "STALE"}
Undecided == [status |-> "NONE", seq |-> 0]
Records == [msg : Messages, seq : Nat]

TypeOK ==
  /\ counter \in 0..MaxCounter
  /\ entries \in [Messages -> 0..MaxCounter]
  /\ savedCounter \in 0..MaxCounter
  /\ saved \in [Messages -> 0..MaxCounter]
  /\ verdicts \in [Messages -> Status \union {"NONE"}]
  /\ lineage \in Seq(Records)
  /\ pc \in [Threads -> {"idle", "checking", "resetting", "submitting",
                         "storing", "linking", "returning", "reporting"}]
  /\ msg \in [Threads -> Messages]
  /\ decision \in [Threads -> {Undecided} \union [status : Status, seq : Nat]]
  /\ seen \in [Threads -> SUBSET Messages]
  /\ told \subseteq Messages \X Nat

Init ==
  /\ counter = 0
  /\ entries = [m \in Messages |-> 0]
  /\ savedCounter = 0
  /\ saved = [m \in Messages |-> 0]
  /\ verdicts = [m \in Messages |-> "NONE"]
  /\ lineage = <<>>
  /\ pc = [t \in Threads |-> "idle"]
  /\ msg \in {[t \in Threads |-> m] : m \in Messages}
  /\ decision = [t \in Threads |-> Undecided]
  /\ seen = [t \in Threads |-> {}]
  /\ told = {}

Known == {m \in Messages : entries[m] # 0}
Answered == {m \in Messages : verdicts[m] # "NONE"}
Goto(t, label) == pc' = [pc EXCEPT ![t] = label]

-----------------------------------------------------------------------------
Receive(t, m) ==
  /\ pc[t] = "idle"
  /\ msg' = [msg EXCEPT ![t] = m]
  /\ Goto(t, IF Capacity = 0 THEN "submitting" ELSE "checking")
  /\ UNCHANGED <<registry, store, decision, seen, told>>

(* entry_count >= capacity, read under the registry's lock and then let go *)
CheckCapacity(t) ==
  /\ pc[t] = "checking"
  /\ Goto(t, IF Cardinality(Known) >= Capacity THEN "resetting" ELSE "submitting")
  /\ UNCHANGED <<registry, store, msg, decision, seen, told>>

(* registry.reset(): the authority's own dictionaries stay.                *)
ClearMemory(t) ==
  /\ pc[t] = "resetting"
  /\ counter' = 0
  /\ entries' = [m \in Messages |-> 0]
  /\ told' = {}

(* The file is written as the memory is now.                               *)
Persisted == savedCounter' = counter' /\ saved' = entries'

ResetRegistry(t) ==
  /\ ClearMemory(t)
  /\ Persisted
  /\ Goto(t, "submitting")
  /\ UNCHANGED <<store, msg, decision, seen>>

(* _persist() raises: the exception ends receive().                        *)
ResetFails(t) ==
  /\ ClearMemory(t)
  /\ Goto(t, "idle")
  /\ UNCHANGED <<file, store, msg, decision, seen>>

(* Mutant of Decide: a VALID verdict is stored as lineage only.            *)
DecideLineageOnly(t, status, seq) ==
  /\ decision' = [decision EXCEPT ![t] = [status |-> status, seq |-> seq]]
  /\ Goto(t, IF status = "VALID" THEN "linking" ELSE "storing")

Decide(t, status, seq) ==
  /\ decision' = [decision EXCEPT ![t] = [status |-> status, seq |-> seq]]
  /\ Goto(t, "storing")

(* Mutant of SubmitStale: no number, written as -1.                        *)
SubmitStaleUnnumbered(t) ==
  /\ pc[t] = "submitting"
  /\ Decide(t, "STALE", 0 - 1)
  /\ UNCHANGED <<registry, store, msg, seen, told>>

(* ReplayRegistry.submit(), decided at one point.  Too old is a matter of  *)
(* the caller's issue time and may happen to any message.                  *)
SubmitStale(t) ==
  /\ pc[t] = "submitting"
  /\ Decide(t, "STALE", 0)
  /\ UNCHANGED <<registry, store, msg, seen, told>>

SubmitDuplicate(t) ==
  /\ pc[t] = "submitting"
  /\ msg[t] \in Known
  /\ Decide(t, "DUPLICATE", entries[msg[t]])
  /\ UNCHANGED <<registry, store, msg, seen, told>>

EnterMessage(t) ==
  /\ pc[t] = "submitting"
  /\ msg[t] \notin Known
  /\ counter < MaxCounter
  /\ counter' = counter + 1
  /\ entries' = [entries EXCEPT ![msg[t]] = counter + 1]

SubmitValid(t) ==
  /\ EnterMessage(t)
  /\ Persisted
  /\ Decide(t, "VALID", counter + 1)
  /\ UNCHANGED <<store, msg, seen, told>>

(* Mutant of SubmitFails: the entry is taken back, its number is not.      *)
SubmitFailsForgets(t) ==
  /\ pc[t] = "submitting"
  /\ msg[t] \notin Known
  /\ counter < MaxCounter
  /\ counter' = counter + 1
  /\ Goto(t, "idle")
  /\ UNCHANGED <<entries, file, store, msg, decision, seen, told>>

(* Mutant of SubmitFails: the exception is swallowed.                      *)
SubmitFailsSilently(t) ==
  /\ EnterMessage(t)
  /\ Decide(t, "VALID", counter + 1)
  /\ UNCHANGED <<file, store, msg, seen, told>>

(* _persist() raises: the message is in memory and not in the file, the    *)
(* exception passes through authority.submit() and nothing is stored.      *)
SubmitFails(t) ==
  /\ EnterMessage(t)
  /\ Goto(t, "idle")
  /\ UNCHANGED <<file, store, msg, decision, seen, told>>

StoreVerdict(t) ==
  /\ pc[t] = "storing"
  /\ verdicts' = [verdicts EXCEPT ![msg[t]] = decision[t].status]
  /\ Goto(t, IF decision[t].status = "VALID" THEN "linking" ELSE "returning")
  /\ UNCHANGED <<registry, lineage, msg, decision, seen, told>>

(* A dictionary assignment: a key already there keeps its place.           *)
StoreLineage(t) ==
  LET record == [msg |-> msg[t], seq |-> decision[t].seq]
      here == {k \in 1..Len(lineage) : lineage[k].msg = msg[t]} IN
  /\ pc[t] = "linking"
  /\ lineage' = IF here = {} THEN Append(lineage, record)
                ELSE [k \in 1..Len(lineage) |-> IF k \in here THEN record ELSE lineage[k]]
  /\ Goto(t, "returning")
  /\ UNCHANGED <<registry, verdicts, msg, decision, seen, told>>

Return(t) ==
  /\ pc[t] = "returning"
  /\ told' = told \union
       (IF decision[t].status = "VALID" THEN {<<msg[t], decision[t].seq>>} ELSE {})
  /\ decision' = [decision EXCEPT ![t] = Undecided]
  /\ Goto(t, "idle")
  /\ UNCHANGED <<registry, store, msg, seen>>

(* verification_report() counts the verdicts and then, without a lock, the *)
(* lineage records.                                                        *)
BeginReport(t) ==
  /\ pc[t] = "idle"
  /\ seen' = [seen EXCEPT ![t] = Answered]
  /\ Goto(t, "reporting")
  /\ UNCHANGED <<registry, store, msg, decision, told>>

EndReport(t) ==
  /\ pc[t] = "reporting"
  /\ seen' = [seen EXCEPT ![t] = {}]
  /\ Goto(t, "idle")
  /\ UNCHANGED <<registry, store, msg, decision, told>>

(* The process dies; a new one loads the registry from its file and starts *)
(* with empty dictionaries.                                                *)
Restart ==
  /\ counter' = savedCounter
  /\ entries' = saved
  /\ verdicts' = [m \in Messages |-> "NONE"]
  /\ lineage' = <<>>
  /\ pc' = [t \in Threads |-> "idle"]
  /\ decision' = [t \in Threads |-> Undecided]
  /\ seen' = [t \in Threads |-> {}]
  /\ UNCHANGED <<file, msg, told>>

Step(t) ==
  \/ \E m \in Messages : Receive(t, m)
  \/ SubmitStale(t)
  \/ SubmitDuplicate(t)
  \/ SubmitValid(t)
  \/ SubmitFails(t)
  \/ StoreVerdict(t)
  \/ StoreLineage(t)
  \/ Return(t)
  \/ BeginReport(t)
  \/ EndReport(t)

MakeRoom(t) == CheckCapacity(t) \/ ResetRegistry(t) \/ ResetFails(t)

(* QuantumGateway: no capacity, on a registry that outlives the process.   *)
GatewayNext == Restart \/ \E t \in Threads : Step(t)

(* gateway.py's Receiver: a capacity, on a private registry file           *)
ReceiverNext == \E t \in Threads : Step(t) \/ MakeRoom(t)

GatewaySpec == Init /\ [][GatewayNext]_vars
ReceiverSpec == Init /\ [][ReceiverNext]_vars

-----------------------------------------------------------------------------
LineageSet == {lineage[k] : k \in 1..Len(lineage)}
Listed == {lineage[k].msg : k \in 1..Len(lineage)}

(* rejected_count as the report of t answers it if it reads _lineage now   *)
RejectedCount(t) == Cardinality(seen[t]) - Len(lineage)

(* verification_report(): the number of messages with a verdict and no     *)
(* lineage record, less those first stored between the report's two reads. *)
(* So a report nobody disturbs is exact, one that threads store during is  *)
(* short by no more than what they stored (and may be negative), and no    *)
(* order of stores, rejected repetition or reset makes it wrong otherwise. *)
RejectedCountShort ==
  \A t \in Threads : pc[t] = "reporting" =>
    RejectedCount(t) = Cardinality(Answered \ Listed) - Cardinality(Answered \ seen[t])

(* A lineage record always carries the number its message has in the       *)
(* registry's memory and in its file, and the message parent_reference     *)
(* points at is in the file: failed writes, and the restarts that lose     *)
(* what they did not write, never leave a record without its numbers.      *)
LineageMatchesRegistry ==
  \A r \in LineageSet :
    /\ r.seq = entries[r.msg]
    /\ r.seq = saved[r.msg]
    /\ r.seq > 1 => \E m \in Messages : saved[m] = r.seq - 1

(* The authority answers as ReplayContract says of the registry's file:    *)
(* over failed writes, restarts and lost verdicts no message is answered   *)
(* VALID twice, none before its number is in the file, and no number in    *)
(* the file is given out again.                                            *)
Contract == INSTANCE ReplayContract WITH
              lastSeq <- savedCounter, durable <- saved, granted <- told

KeepsContract == Contract!ContractSpec

(* Receiver: "Enforce capacity cap by evicting oldest entry when limit     *)
(* reached": a message leaves the registry only if it is the oldest there, *)
(* and alone.                                                              *)
EvictsOldestOnly ==
  [][\A m \in Known : entries'[m] = 0 =>
       \A n \in Known \ {m} : entries[m] < entries[n] /\ entries'[n] # 0]_vars
=============================================================================
