-------------------------- MODULE LifecycleManager --------------------------
(***************************************************************************)
(* platform_lifecycle_manager.py: the state machine of platform services   *)
(* and its chain of evidence.  Every method is one critical section except *)
(* enable() and disable(), which read the state in one and act on what     *)
(* they read in a second.                                                  *)
(***************************************************************************)
EXTENDS Naturals, Sequences

CONSTANTS
  Services,
  Operators,     \* threads calling the manager
  MaxEvents      \* bound on the evidence chain

ASSUME LifecycleAssumption == MaxEvents \in Nat

VARIABLES
  serviceState,  \* _service_states; "NONE": no key
  enabled,       \* _service_enabled; no key reads as TRUE
  events,        \* _events, the hash chain: what it links is the order
  operatorPc,    \* where a thread is: "idle", or between the two halves
  target,        \* the service it works on
  seen           \* the state get_state() returned to it

store == <<serviceState, enabled, events>>
local == <<operatorPc, target, seen>>
lifecycleVars == <<store, local>>

LifecycleStates == {"DRAFT", "ACTIVE", "DEPRECATED", "RETIRED"}
Absent == "NONE"

ValidTransitions ==
  [s \in LifecycleStates \union {Absent} |->
     CASE s = "DRAFT" -> {"ACTIVE"}
       [] s = "ACTIVE" -> {"DEPRECATED", "DRAFT"}
       [] s = "DEPRECATED" -> {"RETIRED", "ACTIVE"}
       [] OTHER -> {}]

Event == [service : Services, register : BOOLEAN,
          from : LifecycleStates \union {Absent}, to : LifecycleStates \union {Absent}]

LifecycleTypeOK ==
  /\ serviceState \in [Services -> LifecycleStates \union {Absent}]
  /\ enabled \in [Services -> BOOLEAN]
  /\ events \in Seq(Event)
  /\ operatorPc \in [Operators -> {"idle", "enabling", "disabling"}]
  /\ target \in [Operators -> Services]
  /\ seen \in [Operators -> LifecycleStates \union {Absent}]

LifecycleInit ==
  /\ serviceState = [s \in Services |-> Absent]
  /\ enabled = [s \in Services |-> TRUE]
  /\ events = <<>>
  /\ operatorPc = [t \in Operators |-> "idle"]
  /\ target \in {[t \in Operators |-> s] : s \in Services}
  /\ seen = [t \in Operators |-> Absent]

(* _record_event(); a disable of an unknown service is recorded as         *)
(* UNKNOWN -> UNKNOWN, here Absent -> Absent.                              *)
Record(s, register, from, to) ==
  /\ Len(events) < MaxEvents
  /\ events' = Append(events, [service |-> s, register |-> register, from |-> from, to |-> to])

(* Mutant of Move: the name of the overlay is written as the state.        *)
MoveOverlay(s, to) ==
  /\ serviceState' = [serviceState EXCEPT ![s] = IF to = "ACTIVE" THEN "ENABLED" ELSE to]
  /\ enabled' = [enabled EXCEPT ![s] = (to = "ACTIVE")]

Move(s, to) ==
  /\ serviceState' = [serviceState EXCEPT ![s] = to]
  /\ enabled' = [enabled EXCEPT ![s] = (to = "ACTIVE")]

-----------------------------------------------------------------------------
(* A service that is already known is overwritten.                         *)
Register(t, s, initial) ==
  /\ operatorPc[t] = "idle"
  /\ Move(s, initial)
  /\ Record(s, TRUE, Absent, initial)
  /\ UNCHANGED local

(* Mutant of DoTransition: the table is not consulted under the lock.      *)
DoAnyTransition(s, to) ==
  /\ serviceState[s] # Absent
  /\ Move(s, to)
  /\ Record(s, FALSE, serviceState[s], to)

(* transition(), where it does not raise                                   *)
DoTransition(s, to) ==
  /\ to \in ValidTransitions[serviceState[s]]
  /\ Move(s, to)
  /\ Record(s, FALSE, serviceState[s], to)

(* deprecate(), retire() and transition() itself                           *)
Transition(t, s, to) ==
  /\ operatorPc[t] = "idle"
  /\ DoTransition(s, to)
  /\ UNCHANGED local

(* enable() and disable() read the state and let go of the lock.           *)
GetState(t, s, next) ==
  /\ operatorPc[t] = "idle"
  /\ operatorPc' = [operatorPc EXCEPT ![t] = next]
  /\ target' = [target EXCEPT ![t] = s]
  /\ seen' = [seen EXCEPT ![t] = serviceState[s]]
  /\ UNCHANGED store

EnableRead(t, s) == GetState(t, s, "enabling")
DisableRead(t, s) == GetState(t, s, "disabling")

Finish(t) ==
  /\ operatorPc' = [operatorPc EXCEPT ![t] = "idle"]
  /\ seen' = [seen EXCEPT ![t] = Absent]
  /\ UNCHANGED target

(* transition() raises ValueError, nothing is recorded.                    *)
Refused(t, to) ==
  /\ to \notin ValidTransitions[serviceState[target[t]]]
  /\ UNCHANGED store

(* Already active when it looked: only the overlay is set.                 *)
EnableOverlay(t) ==
  /\ operatorPc[t] = "enabling" /\ seen[t] = "ACTIVE"
  /\ enabled' = [enabled EXCEPT ![target[t]] = TRUE]
  /\ Record(target[t], FALSE, "ACTIVE", "ACTIVE")
  /\ UNCHANGED serviceState
  /\ Finish(t)

EnableTransition(t) ==
  /\ operatorPc[t] = "enabling" /\ seen[t] # "ACTIVE"
  /\ DoTransition(target[t], "ACTIVE") \/ Refused(t, "ACTIVE")
  /\ Finish(t)

DisableTransition(t) ==
  /\ operatorPc[t] = "disabling" /\ seen[t] = "ACTIVE"
  /\ DoTransition(target[t], "DRAFT") \/ Refused(t, "DRAFT")
  /\ Finish(t)

(* Mutant of DisableOverlay: every disabled service is a draft again.      *)
DisableToDraft(t) ==
  /\ operatorPc[t] = "disabling" /\ seen[t] # "ACTIVE"
  /\ Move(target[t], "DRAFT")
  /\ Record(target[t], FALSE, seen[t], seen[t])
  /\ Finish(t)

DisableOverlay(t) ==
  /\ operatorPc[t] = "disabling" /\ seen[t] # "ACTIVE"
  /\ enabled' = [enabled EXCEPT ![target[t]] = FALSE]
  /\ Record(target[t], FALSE, seen[t], seen[t])
  /\ UNCHANGED serviceState
  /\ Finish(t)

LifecycleNext ==
  \/ \E t \in Operators, s \in Services, to \in LifecycleStates :
       Register(t, s, to) \/ Transition(t, s, to)
  \/ \E t \in Operators, s \in Services : EnableRead(t, s) \/ DisableRead(t, s)
  \/ \E t \in Operators :
       \/ EnableOverlay(t)
       \/ EnableTransition(t)
       \/ DisableTransition(t)
       \/ DisableOverlay(t)

LifecycleSpec == LifecycleInit /\ [][LifecycleNext]_lifecycleVars

-----------------------------------------------------------------------------
(* Whatever the threads do between the two halves of enable() and          *)
(* disable(), a service moves only along VALID_TRANSITIONS, and never out  *)
(* of RETIRED, unless it is registered anew.                               *)
MovesAreValid ==
  [][\A s \in Services :
       serviceState'[s] # serviceState[s] =>
         \/ serviceState'[s] \in ValidTransitions[serviceState[s]]
         \/ events'[Len(events')].register]_lifecycleVars

(* Replaying the moves of a service, and leaving out the events of its     *)
(* overlay, gives its state: each starts where the one before ended,       *)
(* unless it is a registration, and the last ends in the state.            *)
Moves(s) == {k \in 1..Len(events) : events[k].service = s /\ events[k].from # events[k].to}

MovesReplay ==
  \A s \in Services :
    /\ Moves(s) = {} => serviceState[s] = Absent
    /\ \A k \in Moves(s) :
         /\ (\A j \in Moves(s) : j <= k) => serviceState[s] = events[k].to
         /\ \A j \in Moves(s) :
              j > k /\ (\A i \in Moves(s) : i > k => j <= i) =>
                events[j].register \/ events[j].from = events[k].to
=============================================================================
