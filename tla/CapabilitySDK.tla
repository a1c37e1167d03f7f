--------------------------- MODULE CapabilitySDK ---------------------------
(***************************************************************************)
(* platform_capability_sdk.py: threads that invoke one service through one *)
(* PlatformCapabilitySDK, with its circuit breaker, its retries and its    *)
(* evidence chain.  The breaker decides under its lock; between its        *)
(* decision and the recorded outcome are HTTP calls of any length.         *)
(***************************************************************************)
EXTENDS Naturals, FiniteSets

CONSTANTS
  Threads,
  FailureThreshold,   \* SDK_CIRCUIT_BREAKER_THRESHOLD
  ResetTimeout,       \* SDK_CIRCUIT_BREAKER_TIMEOUT, in clock ticks
  MaxRetries,         \* SDK_MAX_RETRIES
  MaxClock            \* bound: the clock stops here

ASSUME SDKAssumption ==
  /\ IsFiniteSet(Threads)
  /\ FailureThreshold \in Nat \ {0}
  /\ ResetTimeout \in Nat /\ MaxRetries \in Nat /\ MaxClock \in Nat

VARIABLES
  clock,         \* time.time()
  state,         \* _state of the breaker
  failures,      \* _failure_count
  lastFailure,   \* _last_failure_time
  pc,            \* where each thread is in invoke_capability()
  attempt,       \* attempt[t]: the attempts of t that have failed
  status,        \* the InvocationResult.status it will return
  wasted         \* history: failed requests since the last success

breaker == <<state, failures, lastFailure>>
call == <<pc, attempt, status>>
vars == <<clock, breaker, call, wasted>>

CircuitState == {"CLOSED", "OPEN", "HALF_OPEN"}
InFlight == {"negotiating", "lookup", "invoking"}
Outcome == {"NONE", "CIRCUIT_OPEN", "VERSION_REJECTED", "SERVICE_NOT_FOUND",
            "FAILED", "SUCCESS"}

TypeOK ==
  /\ clock \in Nat
  /\ state \in CircuitState
  /\ failures \in Nat
  /\ lastFailure \in Nat
  /\ pc \in [Threads -> InFlight \union {"idle", "recording", "returning"}]
  /\ attempt \in [Threads -> 0..MaxRetries]
  /\ status \in [Threads -> Outcome]
  /\ wasted \in Nat

Init ==
  /\ clock = 0
  /\ state = "CLOSED"
  /\ failures = 0
  /\ lastFailure = 0
  /\ pc = [t \in Threads |-> "idle"]
  /\ attempt = [t \in Threads |-> 0]
  /\ status = [t \in Threads |-> "NONE"]
  /\ wasted = 0

-----------------------------------------------------------------------------
(* Mutant of RecordFailure: only the failure that reaches the threshold    *)
(* opens; a later one, of the half-open probe too, closes.                 *)
FailureOnce ==
  /\ failures' = failures + 1
  /\ lastFailure' = clock
  /\ state' = IF failures + 1 = FailureThreshold THEN "OPEN"
              ELSE IF state = "HALF_OPEN" THEN "CLOSED" ELSE state

RecordSuccess ==
  /\ failures' = 0
  /\ state' = "CLOSED"
  /\ UNCHANGED lastFailure

RecordFailure ==
  /\ failures' = failures + 1
  /\ lastFailure' = clock
  /\ state' = IF failures + 1 >= FailureThreshold THEN "OPEN" ELSE state

(* The "state" property: an OPEN breaker half-opens when it is looked at.  *)
Observed ==
  IF state = "OPEN" /\ clock - lastFailure >= ResetTimeout THEN "HALF_OPEN" ELSE state

Goto(t, label) == pc' = [pc EXCEPT ![t] = label]

Answer(t, outcome) ==
  /\ status' = [status EXCEPT ![t] = outcome]
  /\ Goto(t, "returning")

-----------------------------------------------------------------------------
Tick ==
  /\ clock < MaxClock
  /\ clock' = clock + 1
  /\ UNCHANGED <<breaker, call, wasted>>

(* 1. Circuit breaker check                                                *)
AllowRequest(t) ==
  /\ pc[t] = "idle"
  /\ state' = Observed
  /\ IF Observed = "OPEN"
       THEN Answer(t, "CIRCUIT_OPEN")
       ELSE Goto(t, "negotiating") /\ UNCHANGED status
  /\ UNCHANGED <<clock, failures, lastFailure, attempt, wasted>>

(* 2. Version negotiation; an unreachable node is no objection.            *)
Negotiate(t) ==
  /\ pc[t] = "negotiating"
  /\ \/ Answer(t, "VERSION_REJECTED")
     \/ Goto(t, "lookup") /\ UNCHANGED status
  /\ UNCHANGED <<clock, breaker, attempt, wasted>>

(* 3. get_service(); the payload is a dictionary                           *)
ServiceFound(t) ==
  /\ pc[t] = "lookup"
  /\ Goto(t, "invoking")
  /\ UNCHANGED <<clock, breaker, attempt, status, wasted>>

ServiceMissing(t) ==
  /\ pc[t] = "lookup"
  /\ RecordFailure
  /\ Answer(t, "SERVICE_NOT_FOUND")
  /\ UNCHANGED <<clock, attempt, wasted>>

(* 3.5 It is not: the breaker is told nothing.                             *)
PayloadRefused(t) ==
  /\ pc[t] = "lookup"
  /\ Answer(t, "FAILED")
  /\ UNCHANGED <<clock, breaker, attempt, wasted>>

(* 4. One attempt of the retry loop                                        *)
AttemptSucceeds(t) ==
  /\ pc[t] = "invoking"
  /\ RecordSuccess
  /\ status' = [status EXCEPT ![t] = "SUCCESS"]
  /\ Goto(t, "recording")
  /\ wasted' = 0
  /\ UNCHANGED <<clock, attempt>>

(* Mutants of AttemptRetried: one retry too many; a counter that wraps.    *)
RetriedOnceMore(t) ==
  /\ pc[t] = "invoking"
  /\ attempt[t] <= MaxRetries
  /\ attempt' = [attempt EXCEPT ![t] = @ + 1]
  /\ wasted' = wasted + 1
  /\ UNCHANGED <<clock, breaker, pc, status>>

RetriedForEver(t) ==
  /\ pc[t] = "invoking"
  /\ attempt' = [attempt EXCEPT ![t] = (@ + 1) % (MaxRetries + 1)]
  /\ UNCHANGED <<clock, breaker, pc, status, wasted>>

(* It fails and is tried again after the backoff: the breaker is not told. *)
AttemptRetried(t) ==
  /\ pc[t] = "invoking"
  /\ attempt[t] < MaxRetries
  /\ attempt' = [attempt EXCEPT ![t] = @ + 1]
  /\ wasted' = wasted + 1
  /\ UNCHANGED <<clock, breaker, pc, status>>

AttemptExhausted(t) ==
  /\ pc[t] = "invoking"
  /\ attempt[t] >= MaxRetries
  /\ RecordFailure
  /\ status' = [status EXCEPT ![t] = "FAILED"]
  /\ Goto(t, "recording")
  /\ wasted' = wasted + 1
  /\ UNCHANGED <<clock, attempt>>

(* 5. Evidence collection.  Whoever returned before has left no evidence.  *)
CollectEvidence(t) ==
  /\ pc[t] = "recording"
  /\ Goto(t, "returning")
  /\ UNCHANGED <<clock, breaker, attempt, status, wasted>>

Return(t) ==
  /\ pc[t] = "returning"
  /\ Goto(t, "idle")
  /\ attempt' = [attempt EXCEPT ![t] = 0]
  /\ status' = [status EXCEPT ![t] = "NONE"]
  /\ UNCHANGED <<clock, breaker, wasted>>

(* What moves an invocation on: an answer or a time-out of each request.   *)
Invoke(t) ==
  \/ Negotiate(t)
  \/ ServiceFound(t)
  \/ ServiceMissing(t)
  \/ PayloadRefused(t)
  \/ AttemptSucceeds(t)
  \/ AttemptRetried(t)
  \/ AttemptExhausted(t)
  \/ CollectEvidence(t)
  \/ Return(t)

Next == Tick \/ \E t \in Threads : AllowRequest(t) \/ Invoke(t)

Spec == Init /\ [][Next]_vars

(* Every request has a time-out and every backoff an end; nobody has to    *)
(* call, and the clock may stop.                                           *)
FairSpec == Spec /\ \A t \in Threads : WF_vars(Invoke(t))

-----------------------------------------------------------------------------
(* The breaker is closed exactly while its count is below the threshold,   *)
(* however late the outcomes of older calls arrive: a half-open breaker    *)
(* never stays so after a failure.                                         *)
CountsMatchState == state = "CLOSED" <=> failures < FailureThreshold

(* What a dead service can cost: with the breaker closed there have been   *)
(* no more than (threshold - 1) exhausted calls and the retries of those   *)
(* in flight, since retries are not told to the breaker.                   *)
RetryStormBounded ==
  state = "CLOSED" =>
    wasted <= (FailureThreshold - 1) * (MaxRetries + 1) + Cardinality(Threads) * MaxRetries

(* invoke_capability() returns.                                            *)
InvocationEnds == \A t \in Threads : pc[t] \in InFlight ~> pc[t] = "idle"
=============================================================================
