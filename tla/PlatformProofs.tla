---------------------------- MODULE PlatformProofs ----------------------------
(***************************************************************************)
(* The platform's two lock-guarded objects.  The circuit breaker of the    *)
(* SDK, for every number of threads, threshold, time-out and number of     *)
(* retries; and the lifecycle manager, for every number of services and    *)
(* operators and chains of evidence of any length.                         *)
(***************************************************************************)
EXTENDS CapabilitySDK, LifecycleManager, FiniteSetTheorems, SequenceTheorems, TLAPS

(* The breaker's fields and the attempt counters keep their types.         *)
THEOREM TypeCorrect == Spec => []TypeOK
<1> USE SDKAssumption DEF TypeOK, CircuitState, InFlight, Outcome
<1>1. Init => TypeOK
  BY DEF Init
<1>2. TypeOK /\ [Next]_vars => TypeOK'
  <2> SUFFICES ASSUME TypeOK, [Next]_vars PROVE TypeOK'
    OBVIOUS
  <2> USE DEF Goto, Answer, breaker, call
  <2>1. CASE Tick
    BY <2>1 DEF Tick
  <2>2. ASSUME NEW t \in Threads, AllowRequest(t) PROVE TypeOK'
    BY <2>2 DEF AllowRequest, Observed
  <2>3. ASSUME NEW t \in Threads, Negotiate(t) PROVE TypeOK'
    BY <2>3 DEF Negotiate
  <2>4. ASSUME NEW t \in Threads, ServiceFound(t) PROVE TypeOK'
    BY <2>4 DEF ServiceFound
  <2>5. ASSUME NEW t \in Threads, ServiceMissing(t) PROVE TypeOK'
    BY <2>5 DEF ServiceMissing, RecordFailure
  <2>6. ASSUME NEW t \in Threads, AttemptSucceeds(t) PROVE TypeOK'
    BY <2>6 DEF AttemptSucceeds, RecordSuccess
  <2>7. ASSUME NEW t \in Threads, AttemptRetried(t) PROVE TypeOK'
    BY <2>7 DEF AttemptRetried
  <2>8. ASSUME NEW t \in Threads, AttemptExhausted(t) PROVE TypeOK'
    BY <2>8 DEF AttemptExhausted, RecordFailure
  <2>9. ASSUME NEW t \in Threads, CollectEvidence(t) PROVE TypeOK'
    BY <2>9 DEF CollectEvidence
  <2>10. ASSUME NEW t \in Threads, Return(t) PROVE TypeOK'
    BY <2>10 DEF Return
  <2>11. CASE UNCHANGED vars
    BY <2>11 DEF vars
  <2>12. ASSUME NEW t \in Threads, PayloadRefused(t) PROVE TypeOK'
    BY <2>12 DEF PayloadRefused, Answer, Goto, breaker
  <2> QED
    BY <2>1, <2>2, <2>3, <2>4, <2>5, <2>6, <2>7, <2>8, <2>9, <2>10, <2>11, <2>12 DEF Next, Invoke
<1> QED
  BY <1>1, <1>2, PTL DEF Spec

(* No order of late successes, late failures and probes leaves the breaker *)
(* half-open after a failure, closed at its threshold or open below it.    *)
THEOREM BreakerConsistent == Spec => []CountsMatchState
<1> USE SDKAssumption DEF CountsMatchState
<1>1. Init => CountsMatchState
  BY DEF Init
<1>2. TypeOK /\ CountsMatchState /\ [Next]_vars => CountsMatchState'
  <2> SUFFICES ASSUME TypeOK, CountsMatchState, [Next]_vars PROVE CountsMatchState'
    OBVIOUS
  <2>1. failures \in Nat /\ FailureThreshold \in Nat /\ FailureThreshold > 0
    BY DEF TypeOK
  <2>2. ASSUME UNCHANGED <<state, failures>> PROVE CountsMatchState'
    BY <2>2
  <2>3. ASSUME RecordFailure PROVE CountsMatchState'
    BY <2>1, <2>3 DEF RecordFailure
  <2>4. ASSUME RecordSuccess PROVE CountsMatchState'
    BY <2>1, <2>4 DEF RecordSuccess
  <2>5. ASSUME NEW t \in Threads, AllowRequest(t) PROVE CountsMatchState'
    BY <2>5 DEF AllowRequest, Observed
  <2>6. ASSUME NEW t \in Threads, Invoke(t) PROVE CountsMatchState'
    BY <2>2, <2>3, <2>4, <2>6 DEF Invoke, Negotiate, ServiceFound, ServiceMissing,
       PayloadRefused, AttemptSucceeds, AttemptRetried, AttemptExhausted, CollectEvidence, Return, breaker
  <2>7. CASE Tick
    BY <2>2, <2>7 DEF Tick, breaker
  <2>8. CASE UNCHANGED vars
    BY <2>2, <2>8 DEF vars, breaker
  <2> QED
    BY <2>5, <2>6, <2>7, <2>8 DEF Next
<1> QED
  BY <1>1, <1>2, TypeCorrect, PTL DEF Spec

-----------------------------------------------------------------------------
(* The retries of the calls in flight, one pair for each: what the failed  *)
(* requests cost above the failures the breaker has been told of.          *)
Slots == Threads \X (1..MaxRetries)
Pending == {a \in Slots : pc[a[1]] = "invoking" /\ a[2] <= attempt[a[1]]}

Budget(reported, retries) == reported * (MaxRetries + 1) + retries

WasteInv == wasted <= Budget(failures, Cardinality(Pending))

(* Each thread has MaxRetries slots.                                       *)
LEMMA SlotsCounted ==
  /\ IsFiniteSet(Slots)
  /\ Cardinality(Threads) \in Nat
  /\ Cardinality(Slots) = Cardinality(Threads) * MaxRetries
  /\ \A t \in Threads : IsFiniteSet({t} \X (1..MaxRetries))
                       /\ Cardinality({t} \X (1..MaxRetries)) = MaxRetries
<1>1. MaxRetries \in Nat /\ IsFiniteSet(Threads) /\ Cardinality(Threads) \in Nat
  BY SDKAssumption, FS_CardinalityType
<1>2. IsFiniteSet(1..MaxRetries) /\ Cardinality(1..MaxRetries) = MaxRetries
  <2>1. ASSUME NEW n \in Nat PROVE IsFiniteSet(1..n) /\ Cardinality(1..n) = n
    <3>1. IsFiniteSet(1..n) /\ Cardinality(1..n) = IF 1 > n THEN 0 ELSE n - 1 + 1
      BY FS_Interval
    <3> QED
      BY <3>1
  <2> QED
    BY <1>1, <2>1
<1>3. IsFiniteSet(Slots) /\ Cardinality(Slots) = Cardinality(Threads) * MaxRetries
  BY <1>1, <1>2, FS_Product DEF Slots
<1>4. ASSUME NEW t \in Threads
      PROVE  /\ IsFiniteSet({t} \X (1..MaxRetries))
             /\ Cardinality({t} \X (1..MaxRetries)) = MaxRetries
  <2>1. IsFiniteSet({t}) /\ Cardinality({t}) = 1
    BY FS_Singleton
  <2>2. ASSUME NEW S, NEW T, IsFiniteSet(S), IsFiniteSet(T)
        PROVE  IsFiniteSet(S \X T) /\ Cardinality(S \X T) = Cardinality(S) * Cardinality(T)
    BY <2>2, FS_Product
  <2>3. /\ IsFiniteSet({t} \X (1..MaxRetries))
        /\ Cardinality({t} \X (1..MaxRetries)) = Cardinality({t}) * Cardinality(1..MaxRetries)
    BY <1>2, <2>1, <2>2, Zenon
  <2> QED
    BY <1>1, <1>2, <2>1, <2>3
<1> QED
  BY <1>1, <1>3, <1>4

LEMMA PendingCounted ==
  /\ IsFiniteSet(Pending) /\ Cardinality(Pending) \in Nat
  /\ Cardinality(Pending) <= Cardinality(Threads) * MaxRetries
<1>1. Pending \in SUBSET Slots
  BY DEF Pending
<1> QED
  BY <1>1, SlotsCounted, FS_Subset, FS_CardinalityType

(* A set is no larger than two sets that cover it.                         *)
LEMMA Covered ==
  ASSUME NEW S, NEW A, NEW B, IsFiniteSet(A), IsFiniteSet(B), S \subseteq A \union B
  PROVE  Cardinality(S) <= Cardinality(A) + Cardinality(B)
<1>1. /\ IsFiniteSet(A \union B)
      /\ Cardinality(A \union B) = Cardinality(A) + Cardinality(B) - Cardinality(A \intersect B)
  BY FS_Union
<1>2. IsFiniteSet(A \intersect B)
  BY FS_Intersection
<1>3. /\ Cardinality(A) \in Nat /\ Cardinality(B) \in Nat
      /\ Cardinality(A \intersect B) \in Nat
  BY <1>2, FS_CardinalityType
<1>4. Cardinality(S) <= Cardinality(A \union B) /\ Cardinality(S) \in Nat
  BY <1>1, FS_Subset, FS_CardinalityType
<1> QED
  BY <1>1, <1>3, <1>4

LEMMA BudgetGrows ==
  ASSUME NEW f \in Nat, NEW g \in Nat, NEW n \in Nat, f <= g
  PROVE  /\ Budget(f, n) <= Budget(g, n)
         /\ Budget(f + 1, n) = Budget(f, n) + MaxRetries + 1
         /\ Budget(f, n) \in Nat
<1>1. MaxRetries + 1 \in Nat
  BY SDKAssumption
<1>2. ASSUME NEW k \in Nat
      PROVE /\ f * k <= g * k
            /\ (f + 1) * k = f * k + k
            /\ f * k \in Nat /\ g * k \in Nat
  OBVIOUS
<1> QED
  BY <1>1, <1>2, SDKAssumption DEF Budget

(* Nothing is wasted and no retry is forgotten.                            *)
LEMMA WasteKept ==
  ASSUME WasteInv, TypeOK, TypeOK',
         wasted' = wasted, failures' >= failures, Pending \subseteq Pending'
  PROVE  WasteInv'
<1>1. /\ IsFiniteSet(Pending) /\ Cardinality(Pending) \in Nat
      /\ IsFiniteSet(Pending') /\ Cardinality(Pending') \in Nat
  <2>1. Pending' \in SUBSET Slots
    BY DEF Pending
  <2> QED
    BY <2>1, PendingCounted, SlotsCounted, FS_Subset, FS_CardinalityType
<1>2. Cardinality(Pending) <= Cardinality(Pending')
  BY <1>1, FS_Subset
<1>3. failures \in Nat /\ failures' \in Nat /\ wasted \in Nat
  BY DEF TypeOK
<1>4. Budget(failures, Cardinality(Pending)) <= Budget(failures', Cardinality(Pending))
  BY <1>1, <1>3, BudgetGrows
<1> DEFINE n == Cardinality(Pending)
           m == Cardinality(Pending')
           k == failures' * (MaxRetries + 1)
<1>5. k \in Nat
  <2>1. \A x, y \in Nat : x * y \in Nat
    OBVIOUS
  <2>2. MaxRetries + 1 \in Nat
    BY SDKAssumption
  <2> QED
    BY <1>3, <2>1, <2>2
<1>6. Budget(failures', n) = k + n /\ Budget(failures', m) = k + m
  BY DEF Budget
<1>7. Budget(failures, n) \in Nat
  BY <1>1, <1>3, BudgetGrows
<1> HIDE DEF n, m, k
<1>8. wasted <= Budget(failures, n) /\ Budget(failures, n) <= k + n /\ n <= m /\ n \in Nat /\ m \in Nat
  BY <1>1, <1>2, <1>4, <1>6 DEF n, m, WasteInv
<1>9. wasted' <= k + m
  BY <1>3, <1>5, <1>7, <1>8
<1> QED
  BY <1>6, <1>9 DEF WasteInv, m

LEMMA WasteStep ==
  ASSUME TypeOK, TypeOK', WasteInv, [Next]_vars PROVE WasteInv'
<1> USE SDKAssumption DEF TypeOK, InFlight, Outcome, CircuitState, Goto, Answer, breaker, call
<1>0. /\ wasted \in Nat /\ wasted' \in Nat /\ failures \in Nat /\ failures' \in Nat
      /\ IsFiniteSet(Pending) /\ Cardinality(Pending) \in Nat
      /\ IsFiniteSet(Pending') /\ Cardinality(Pending') \in Nat
  <2>1. Pending' \in SUBSET Slots
    BY DEF Pending
  <2> QED
    BY <2>1, PendingCounted, SlotsCounted, FS_Subset, FS_CardinalityType
<1>1. ASSUME NEW t \in Threads, AllowRequest(t) PROVE WasteInv'
  <2>1. Pending \subseteq Pending'
    BY <1>1 DEF AllowRequest, Pending, Slots
  <2> QED
    BY <1>0, <1>1, <2>1, WasteKept DEF AllowRequest
<1>2. ASSUME NEW t \in Threads, Negotiate(t) PROVE WasteInv'
  <2>1. Pending \subseteq Pending'
    BY <1>2 DEF Negotiate, Pending, Slots
  <2> QED
    BY <1>0, <1>2, <2>1, WasteKept DEF Negotiate
<1>3. ASSUME NEW t \in Threads, ServiceFound(t) PROVE WasteInv'
  <2>1. Pending \subseteq Pending'
    BY <1>3 DEF ServiceFound, Pending, Slots
  <2> QED
    BY <1>0, <1>3, <2>1, WasteKept DEF ServiceFound
<1>4. ASSUME NEW t \in Threads, ServiceMissing(t) PROVE WasteInv'
  <2>1. Pending \subseteq Pending'
    BY <1>4 DEF ServiceMissing, Pending, Slots
  <2> QED
    BY <1>0, <1>4, <2>1, WasteKept DEF ServiceMissing, RecordFailure
<1>5. ASSUME NEW t \in Threads, AttemptSucceeds(t) PROVE WasteInv'
  <2>1. wasted' = 0
    BY <1>5 DEF AttemptSucceeds
  <2>2. Budget(failures', Cardinality(Pending')) \in Nat
    BY <1>0, BudgetGrows
  <2> QED
    BY <2>1, <2>2 DEF WasteInv
<1>6. ASSUME NEW t \in Threads, AttemptRetried(t) PROVE WasteInv'
  <2> DEFINE a == <<t, attempt[t] + 1>>
  <2>1. /\ pc[t] = "invoking" /\ attempt[t] < MaxRetries
        /\ attempt' = [attempt EXCEPT ![t] = attempt[t] + 1]
        /\ wasted' = wasted + 1
        /\ UNCHANGED <<pc, failures>>
    BY <1>6 DEF AttemptRetried
  <2>2. a \in Slots /\ a \notin Pending /\ a \in Pending'
    BY <2>1 DEF Slots, Pending
  <2>3. Pending \union {a} \subseteq Pending'
    BY <2>1, <2>2 DEF Pending, Slots
  <2> HIDE DEF a
  <2>4. IsFiniteSet(Pending \union {a}) /\ Cardinality(Pending \union {a}) = Cardinality(Pending) + 1
    BY <1>0, <2>2, FS_AddElement
  <2>5. Cardinality(Pending) + 1 <= Cardinality(Pending')
    BY <1>0, <2>3, <2>4, FS_Subset
  <2> DEFINE n == Cardinality(Pending)
             m == Cardinality(Pending')
             k == failures * (MaxRetries + 1)
  <2>6. k \in Nat
    BY <1>0
  <2>7. wasted <= k + n
    BY DEF WasteInv, Budget
  <2>8. n \in Nat /\ m \in Nat /\ n + 1 <= m
    BY <1>0, <2>5
  <2> HIDE DEF n, m, k
  <2>9. wasted' <= k + m
    BY <1>0, <2>1, <2>6, <2>7, <2>8
  <2> QED
    BY <2>1, <2>9 DEF WasteInv, Budget, k, m
<1>7. ASSUME NEW t \in Threads, AttemptExhausted(t) PROVE WasteInv'
  <2> DEFINE mine == {t} \X (1..MaxRetries)
  <2>1. /\ failures' = failures + 1
        /\ wasted' = wasted + 1
        /\ pc' = [pc EXCEPT ![t] = "recording"]
        /\ UNCHANGED attempt
    BY <1>7 DEF AttemptExhausted, RecordFailure
  <2>2. Pending \subseteq Pending' \union mine
    BY <2>1 DEF Pending, Slots
  <2>3. IsFiniteSet(mine) /\ Cardinality(mine) = MaxRetries
    BY SlotsCounted
  <2>4. Cardinality(Pending) <= Cardinality(Pending') + MaxRetries
    BY <1>0, <2>2, <2>3, Covered
  <2>5. Budget(failures + 1, Cardinality(Pending'))
          = Budget(failures, Cardinality(Pending')) + MaxRetries + 1
    BY <1>0, BudgetGrows
  <2> DEFINE n == Cardinality(Pending)
             m == Cardinality(Pending')
             k == failures * (MaxRetries + 1)
  <2>6. k \in Nat
    BY <1>0
  <2>7. wasted <= k + n /\ Budget(failures, m) = k + m
    BY DEF WasteInv, Budget
  <2>8. n \in Nat /\ m \in Nat /\ n <= m + MaxRetries
    BY <1>0, <2>4
  <2> HIDE DEF n, m, k
  <2>9. wasted + 1 <= k + m + MaxRetries + 1
    BY <1>0, <2>6, <2>7, <2>8
  <2>10. Budget(failures + 1, m) = k + m + MaxRetries + 1
    BY <2>5, <2>7 DEF m
  <2> QED
    BY <2>1, <2>9, <2>10 DEF WasteInv, m
<1>8. ASSUME NEW t \in Threads, CollectEvidence(t) PROVE WasteInv'
  <2>1. Pending \subseteq Pending'
    BY <1>8 DEF CollectEvidence, Pending, Slots
  <2> QED
    BY <1>0, <1>8, <2>1, WasteKept DEF CollectEvidence
<1>9. ASSUME NEW t \in Threads, Return(t) PROVE WasteInv'
  <2>1. Pending \subseteq Pending'
    BY <1>9 DEF Return, Pending, Slots
  <2> QED
    BY <1>0, <1>9, <2>1, WasteKept DEF Return
<1>10. CASE Tick \/ UNCHANGED vars
  <2>1. Pending \subseteq Pending'
    BY <1>10 DEF Tick, Pending, vars
  <2> QED
    BY <1>0, <1>10, <2>1, WasteKept DEF Tick, vars
<1>11. ASSUME NEW t \in Threads, PayloadRefused(t) PROVE WasteInv'
  <2>1. Pending \subseteq Pending'
    BY <1>11 DEF PayloadRefused, Answer, Goto, Pending, Slots
  <2> QED
    BY <1>0, <1>11, <2>1, WasteKept DEF PayloadRefused
<1> QED
  BY <1>1, <1>2, <1>3, <1>4, <1>5, <1>6, <1>7, <1>8, <1>9, <1>10, <1>11 DEF Next, Invoke

(* While the breaker is closed it has been told of fewer failures than its *)
(* threshold, and each of the calls in flight has its retries.             *)
LEMMA WasteBounds == TypeOK /\ CountsMatchState /\ WasteInv => RetryStormBounded
<1> SUFFICES ASSUME TypeOK, CountsMatchState, WasteInv, state = "CLOSED"
             PROVE  wasted <= Budget(FailureThreshold - 1, Cardinality(Threads) * MaxRetries)
  BY DEF RetryStormBounded, Budget
<1>1. /\ failures \in Nat /\ wasted \in Nat /\ FailureThreshold - 1 \in Nat
      /\ failures <= FailureThreshold - 1
  BY SDKAssumption DEF TypeOK, CountsMatchState
<1> DEFINE n == Cardinality(Pending)
           m == Cardinality(Threads) * MaxRetries
           k == (FailureThreshold - 1) * (MaxRetries + 1)
<1>2. n \in Nat /\ n <= m /\ m \in Nat
  BY PendingCounted, SlotsCounted, FS_CardinalityType
<1>3. wasted <= Budget(failures, n)
  BY DEF WasteInv
<1>4. Budget(failures, n) <= Budget(FailureThreshold - 1, n) /\ Budget(failures, n) \in Nat
  BY <1>1, <1>2, BudgetGrows
<1>5. k \in Nat
  BY <1>1, SDKAssumption
<1>6. Budget(FailureThreshold - 1, n) = k + n /\ Budget(FailureThreshold - 1, m) = k + m
  BY DEF Budget
<1> HIDE DEF n, m, k
<1>7. wasted <= k + m
  BY <1>1, <1>2, <1>3, <1>4, <1>5, <1>6
<1> QED
  BY <1>6, <1>7 DEF m

(* What a dead service costs while the breaker does not know: threshold    *)
(* less one failures of MaxRetries + 1 requests each, and the retries of   *)
(* as many calls as there are threads, whatever order they end in.         *)
THEOREM WasteCorrect == Spec => []RetryStormBounded
<1>1. Init => WasteInv
  <2> SUFFICES ASSUME Init PROVE WasteInv
    OBVIOUS
  <2>1. Budget(0, Cardinality(Pending)) \in Nat
    BY PendingCounted, BudgetGrows
  <2> QED
    BY <2>1 DEF Init, WasteInv
<1>2. TypeOK /\ TypeOK' /\ WasteInv /\ [Next]_vars => WasteInv'
  BY WasteStep
<1> QED
  BY <1>1, <1>2, WasteBounds, TypeCorrect, BreakerConsistent, PTL DEF Spec

-----------------------------------------------------------------------------
(* The lifecycle manager                                                   *)

LifecycleStep == [LifecycleNext]_lifecycleVars

(* No service moves to where it is.                                        *)
LEMMA TransitionsMove ==
  ASSUME NEW from \in LifecycleStates \union {Absent},
         NEW to \in ValidTransitions[from]
  PROVE  to \in LifecycleStates /\ to # from
BY DEF ValidTransitions, LifecycleStates, Absent

LEMMA EventRecorded ==
  ASSUME LifecycleTypeOK, NEW s \in Services, NEW register \in BOOLEAN,
         NEW from \in LifecycleStates \union {Absent},
         NEW to \in LifecycleStates \union {Absent},
         Record(s, register, from, to)
  PROVE  /\ events' \in Seq(Event)
         /\ Len(events) \in Nat /\ Len(events') = Len(events) + 1
         /\ \A k \in 1..Len(events) : events'[k] = events[k]
         /\ events'[Len(events) + 1]
              = [service |-> s, register |-> register, from |-> from, to |-> to]
<1> DEFINE e == [service |-> s, register |-> register, from |-> from, to |-> to]
<1>1. e \in Event
  BY DEF Event
<1>2. events' = Append(events, e) /\ events \in Seq(Event)
  BY DEF Record, LifecycleTypeOK
<1> HIDE DEF e
<1>3. /\ events' \in Seq(Event)
      /\ Len(events) \in Nat /\ Len(events') = Len(events) + 1
      /\ \A k \in 1..Len(events) : events'[k] = events[k]
      /\ events'[Len(events) + 1] = e
  BY <1>1, <1>2, AppendProperties, LenProperties
<1> QED
  BY <1>3 DEF e

(* What a step does to the services and to the chain of evidence.          *)
LEMMA LifecycleSteps ==
  ASSUME LifecycleTypeOK, LifecycleStep
  PROVE  \/ UNCHANGED <<serviceState, events>>
         \/ \E s \in Services, to \in LifecycleStates :
              /\ Move(s, to)
              /\ \/ Record(s, TRUE, Absent, to)
                 \/ /\ to \in ValidTransitions[serviceState[s]]
                    /\ Record(s, FALSE, serviceState[s], to)
         \/ \E s \in Services, at \in LifecycleStates \union {Absent} :
              /\ Record(s, FALSE, at, at)
              /\ UNCHANGED serviceState
<1> USE DEF store
<1>1. ASSUME NEW t \in Operators, NEW s \in Services, NEW to \in LifecycleStates,
             Register(t, s, to)
      PROVE  Move(s, to) /\ Record(s, TRUE, Absent, to)
  BY <1>1 DEF Register
<1>2. ASSUME NEW s \in Services, NEW to, DoTransition(s, to)
      PROVE  /\ to \in LifecycleStates
             /\ Move(s, to)
             /\ to \in ValidTransitions[serviceState[s]]
             /\ Record(s, FALSE, serviceState[s], to)
  <2>1. serviceState[s] \in LifecycleStates \union {Absent}
    BY DEF LifecycleTypeOK
  <2> QED
    BY <1>2, <2>1, TransitionsMove DEF DoTransition
<1>3. ASSUME NEW t \in Operators, NEW s \in Services,
             EnableRead(t, s) \/ DisableRead(t, s)
      PROVE  UNCHANGED <<serviceState, events>>
  BY <1>3 DEF EnableRead, DisableRead, GetState
<1>4. ASSUME NEW t \in Operators
      PROVE  /\ target[t] \in Services
             /\ seen[t] \in LifecycleStates \union {Absent}
  BY DEF LifecycleTypeOK
<1>5. ASSUME NEW t \in Operators, EnableOverlay(t)
      PROVE  /\ Record(target[t], FALSE, "ACTIVE", "ACTIVE")
             /\ "ACTIVE" \in LifecycleStates
             /\ UNCHANGED serviceState
  BY <1>5 DEF EnableOverlay, LifecycleStates
<1>6. ASSUME NEW t \in Operators, DisableOverlay(t)
      PROVE  Record(target[t], FALSE, seen[t], seen[t]) /\ UNCHANGED serviceState
  BY <1>6 DEF DisableOverlay
<1>7. ASSUME NEW t \in Operators,
             EnableTransition(t) \/ DisableTransition(t)
      PROVE  \/ UNCHANGED <<serviceState, events>>
             \/ \E to : DoTransition(target[t], to)
  BY <1>7 DEF EnableTransition, DisableTransition, Refused
<1>8. ASSUME NEW t \in Operators, NEW s \in Services, NEW to \in LifecycleStates,
             Transition(t, s, to)
      PROVE  DoTransition(s, to)
  BY <1>8 DEF Transition
<1>9. CASE UNCHANGED lifecycleVars
  BY <1>9 DEF lifecycleVars
<1> QED
  BY <1>1, <1>2, <1>3, <1>4, <1>5, <1>6, <1>7, <1>8, <1>9 DEF LifecycleStep, LifecycleNext

LEMMA LifecycleTyped ==
  ASSUME LifecycleTypeOK, LifecycleStep PROVE LifecycleTypeOK'
<1> USE DEF LifecycleTypeOK
<1> DEFINE StoreTyped ==
      /\ serviceState' \in [Services -> LifecycleStates \union {Absent}]
      /\ events' \in Seq(Event)
<1>1. StoreTyped
  <2>1. ASSUME NEW s \in Services, NEW to \in LifecycleStates, Move(s, to)
        PROVE  serviceState' \in [Services -> LifecycleStates \union {Absent}]
    BY <2>1 DEF Move
  <2>2. ASSUME NEW s \in Services, NEW register \in BOOLEAN,
               NEW from \in LifecycleStates \union {Absent},
               NEW to \in LifecycleStates \union {Absent},
               Record(s, register, from, to)
        PROVE  events' \in Seq(Event)
    BY <2>2, EventRecorded
  <2>3. CASE UNCHANGED <<serviceState, events>>
    BY <2>3
  <2>4. ASSUME NEW s \in Services, NEW to \in LifecycleStates,
               Move(s, to),
               \/ Record(s, TRUE, Absent, to)
               \/ Record(s, FALSE, serviceState[s], to)
        PROVE  StoreTyped
    BY <2>1, <2>2, <2>4
  <2>5. ASSUME NEW s \in Services, NEW at \in LifecycleStates \union {Absent},
               Record(s, FALSE, at, at), UNCHANGED serviceState
        PROVE  StoreTyped
    BY <2>2, <2>5
  <2> QED
    BY <2>3, <2>4, <2>5, LifecycleSteps
<1>2. enabled' \in [Services -> BOOLEAN]
  BY DEF LifecycleStep, LifecycleNext, Register, Transition,
     DoTransition, Move, EnableRead, DisableRead,
     GetState, EnableOverlay, EnableTransition,
     DisableTransition, DisableOverlay, Refused,
     store, lifecycleVars
<1> DEFINE LocalTyped ==
      /\ operatorPc' \in [Operators -> {"idle", "enabling", "disabling"}]
      /\ target' \in [Operators -> Services]
      /\ seen' \in [Operators -> LifecycleStates \union {Absent}]
<1>3. LocalTyped
  <2>1. ASSUME NEW t \in Operators, NEW s \in Services, NEW next \in {"enabling", "disabling"},
               GetState(t, s, next)
        PROVE  LocalTyped
    BY <2>1 DEF GetState
  <2>2. ASSUME NEW t \in Operators, Finish(t) PROVE LocalTyped
    BY <2>2 DEF Finish
  <2>3. CASE UNCHANGED local
    BY <2>3 DEF local
  <2> HIDE DEF LocalTyped
  <2> QED
    BY <2>1, <2>2, <2>3 DEF LifecycleStep, LifecycleNext, Register,
       Transition, EnableRead, DisableRead,
       EnableOverlay, EnableTransition, DisableTransition,
       DisableOverlay, lifecycleVars
<1> QED
  BY <1>1, <1>2, <1>3

(* The two dictionaries, the chain of evidence and what the operators have *)
(* read keep their types.                                                  *)
THEOREM LifecycleTypeCorrect == LifecycleSpec => []LifecycleTypeOK
<1>1. LifecycleInit => LifecycleTypeOK
  <2> SUFFICES ASSUME LifecycleInit PROVE LifecycleTypeOK
    OBVIOUS
  <2>1. target \in [Operators -> Services] /\ events \in Seq(Event)
    BY EmptySeq DEF LifecycleInit
  <2> QED
    BY <2>1 DEF LifecycleInit, LifecycleTypeOK
<1>2. LifecycleTypeOK /\ [LifecycleNext]_lifecycleVars => LifecycleTypeOK'
  BY LifecycleTyped DEF LifecycleStep
<1> QED
  BY <1>1, <1>2, PTL DEF LifecycleSpec

(* An operator that acts on a state another has changed since is refused   *)
(* or moves the service along the table, never out of RETIRED.             *)
THEOREM LifecycleMovesAreValid == LifecycleSpec => MovesAreValid
<1> DEFINE Valid ==
      \A s \in Services :
        serviceState'[s] # serviceState[s] =>
          \/ serviceState'[s] \in ValidTransitions[serviceState[s]]
          \/ events'[Len(events')].register
<1>1. ASSUME LifecycleTypeOK, LifecycleStep PROVE Valid
  <2>1. CASE UNCHANGED serviceState
    BY <2>1
  <2>2. ASSUME NEW s \in Services, NEW to \in LifecycleStates,
               Move(s, to), Record(s, TRUE, Absent, to)
        PROVE  Valid
    <3>1. /\ Len(events') = Len(events) + 1
          /\ events'[Len(events) + 1]
               = [service |-> s, register |-> TRUE, from |-> Absent, to |-> to]
      <4>1. /\ to \in LifecycleStates \union {Absent}
            /\ Absent \in LifecycleStates \union {Absent}
            /\ TRUE \in BOOLEAN
        OBVIOUS
      <4> QED
        BY <1>1, <2>2, <4>1, EventRecorded
    <3>2. events'[Len(events')].register
      BY <3>1
    <3> QED
      BY <3>2
  <2>3. ASSUME NEW s \in Services, NEW to \in ValidTransitions[serviceState[s]],
               Move(s, to)
        PROVE  Valid
    BY <1>1, <2>3 DEF Move, LifecycleTypeOK
  <2> QED
    BY <1>1, <2>1, <2>2, <2>3, LifecycleSteps
<1>2. LifecycleTypeOK /\ [LifecycleNext]_lifecycleVars => [Valid]_lifecycleVars
  BY <1>1 DEF LifecycleStep
<1> QED
  BY <1>2, LifecycleTypeCorrect, PTL DEF LifecycleSpec, MovesAreValid

(* One more event, of service s: the moves of the others stay, those of s  *)
(* get one more if it is a move.                                           *)
LEMMA MovesRecorded ==
  ASSUME LifecycleTypeOK, NEW s \in Services, NEW register \in BOOLEAN,
         NEW from \in LifecycleStates \union {Absent},
         NEW to \in LifecycleStates \union {Absent},
         Record(s, register, from, to)
  PROVE  \A x \in Services :
           Moves(x)' = Moves(x) \union
             (IF x = s /\ from # to THEN {Len(events) + 1} ELSE {})
<1> TAKE x \in Services
<1>1. /\ Len(events) \in Nat /\ Len(events') = Len(events) + 1
      /\ \A k \in 1..Len(events) : events'[k] = events[k]
      /\ events'[Len(events) + 1]
           = [service |-> s, register |-> register, from |-> from, to |-> to]
  BY EventRecorded
<1> DEFINE n == Len(events)
<1>2. \A k : k \in 1..(n + 1) <=> k \in 1..n \/ k = n + 1
  BY <1>1
<1>3. \A k : k \in Moves(x)' <=>
             \/ k \in 1..n /\ events[k].service = x /\ events[k].from # events[k].to
             \/ k = n + 1 /\ s = x /\ from # to
  <2>1. \A k : k \in Moves(x)' <=>
               k \in 1..(n + 1) /\ events'[k].service = x /\ events'[k].from # events'[k].to
    BY <1>1 DEF Moves
  <2>2. /\ events'[n + 1].service = s
        /\ events'[n + 1].from = from
        /\ events'[n + 1].to = to
    BY <1>1
  <2>3. \A k \in 1..n : events'[k] = events[k]
    BY <1>1
  <2> HIDE DEF n
  <2> QED
    BY <1>2, <2>1, <2>2, <2>3
<1> QED
  BY <1>3 DEF Moves

LEMMA ReplayStep ==
  ASSUME LifecycleTypeOK, MovesReplay, LifecycleStep
  PROVE  MovesReplay'
<1> DEFINE n == Len(events)
<1>0. /\ n \in Nat
      /\ \A x \in Services : \A k \in Moves(x) : k \in 1..n
  BY LenProperties DEF LifecycleTypeOK, Moves
<1>1. CASE UNCHANGED <<serviceState, events>>
  BY <1>1 DEF MovesReplay, Moves
<1>2. ASSUME NEW s \in Services, NEW at \in LifecycleStates \union {Absent},
             Record(s, FALSE, at, at), UNCHANGED serviceState
      PROVE  MovesReplay'
  <2>1. \A x \in Services : Moves(x)' = Moves(x)
    <3>1. \A x \in Services :
            Moves(x)' = Moves(x) \union
              (IF x = s /\ at # at THEN {n + 1} ELSE {})
      BY <1>2, MovesRecorded
    <3> QED
      BY <3>1
  <2>2. \A k \in 1..n : events'[k] = events[k]
    BY <1>2, EventRecorded
  <2> HIDE DEF n
  <2> QED
    BY <1>0, <1>2, <2>1, <2>2 DEF MovesReplay
<1>3. ASSUME NEW s \in Services, NEW to \in LifecycleStates, NEW register \in BOOLEAN,
             NEW from \in LifecycleStates \union {Absent},
             Move(s, to), Record(s, register, from, to), from # to,
             register \/ from = serviceState[s]
      PROVE  MovesReplay'
  <2>1. /\ \A k \in 1..n : events'[k] = events[k]
        /\ events'[n + 1] = [service |-> s, register |-> register, from |-> from, to |-> to]
    BY <1>3, EventRecorded
  <2>2. /\ events'[n + 1].register = register
        /\ events'[n + 1].from = from
        /\ events'[n + 1].to = to
    BY <2>1
  <2>3. /\ Moves(s)' = Moves(s) \union {n + 1}
        /\ \A x \in Services \ {s} : Moves(x)' = Moves(x)
    <3>1. \A x \in Services :
            Moves(x)' = Moves(x) \union
              (IF x = s /\ from # to THEN {n + 1} ELSE {})
      BY <1>3, MovesRecorded
    <3> QED
      BY <1>3, <3>1
  <2>4. /\ serviceState'[s] = to
        /\ \A x \in Services \ {s} : serviceState'[x] = serviceState[x]
    BY <1>3 DEF Move, LifecycleTypeOK
  <2> HIDE DEF n
  <2>5. ASSUME NEW x \in Services \ {s}
        PROVE  /\ Moves(x)' = {} => serviceState'[x] = Absent
               /\ \A k \in Moves(x)' :
                    /\ (\A j \in Moves(x)' : j <= k) => serviceState'[x] = events'[k].to
                    /\ \A j \in Moves(x)' :
                         j > k /\ (\A i \in Moves(x)' : i > k => j <= i) =>
                           events'[j].register \/ events'[j].from = events'[k].to
    BY <1>0, <2>1, <2>3, <2>4, <2>5 DEF MovesReplay
  <2> DEFINE M == Moves(s)
  <2>6. \A k \in M : k \in 1..n /\ k < n + 1 /\ events'[k] = events[k]
    BY <1>0, <2>1
  <2>7. /\ \A k \in M : (\A j \in M : j <= k) => serviceState[s] = events[k].to
        /\ \A k, j \in M : j > k /\ (\A i \in M : i > k => j <= i) =>
             events[j].register \/ events[j].from = events[k].to
    BY DEF MovesReplay
  <2> HIDE DEF M
  <2>8. ASSUME NEW k \in M \union {n + 1}, \A j \in M \union {n + 1} : j <= k
        PROVE  serviceState'[s] = events'[k].to
    <3>1. k = n + 1
      BY <1>0, <2>6, <2>8
    <3> QED
      BY <2>2, <2>4, <3>1
  <2>9. ASSUME NEW k \in M \union {n + 1}, NEW j \in M \union {n + 1},
               j > k, \A i \in M \union {n + 1} : i > k => j <= i
        PROVE  events'[j].register \/ events'[j].from = events'[k].to
    <3>1. k \in M
      BY <1>0, <2>6, <2>9
    <3>2. CASE j \in M
      BY <2>6, <2>7, <2>9, <3>1, <3>2
    <3>3. CASE j = n + 1
      <4>1. \A i \in M : i <= k
        BY <1>0, <2>6, <2>9, <3>1, <3>3
      <4>2. serviceState[s] = events[k].to
        BY <2>7, <3>1, <4>1
      <4> QED
        BY <1>3, <2>2, <2>6, <3>1, <3>3, <4>2
    <3> QED
      BY <3>2, <3>3
  <2>10. Moves(s)' = M \union {n + 1}
    BY <2>3 DEF M
  <2> QED
    BY <2>5, <2>8, <2>9, <2>10 DEF MovesReplay
<1>4. ASSUME NEW s \in Services, NEW to \in LifecycleStates,
             Move(s, to), Record(s, TRUE, Absent, to)
      PROVE  MovesReplay'
  <2>1. Absent # to
    BY DEF LifecycleStates, Absent
  <2> QED
    BY <1>3, <1>4, <2>1
<1>5. ASSUME NEW s \in Services, NEW to \in ValidTransitions[serviceState[s]],
             Move(s, to), Record(s, FALSE, serviceState[s], to)
      PROVE  MovesReplay'
  <2>1. serviceState[s] \in LifecycleStates \union {Absent}
    BY DEF LifecycleTypeOK
  <2>2. to \in LifecycleStates /\ to # serviceState[s]
    BY <2>1, TransitionsMove
  <2> QED
    BY <1>3, <1>5, <2>1, <2>2
<1> QED
  BY <1>1, <1>2, <1>4, <1>5, LifecycleSteps

(* The chain of evidence replays to the state of every service, however    *)
(* the operators interleave and however often a service is registered.     *)
THEOREM LifecycleReplays == LifecycleSpec => []MovesReplay
<1>1. LifecycleInit => MovesReplay
  <2> SUFFICES ASSUME LifecycleInit PROVE MovesReplay
    OBVIOUS
  <2>1. Len(events) = 0
    BY EmptySeq DEF LifecycleInit
  <2> QED
    BY <2>1 DEF LifecycleInit, MovesReplay, Moves
<1>2. LifecycleTypeOK /\ MovesReplay /\ [LifecycleNext]_lifecycleVars
        => MovesReplay'
  BY ReplayStep DEF LifecycleStep
<1> QED
  BY <1>1, <1>2, LifecycleTypeCorrect, PTL DEF LifecycleSpec
=============================================================================
