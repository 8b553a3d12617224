------------------------ MODULE CircuitBreakerProofs ------------------------
(***************************************************************************)
(* The safety of CircuitBreaker for any set of calls, any thresholds and   *)
(* any timeout.  The invariant IInv is inductive; TrialsPaidFor is the     *)
(* strengthening that makes the bound on HALF_OPEN trials inductive.       *)
(***************************************************************************)
EXTENDS CircuitBreaker, BreakerOpsProofs, FiniteSetTheorems

\* Outside HALF_OPEN no visit is in progress.
NoVisitNoTrials == breaker.state # "HALF_OPEN" => trials = {}

IInv ==
    /\ TypeOK
    /\ CountersAgree
    /\ LeaseAccounted
    /\ NoVisitNoTrials
    /\ TrialsPaidFor

-----------------------------------------------------------------------------
\* The fields, the calls and the history stay in their types.
LEMMA TypeStep == TypeOK /\ [Next]_vars => TypeOK'
<1> SUFFICES ASSUME TypeOK, [Next]_vars
             PROVE  TypeOK'
  OBVIOUS
<1> USE CallsAssumption DEF TypeOK, CallStatus
<1>0. trials \cup {} = trials
  OBVIOUS
<1>1. ASSUME NEW c \in Calls, Admit(c)
      PROVE  TypeOK'
  BY <1>1, OperationsKeepType DEF Admit, RecordTrials
<1>2. ASSUME NEW c \in Calls, Reject(c)
      PROVE  TypeOK'
  BY <1>2, OperationsKeepType DEF Reject, RecordTrials
<1>3. ASSUME NEW c \in Calls, Succeed(c)
      PROVE  TypeOK'
  BY <1>3, OperationsKeepType DEF Succeed, RecordTrials
<1>4. ASSUME NEW c \in Calls, Fail(c)
      PROVE  TypeOK'
  BY <1>4, OperationsKeepType DEF Fail, RecordTrials
<1>5. ASSUME NEW c \in Calls, Abort(c)
      PROVE  TypeOK'
  BY <1>5 DEF Abort
<1>6. ASSUME Poll
      PROVE  TypeOK'
  BY <1>6, OperationsKeepType DEF Poll, RecordTrials
<1>7. ASSUME OperatorReset
      PROVE  TypeOK'
  BY <1>7, OperationsKeepType DEF OperatorReset, OperatorCommand, RecordTrials
<1>8. ASSUME OperatorTrip
      PROVE  TypeOK'
  BY <1>8, OperationsKeepType DEF OperatorTrip, OperatorCommand, RecordTrials
<1>9. ASSUME Tick
      PROVE  TypeOK'
  BY <1>9, OperationsKeepType DEF Tick
<1>10. CASE UNCHANGED vars
  BY <1>10 DEF vars
<1> QED
  BY <1>1, <1>2, <1>3, <1>4, <1>5, <1>6, <1>7, <1>8, <1>9, <1>10 DEF Next

\* The first four conjuncts of IInv but TypeOK are kept by every step.
LEMMA LeaseStep ==
    ASSUME TypeOK, CountersAgree, LeaseAccounted, NoVisitNoTrials, [Next]_vars
    PROVE  CountersAgree' /\ LeaseAccounted' /\ NoVisitNoTrials'
<1> DEFINE Goal == CountersAgree /\ LeaseAccounted /\ NoVisitNoTrials
<1> USE CallsAssumption, OperationsKeepConsistent DEF CountersAgree, NoVisitNoTrials
<1>0. breaker \in Breaker
  BY DEF TypeOK
<1>1. ASSUME NEW c \in Calls, Admit(c)
      PROVE  Goal'
  <2>1. breaker'.isProbeInFlight => breaker'.state = "HALF_OPEN"
    BY <1>0, <1>1 DEF Admit, Consistent
  <2>2. LeaseAccounted'
    BY <1>1, <2>1 DEF Admit, LeaseAccounted, TypeOK
  <2> QED
    BY <1>0, <1>1, <2>2 DEF Admit, RecordTrials
<1>2. ASSUME NEW c \in Calls, Reject(c)
      PROVE  Goal'
  <2>1. breaker'.isProbeInFlight => breaker.isProbeInFlight
    BY <1>0, <1>2 DEF Reject, Admits, CanExecute, GetState, Breaker
  <2>2. LeaseAccounted'
    BY <1>2, <2>1 DEF Reject, LeaseAccounted, TypeOK
  <2> QED
    BY <1>0, <1>2, <2>2 DEF Reject, RecordTrials
<1>3. ASSUME NEW c \in Calls, Succeed(c)
      PROVE  Goal'
  <2>1. ~breaker'.isProbeInFlight
    BY <1>0, <1>3, ThresholdAssumption DEF Succeed, RecordSuccess, Breaker, Consistent
  <2> QED
    BY <1>0, <1>3, <2>1 DEF Succeed, RecordTrials, LeaseAccounted
<1>4. ASSUME NEW c \in Calls, Fail(c)
      PROVE  Goal'
  <2>1. ~breaker'.isProbeInFlight
    BY <1>0, <1>4 DEF Fail, RecordFailure, Breaker
  <2> QED
    BY <1>0, <1>4, <2>1 DEF Fail, RecordTrials, LeaseAccounted
<1>5. ASSUME NEW c \in Calls, Abort(c)
      PROVE  Goal'
  BY <1>5 DEF Abort, LeaseAccounted, TypeOK, Running, Consistent
<1>6. ASSUME Poll
      PROVE  Goal'
  <2>1. breaker'.isProbeInFlight => breaker.isProbeInFlight
    BY <1>0, <1>6 DEF Poll, GetState, Breaker
  <2> QED
    BY <1>0, <1>6, <2>1 DEF Poll, RecordTrials, LeaseAccounted
<1>7. ASSUME OperatorReset
      PROVE  Goal'
  <2>1. ~breaker'.isProbeInFlight
    BY <1>7 DEF OperatorReset, Reset, NewBreaker
  <2> QED
    BY <1>0, <1>7, <2>1 DEF OperatorReset, OperatorCommand, RecordTrials, LeaseAccounted
<1>8. ASSUME OperatorTrip
      PROVE  Goal'
  <2>1. ~breaker'.isProbeInFlight
    BY <1>0, <1>8 DEF OperatorTrip, ForceOpen, Breaker
  <2> QED
    BY <1>0, <1>8, <2>1 DEF OperatorTrip, OperatorCommand, RecordTrials, LeaseAccounted
<1>9. ASSUME Tick
      PROVE  Goal'
  <2>1. /\ breaker'.isProbeInFlight = breaker.isProbeInFlight
        /\ breaker'.state = breaker.state
    BY <1>0, <1>9 DEF Tick, Elapse, Breaker
  <2> QED
    BY <1>0, <1>9, <2>1 DEF Tick, LeaseAccounted
<1>10. CASE UNCHANGED vars
  BY <1>10 DEF vars, LeaseAccounted, Consistent
<1> QED
  BY <1>1, <1>2, <1>3, <1>4, <1>5, <1>6, <1>7, <1>8, <1>9, <1>10 DEF Next

\* Each trial but the current one stays paid for by a counted success.
LEMMA TrialsStep ==
    ASSUME IInv, [Next]_vars, TypeOK', CountersAgree', NoVisitNoTrials'
    PROVE  TrialsPaidFor'
<1> DEFINE Budget(b) == b.consecutiveSuccesses + (IF b.isProbeInFlight THEN 1 ELSE 0)
<1>0. /\ breaker \in Breaker /\ breaker' \in Breaker
      /\ Consistent(breaker)
      /\ IsFiniteSet(trials) /\ Cardinality(trials) \in Nat
      /\ Cardinality(trials) <= Budget(breaker)
      /\ Cardinality({}) = 0
      /\ breaker.state # "HALF_OPEN" => trials = {}
  BY CallsAssumption, FS_Subset, FS_CardinalityType, FS_EmptySet
     DEF IInv, TypeOK, CountersAgree, TrialsPaidFor, NoVisitNoTrials
<1>1. Budget(breaker) \in Nat /\ Budget(breaker') \in Nat
  BY <1>0 DEF Breaker
<1>2. SUFFICES ASSUME breaker'.state = "HALF_OPEN"
               PROVE  Cardinality(trials') <= Budget(breaker')
  <2>1. CASE breaker'.state # "HALF_OPEN"
    <3>1. trials' = {}
      BY <2>1 DEF NoVisitNoTrials
    <3> QED
      BY <1>0, <1>1, <3>1 DEF TrialsPaidFor
  <2>2. CASE breaker'.state = "HALF_OPEN"
    BY <1>2, <2>2 DEF TrialsPaidFor
  <2> QED
    BY <2>1, <2>2
\* A step that admits nobody and does not lower the budget.
<1>3. ASSUME trials' = trials, Budget(breaker') >= Budget(breaker)
      PROVE  Cardinality(trials') <= Budget(breaker')
  BY <1>0, <1>1, <1>3
\* A step after which no call has been let through yet.
<1>4. ASSUME trials' = {}
      PROVE  Cardinality(trials') <= Budget(breaker')
  BY <1>0, <1>1, <1>4
<1>5. ASSUME NEW c \in Calls, Admit(c)
      PROVE  Cardinality(trials') <= Budget(breaker')
  <2>1. trials' = trials \cup {c}
    BY <1>2, <1>5 DEF Admit, RecordTrials
  <2>2. Cardinality(trials') <= Cardinality(trials) + 1
    <3>1. Cardinality(trials') =
            IF c \in trials THEN Cardinality(trials) ELSE Cardinality(trials) + 1
      BY <1>0, <2>1, FS_AddElement, Zenon
    <3> QED
      BY <1>0, <3>1
  <2>3. ~breaker.isProbeInFlight /\ breaker'.isProbeInFlight
        /\ breaker'.consecutiveSuccesses = breaker.consecutiveSuccesses
    BY <1>0, <1>2, <1>5
       DEF Admit, Admits, CanExecute, GetState, Breaker, Consistent
  <2>4. Budget(breaker') = Budget(breaker) + 1
    BY <1>0, <2>3 DEF Breaker
  <2>5. Cardinality(trials') \in Nat
    BY <1>0, <2>1, FS_AddElement, FS_CardinalityType
  <2> QED
    BY <1>0, <1>1, <2>2, <2>4, <2>5
<1>6. ASSUME NEW c \in Calls, Reject(c)
      PROVE  Cardinality(trials') <= Budget(breaker')
  <2>1. trials' = trials
    BY <1>2, <1>6 DEF Reject, RecordTrials
  <2>2. Budget(breaker') >= Budget(breaker)
    BY <1>0, <1>6 DEF Reject, Admits, CanExecute, GetState, Breaker, Consistent
  <2> QED
    BY <1>3, <2>1, <2>2
<1>7. ASSUME NEW c \in Calls, Succeed(c)
      PROVE  Cardinality(trials') <= Budget(breaker')
  <2>1. breaker.state = "HALF_OPEN"
        /\ breaker'.consecutiveSuccesses = breaker.consecutiveSuccesses + 1
    BY <1>0, <1>2, <1>7 DEF Succeed, RecordSuccess, Breaker
  <2>2. trials' = trials
    BY <1>2, <1>7 DEF Succeed, RecordTrials
  <2>3. Budget(breaker') >= Budget(breaker)
    BY <1>0, <2>1 DEF Breaker
  <2> QED
    BY <1>3, <2>2, <2>3
<1>8. ASSUME NEW c \in Calls, Fail(c)
      PROVE  FALSE
  BY <1>0, <1>2, <1>8 DEF Fail, RecordFailure, Breaker
<1>9. ASSUME NEW c \in Calls, Abort(c)
      PROVE  Cardinality(trials') <= Budget(breaker')
  BY <1>0, <1>9 DEF Abort
<1>10. ASSUME Poll
       PROVE  Cardinality(trials') <= Budget(breaker')
  <2>1. trials' = trials
    BY <1>2, <1>10 DEF Poll, RecordTrials
  <2>2. Budget(breaker') >= Budget(breaker)
    BY <1>0, <1>10 DEF Poll, GetState, Breaker, Consistent
  <2> QED
    BY <1>3, <2>1, <2>2
<1>11. ASSUME OperatorReset \/ OperatorTrip
       PROVE  FALSE
  <2>1. CASE OperatorReset
    BY <1>2, <2>1 DEF OperatorReset, Reset, NewBreaker
  <2>2. CASE OperatorTrip
    BY <1>0, <1>2, <2>2 DEF OperatorTrip, ForceOpen, Breaker
  <2> QED
    BY <1>11, <2>1, <2>2
<1>12. ASSUME Tick
       PROVE  Cardinality(trials') <= Budget(breaker')
  <2>1. Budget(breaker') >= Budget(breaker)
    BY <1>0, <1>12 DEF Tick, Elapse, Breaker
  <2> QED
    BY <1>3, <1>12, <2>1 DEF Tick
<1>13. CASE UNCHANGED vars
  BY <1>0, <1>13 DEF vars
<1> QED
  BY <1>5, <1>6, <1>7, <1>8, <1>9, <1>10, <1>11, <1>12, <1>13 DEF Next

\* The invariant holds at first.
LEMMA InitIInv == Init => IInv
<1> SUFFICES ASSUME Init
             PROVE  IInv
  OBVIOUS
<1>1. TypeOK
  BY CallsAssumption, ThresholdAssumption
     DEF Init, TypeOK, NewBreaker, Breaker, CircuitState, CallStatus
<1>2. CountersAgree /\ LeaseAccounted /\ NoVisitNoTrials
  BY ThresholdAssumption
     DEF Init, CountersAgree, Consistent, LeaseAccounted, NoVisitNoTrials, NewBreaker
<1>3. TrialsPaidFor
  BY FS_EmptySet DEF Init, TrialsPaidFor, NewBreaker
<1> QED
  BY <1>1, <1>2, <1>3 DEF IInv

\* IInv is an invariant of every breaker, whatever its calls and thresholds.
THEOREM Invariance == Spec => []IInv
<1>1. IInv /\ [Next]_vars => IInv'
  BY TypeStep, LeaseStep, TrialsStep DEF IInv
<1> QED
  BY InitIInv, <1>1, PTL DEF Spec

\* The fields keep their types and the history stays within the calls.
THEOREM TypeCorrect == Spec => []TypeOK
<1>1. IInv => TypeOK
  BY DEF IInv
<1> QED
  BY Invariance, <1>1, PTL

\* The counters always agree with the state.
THEOREM CountersAlwaysAgree == Spec => []CountersAgree
<1>1. IInv => CountersAgree
  BY DEF IInv
<1> QED
  BY Invariance, <1>1, PTL

\* A call that reported its outcome never leaves the probe lease behind.
THEOREM LeaseAlwaysAccounted == Spec => []LeaseAccounted
<1>1. IInv => LeaseAccounted
  BY DEF IInv
<1> QED
  BY Invariance, <1>1, PTL

\* A visit to HALF_OPEN lets at most SuccessThreshold calls through.
THEOREM TrialsAlwaysBounded == Spec => []TrialsBounded
<1>1. IInv => TrialsBounded
  <2> SUFFICES ASSUME IInv
               PROVE  Cardinality(trials) <= SuccessThreshold
    BY DEF TrialsBounded
  <2>1. Cardinality(trials) \in Nat /\ breaker.consecutiveSuccesses \in Nat
    BY CallsAssumption, FS_Subset, FS_CardinalityType DEF IInv, TypeOK, Breaker
  <2>2. breaker.consecutiveSuccesses < SuccessThreshold
    BY DEF IInv, CountersAgree, Consistent
  <2> QED
    BY <2>1, <2>2, ThresholdAssumption DEF IInv, TrialsPaidFor
<1> QED
  BY Invariance, <1>1, PTL

-----------------------------------------------------------------------------
\* The breaker keeps the promise of BreakerPromise: each step of a call, an
\* operator or the clock is a step of the promise or a stutter.
THEOREM KeepsThePromise == Spec => KeepsPromise
<1> DEFINE n == Cardinality(trials)
<1>1. Init => Promise!Init
  BY FS_EmptySet DEF Init, NewBreaker, Promise!Init
<1>2. ASSUME IInv, IInv', [Next]_vars
      PROVE  [Promise!Next]_(Promise!vars)
  <2>0. /\ breaker \in Breaker /\ breaker' \in Breaker
        /\ Consistent(breaker) /\ Consistent(breaker')
        /\ IsFiniteSet(trials) /\ n \in Nat /\ n' \in Nat
        /\ Cardinality({}) = 0
        /\ breaker.state # "HALF_OPEN" => trials = {}
        /\ breaker'.state # "HALF_OPEN" => trials' = {}
    BY <1>2, CallsAssumption, FS_Subset, FS_CardinalityType, FS_EmptySet
       DEF IInv, TypeOK, CountersAgree, NoVisitNoTrials
  <2>1. /\ n <= breaker.consecutiveSuccesses
                   + (IF breaker.isProbeInFlight THEN 1 ELSE 0)
        /\ breaker.consecutiveSuccesses \in Nat
    BY <1>2, <2>0 DEF IInv, TrialsPaidFor, Breaker
  <2> HIDE DEF n
  \* What a step may do to the state, the timer and the number of trials.
  <2>2. ASSUME NEW c \in Calls, Admit(c)
        PROVE  [Promise!Next]_(Promise!vars)
    <3>1. CASE breaker.state = "CLOSED"
      <4>1. breaker' = breaker
        BY <2>0, <2>2, <3>1 DEF Admit, CanExecute, GetState, Breaker, Consistent
      <4>2. trials' = trials
        BY <2>0, <3>1, <4>1
      <4> QED
        BY <4>1, <4>2 DEF Promise!vars, n
    <3>2. CASE breaker.state # "CLOSED"
      <4>1. /\ breaker'.state = "HALF_OPEN" /\ breaker'.wait = breaker.wait
            /\ breaker.state = "OPEN" => breaker.wait = 0
            /\ ~breaker.isProbeInFlight
        BY <2>0, <2>2, <3>2
           DEF Admit, Admits, CanExecute, GetState, Breaker, CircuitState, Consistent
      <4>2. trials' = trials \cup {c}
        BY <2>2, <4>1 DEF Admit, RecordTrials
      <4>3. n' = IF c \in trials THEN n ELSE n + 1
        BY <2>0, <4>2, FS_AddElement, Zenon DEF n
      <4>4. n < SuccessThreshold
        BY <2>0, <2>1, <4>1, ThresholdAssumption DEF Consistent
      <4>5. CASE breaker.state = "OPEN"
        <5>1. n = 0 /\ trials = {}
          BY <2>0, <4>5 DEF n
        <5>2. n' = 1
          BY <4>3, <5>1
        <5> QED
          BY <4>1, <4>5, <5>2 DEF Promise!Next, Promise!HalfOpen, n
      <4>6. CASE breaker.state = "HALF_OPEN"
        <5>1. CASE c \in trials
          BY <4>1, <4>3, <4>6, <5>1 DEF Promise!vars, n
        <5>2. CASE c \notin trials
          BY <4>1, <4>3, <4>4, <4>6, <5>2 DEF Promise!Next, Promise!Trial, n
        <5> QED
          BY <5>1, <5>2
      <4> QED
        BY <2>0, <3>2, <4>5, <4>6 DEF Breaker, CircuitState
    <3> QED
      BY <3>1, <3>2
  <2>3. ASSUME breaker' = GetState(breaker), RecordTrials({})
        PROVE  [Promise!Next]_(Promise!vars)
    <3>1. CASE breaker.state = "OPEN" /\ breaker.wait = 0
      <4>1. breaker'.state = "HALF_OPEN" /\ breaker'.wait = breaker.wait
        BY <2>0, <2>3, <3>1 DEF GetState, Breaker
      <4>2. n' = 0
        BY <2>0, <2>3, <3>1, <4>1 DEF RecordTrials, n
      <4> QED
        BY <3>1, <4>1, <4>2 DEF Promise!Next, Promise!HalfOpen, n
    <3>2. CASE ~(breaker.state = "OPEN" /\ breaker.wait = 0)
      <4>1. breaker' = breaker
        BY <2>3, <3>2 DEF GetState
      <4>2. trials' = trials
        BY <2>0, <2>3, <4>1 DEF RecordTrials
      <4> QED
        BY <4>1, <4>2 DEF Promise!vars, n
    <3> QED
      BY <3>1, <3>2
  <2>4. ASSUME NEW c \in Calls, Reject(c)
        PROVE  [Promise!Next]_(Promise!vars)
    <3>1. breaker' = GetState(breaker)
      BY <2>0, <2>4 DEF Reject, Admits, CanExecute, GetState, Breaker, CircuitState
    <3> QED
      BY <2>3, <2>4, <3>1 DEF Reject
  \* Steps that end in CLOSED or restart the cool-down.
  <2>5. ASSUME breaker'.state = "CLOSED", breaker'.wait \in {0, breaker.wait}
        PROVE  [Promise!Next]_(Promise!vars)
    <3>1. n' = 0
      BY <2>0, <2>5 DEF n
    <3> QED
      BY <2>5, <3>1 DEF Promise!Next, Promise!Close, n
  <2>6. ASSUME breaker'.state = "OPEN", breaker'.wait = ResetTimeout
        PROVE  [Promise!Next]_(Promise!vars)
    <3>1. n' = 0
      BY <2>0, <2>6 DEF n
    <3> QED
      BY <2>6, <3>1 DEF Promise!Next, Promise!Open, n
  <2>7. ASSUME breaker'.state = breaker.state, breaker'.wait = breaker.wait,
               trials' = trials
        PROVE  [Promise!Next]_(Promise!vars)
    BY <2>7 DEF Promise!vars, n
  <2>8. ASSUME NEW c \in Calls, Succeed(c)
        PROVE  [Promise!Next]_(Promise!vars)
    <3>1. CASE breaker'.state = "CLOSED"
      <4>1. breaker'.wait = breaker.wait
        BY <2>0, <2>8 DEF Succeed, RecordSuccess, Breaker
      <4> QED
        BY <2>5, <3>1, <4>1
    <3>2. CASE breaker'.state # "CLOSED"
      <4>1. /\ breaker.state = "HALF_OPEN" /\ breaker'.state = "HALF_OPEN"
            /\ breaker'.wait = breaker.wait
        BY <2>0, <2>8, <3>2 DEF Succeed, RecordSuccess, Breaker
      <4>2. trials' = trials
        BY <2>8, <4>1 DEF Succeed, RecordTrials
      <4> QED
        BY <2>7, <4>1, <4>2
    <3> QED
      BY <3>1, <3>2
  <2>9. ASSUME NEW c \in Calls, Fail(c)
        PROVE  [Promise!Next]_(Promise!vars)
    <3>1. \/ breaker'.state = "OPEN" /\ breaker'.wait = ResetTimeout
          \/ /\ breaker'.state = breaker.state /\ breaker'.wait = breaker.wait
             /\ breaker'.state # "HALF_OPEN"
      BY <2>0, <2>9 DEF Fail, RecordFailure, Breaker
    <3> QED
      BY <2>0, <2>6, <2>7, <3>1
  <2>10. ASSUME NEW c \in Calls, Abort(c)
         PROVE  [Promise!Next]_(Promise!vars)
    BY <2>7, <2>10 DEF Abort
  <2>11. ASSUME Poll
         PROVE  [Promise!Next]_(Promise!vars)
    BY <2>3, <2>11 DEF Poll
  <2>12. ASSUME OperatorReset
         PROVE  [Promise!Next]_(Promise!vars)
    BY <2>5, <2>12 DEF OperatorReset, Reset, NewBreaker
  <2>13. ASSUME OperatorTrip
         PROVE  [Promise!Next]_(Promise!vars)
    <3>1. breaker'.state = "OPEN" /\ breaker'.wait = ResetTimeout
      BY <2>0, <2>13 DEF OperatorTrip, ForceOpen, Breaker
    <3> QED
      BY <2>6, <3>1
  <2>14. ASSUME Tick
         PROVE  [Promise!Next]_(Promise!vars)
    <3>1. /\ breaker'.state = breaker.state
          /\ breaker'.wait = IF breaker.wait > 0 THEN breaker.wait - 1 ELSE 0
          /\ breaker.wait \in 0..ResetTimeout
          /\ trials' = trials
      BY <2>0, <2>14 DEF Tick, Elapse, Breaker
    <3>2. n' = n
      BY <3>1 DEF n
    <3>3. CASE breaker.wait > 0
      BY <3>1, <3>2, <3>3 DEF Promise!Next, Promise!Elapse, n
    <3>4. CASE ~(breaker.wait > 0)
      <4>1. breaker'.wait = breaker.wait
        BY <3>1, <3>4, ThresholdAssumption
      <4> QED
        BY <2>7, <3>1, <4>1
    <3> QED
      BY <3>3, <3>4
  <2>15. CASE UNCHANGED vars
    BY <2>15 DEF vars, Promise!vars, n
  <2> QED
    BY <1>2, <2>2, <2>4, <2>8, <2>9, <2>10, <2>11, <2>12, <2>13, <2>14, <2>15
       DEF Next
<1> QED
  BY <1>1, <1>2, Invariance, PTL DEF Spec, KeepsPromise, Promise!Spec
=============================================================================
