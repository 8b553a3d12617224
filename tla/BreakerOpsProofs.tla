-------------------------- MODULE BreakerOpsProofs --------------------------
(***************************************************************************)
(* What the operations of one breaker keep and what they do to its probe   *)
(* lease, for the proofs about CircuitBreaker and ModelRouter.             *)
(***************************************************************************)
EXTENDS BreakerOps, TLAPS

\* Every operation of a breaker keeps its fields in their types.
LEMMA OperationsKeepType ==
    ASSUME NEW b \in Breaker
    PROVE  /\ NewBreaker \in Breaker
           /\ Elapse(b) \in Breaker
           /\ GetState(b) \in Breaker
           /\ CanExecute(b) \in Breaker
           /\ RecordSuccess(b) \in Breaker
           /\ RecordFailure(b) \in Breaker
           /\ Reset(b) \in Breaker
           /\ ForceOpen(b) \in Breaker
<1> USE ThresholdAssumption DEF Breaker, CircuitState
<1>0. /\ b.failureCount + 1 \in Nat
      /\ b.consecutiveSuccesses + 1 \in Nat
      /\ ResetTimeout \in 0..ResetTimeout
      /\ b.wait > 0 => b.wait - 1 \in 0..ResetTimeout
      /\ 0 \in 0..ResetTimeout
  OBVIOUS
<1>1. NewBreaker \in Breaker
  BY <1>0 DEF NewBreaker
<1>2. Elapse(b) \in Breaker
  BY <1>0 DEF Elapse
<1>3. GetState(b) \in Breaker
  BY DEF GetState
<1>4. CanExecute(b) \in Breaker
  BY <1>3 DEF CanExecute
<1>5. RecordSuccess(b) \in Breaker
  <2> DEFINE counted == [b EXCEPT !.consecutiveSuccesses = @ + 1,
                                  !.isProbeInFlight = FALSE]
  <2>1. counted \in Breaker
    BY <1>0, Zenon
  <2> HIDE DEF counted
  <2>2. [counted EXCEPT !.state = "CLOSED", !.failureCount = 0,
                        !.consecutiveSuccesses = 0] \in Breaker
    BY <2>1
  <2>3. [b EXCEPT !.failureCount = 0, !.state = "CLOSED"] \in Breaker
    OBVIOUS
  <2> QED
    BY <2>1, <2>2, <2>3, Zenon DEF RecordSuccess, counted
<1>6. RecordFailure(b) \in Breaker
  BY <1>0 DEF RecordFailure
<1>7. Reset(b) \in Breaker
  BY <1>1 DEF Reset
<1>8. ForceOpen(b) \in Breaker
  BY <1>0 DEF ForceOpen
<1> QED
  BY <1>1, <1>2, <1>3, <1>4, <1>5, <1>6, <1>7, <1>8

\* Every operation of a breaker keeps its counters in agreement with its state.
LEMMA OperationsKeepConsistent ==
    ASSUME NEW b \in Breaker, Consistent(b)
    PROVE  /\ Consistent(NewBreaker)
           /\ Consistent(Elapse(b))
           /\ Consistent(GetState(b))
           /\ Consistent(CanExecute(b))
           /\ Consistent(RecordSuccess(b))
           /\ Consistent(RecordFailure(b))
           /\ Consistent(Reset(b))
           /\ Consistent(ForceOpen(b))
<1> USE ThresholdAssumption DEF Breaker, CircuitState, Consistent
<1>1. Consistent(NewBreaker)
  BY DEF NewBreaker
<1>2. Consistent(Elapse(b))
  BY DEF Elapse
<1>3. Consistent(GetState(b))
  BY DEF GetState
<1>4. Consistent(CanExecute(b))
  BY DEF CanExecute, GetState
<1>5. Consistent(RecordSuccess(b))
  BY DEF RecordSuccess
<1>6. Consistent(RecordFailure(b))
  BY DEF RecordFailure
<1>7. Consistent(Reset(b))
  BY <1>1 DEF Reset
<1>8. Consistent(ForceOpen(b))
  BY DEF ForceOpen
<1> QED
  BY <1>1, <1>2, <1>3, <1>4, <1>5, <1>6, <1>7, <1>8

-----------------------------------------------------------------------------
\* Only canExecute() takes the lease, and only of a breaker that admits.
LEMMA LeaseIsTakenByAdmission ==
    ASSUME NEW b \in Breaker
    PROVE  /\ Elapse(b).isProbeInFlight => b.isProbeInFlight
           /\ GetState(b).isProbeInFlight => b.isProbeInFlight
           /\ RecordSuccess(b).isProbeInFlight => b.isProbeInFlight
           /\ RecordFailure(b).isProbeInFlight => b.isProbeInFlight
           /\ Reset(b).isProbeInFlight => b.isProbeInFlight
           /\ ForceOpen(b).isProbeInFlight => b.isProbeInFlight
           /\ ~Admits(b) => (CanExecute(b).isProbeInFlight => b.isProbeInFlight)
<1> USE DEF Breaker
<1>1. Elapse(b).isProbeInFlight => b.isProbeInFlight
  BY DEF Elapse
<1>2. GetState(b).isProbeInFlight => b.isProbeInFlight
  BY DEF GetState
<1>3. RecordSuccess(b).isProbeInFlight => b.isProbeInFlight
  BY DEF RecordSuccess
<1>4. RecordFailure(b).isProbeInFlight => b.isProbeInFlight
  BY DEF RecordFailure
<1>5. ~Reset(b).isProbeInFlight
  BY DEF Reset, NewBreaker
<1>6. ~ForceOpen(b).isProbeInFlight
  BY DEF ForceOpen
<1>7. ~Admits(b) => (CanExecute(b).isProbeInFlight => b.isProbeInFlight)
  BY DEF Admits, CanExecute, GetState
<1> QED
  BY <1>1, <1>2, <1>3, <1>4, <1>5, <1>6, <1>7

\* A report leaves no lease behind, whoever held it.
LEMMA ReportsFreeTheLease ==
    ASSUME NEW b \in Breaker, Consistent(b)
    PROVE  ~RecordSuccess(b).isProbeInFlight /\ ~RecordFailure(b).isProbeInFlight
BY ThresholdAssumption DEF RecordSuccess, RecordFailure, Consistent, Breaker
=============================================================================
