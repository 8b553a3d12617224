----------------------------- MODULE BreakerOps -----------------------------
(***************************************************************************)
(* The operations of one CircuitBreaker object                             *)
(* (application/resilience/circuit-breaker.ts) as functions on its fields. *)
(*                                                                         *)
(* nextAttemptTimestamp is kept as "wait", the time left until it          *)
(* (max(0, nextAttemptTimestamp - Date.now()), what getMetrics reports):   *)
(* Date.now() >= nextAttemptTimestamp is wait = 0, assigning               *)
(* Date.now() + resetTimeoutMs is wait = ResetTimeout, and the clock only  *)
(* ever lowers it (Elapse).  No bound on the clock is needed.              *)
(***************************************************************************)
EXTENDS Integers

CONSTANTS FailureThreshold,   \* failures in a row that trip the breaker (5)
          ResetTimeout,       \* clock units in OPEN before a probe (10 s)
          SuccessThreshold    \* successes in HALF_OPEN that close it (2)

\* The constructor's "options.x || default" never leaves a threshold at zero.
ASSUME ThresholdAssumption ==
    /\ FailureThreshold \in Nat \ {0}
    /\ ResetTimeout \in Nat \ {0}
    /\ SuccessThreshold \in Nat \ {0}

CircuitState == {"CLOSED", "OPEN", "HALF_OPEN"}

Breaker ==
    [state                : CircuitState,
     failureCount         : Nat,
     consecutiveSuccesses : Nat,
     isProbeInFlight      : BOOLEAN,
     wait                 : 0..ResetTimeout]

NewBreaker ==
    [state |-> "CLOSED", failureCount |-> 0, consecutiveSuccesses |-> 0,
     isProbeInFlight |-> FALSE, wait |-> 0]

ElapsePastZero(b) == [b EXCEPT !.wait = @ - 1]

\* Time passing by one unit.
Elapse(b) == [b EXCEPT !.wait = IF @ > 0 THEN @ - 1 ELSE 0]

-----------------------------------------------------------------------------
\* Mutated forms, each a plausible slip in the operation it stands for.

GetStateIgnoringTimeout(b) ==
    IF b.state = "OPEN"
    THEN [b EXCEPT !.state = "HALF_OPEN", !.isProbeInFlight = FALSE]
    ELSE b

GetStateNeverHalfOpen(b) == b

-----------------------------------------------------------------------------
\* getState(): reading the state of an OPEN breaker whose timeout has
\* elapsed moves it to HALF_OPEN.
GetState(b) ==
    IF b.state = "OPEN" /\ b.wait = 0
    THEN [b EXCEPT !.state = "HALF_OPEN", !.isProbeInFlight = FALSE]
    ELSE b

\* The answer of canExecute() ...
Admits(b) ==
    LET g == GetState(b)
    IN  \/ g.state = "CLOSED"
        \/ g.state = "HALF_OPEN" /\ ~g.isProbeInFlight

\* ... and the breaker it leaves: in HALF_OPEN the probe lease is held
\* after the call, whether this caller took it or another one held it.
CanExecute(b) ==
    LET g == GetState(b)
    IN  [g EXCEPT !.isProbeInFlight = @ \/ g.state = "HALF_OPEN"]

RecordSuccessKeepingLease(b) ==
    IF b.state = "HALF_OPEN" /\ b.consecutiveSuccesses + 1 < SuccessThreshold
    THEN [b EXCEPT !.consecutiveSuccesses = @ + 1]
    ELSE [b EXCEPT !.state = "CLOSED", !.failureCount = 0,
                   !.consecutiveSuccesses = 0, !.isProbeInFlight = FALSE]

RecordSuccessKeepingFailures(b) ==
    IF b.state = "HALF_OPEN" /\ b.consecutiveSuccesses + 1 < SuccessThreshold
    THEN [b EXCEPT !.consecutiveSuccesses = @ + 1, !.isProbeInFlight = FALSE]
    ELSE [b EXCEPT !.state = "CLOSED", !.consecutiveSuccesses = 0,
                   !.isProbeInFlight = FALSE]

RecordSuccessWithoutCounting(b) ==
    IF b.state = "HALF_OPEN"
    THEN [b EXCEPT !.isProbeInFlight = FALSE]
    ELSE [b EXCEPT !.failureCount = 0, !.state = "CLOSED"]

\* recordSuccess(): in HALF_OPEN it counts towards closing and frees the
\* lease; in any other state, OPEN included, it closes the breaker.
RecordSuccess(b) ==
    IF b.state = "HALF_OPEN"
    THEN LET counted == [b EXCEPT !.consecutiveSuccesses = @ + 1,
                                  !.isProbeInFlight = FALSE]
         IN  IF counted.consecutiveSuccesses >= SuccessThreshold
             THEN [counted EXCEPT !.state = "CLOSED", !.failureCount = 0,
                                  !.consecutiveSuccesses = 0]
             ELSE counted
    ELSE [b EXCEPT !.failureCount = 0, !.state = "CLOSED"]

\* recordFailure(): frees the lease; in HALF_OPEN it reopens at once,
\* elsewhere it counts and (re)opens at the threshold.  The count is kept up
\* to the threshold, beyond which nothing tells one number from another.
RecordFailure(b) ==
    LET freed   == [b EXCEPT !.isProbeInFlight = FALSE]
        counted == [freed EXCEPT !.failureCount =
                       IF @ < FailureThreshold THEN @ + 1 ELSE @]
    IN  IF b.state = "HALF_OPEN"
        THEN [freed EXCEPT !.state = "OPEN", !.wait = ResetTimeout,
                           !.consecutiveSuccesses = 0]
        ELSE IF counted.failureCount >= FailureThreshold
             THEN [counted EXCEPT !.state = "OPEN", !.wait = ResetTimeout]
             ELSE counted

Reset(b) == NewBreaker

\* forceOpen() leaves failureCount and consecutiveSuccesses as they are.
ForceOpen(b) ==
    [b EXCEPT !.state = "OPEN", !.wait = ResetTimeout,
              !.isProbeInFlight = FALSE]

-----------------------------------------------------------------------------
\* The counters of b agree with its state: a CLOSED breaker has not reached
\* its failure threshold, no breaker sits on enough successes to be closed,
\* and the probe lease is held in HALF_OPEN only.
Consistent(b) ==
    /\ b.state = "CLOSED" => b.failureCount < FailureThreshold
    /\ b.consecutiveSuccesses < SuccessThreshold
    /\ b.isProbeInFlight => b.state = "HALF_OPEN"
=============================================================================
