----------------------------- MODULE RetryPolicy -----------------------------
(***************************************************************************)
(* RetryPolicy.execute (application/resilience/retry.ts): an operation     *)
(* that is attempted again after a retryable error, with a random backoff, *)
(* a bound on the retries and a deadline that is only looked at between    *)
(* attempts.                                                               *)
(***************************************************************************)
EXTENDS Integers

CONSTANTS MaxRetries,     \* maxRetries (2)
          BaseDelay,      \* baseDelayMs (250)
          MaxDelay,       \* maxDelayMs (3000)
          Deadline,       \* Date.now() + deadlineMs, the call being made at 0
          MaxDuration,    \* an attempt takes 0..MaxDuration
          MaxLateness     \* a timer fires 0..MaxLateness late

ASSUME OptionsAssumption ==
    /\ MaxRetries \in Nat
    /\ BaseDelay \in Nat
    /\ MaxDelay \in Nat
    /\ Deadline \in Nat \ {0}
    /\ MaxDuration \in Nat
    /\ MaxLateness \in Nat

VARIABLES place,        \* where the loop is
          attempt,      \* its counter
          now,          \* Date.now()
          lastError,
          runs          \* history: the outcomes of the operation so far

retryVars == <<place, attempt, now, lastError, runs>>

\* Errors by the first thing isRetryable can tell about them: an AppError,
\* which says itself whether it is retryable (the deadline's own, a 504, says
\* that it is not); the status 429, or one of 500 and more; a message that
\* speaks of a timeout or a lost connection, whatever the status; or none of
\* these.
AppErrors == {"app_retryable", "app_final", "deadline"}
Thrown == {"app_retryable", "app_final", "429", "5xx", "network", "other"}
Errors == Thrown \cup {"deadline"}
NoError == "none"

IsRetryable(error) ==
    IF error \in AppErrors THEN error = "app_retryable"
                           ELSE error \in {"429", "5xx", "network"}

RetryTypeOK ==
    /\ place \in {"try", "running", "caught", "returned", "thrown"}
    /\ attempt \in 0..MaxRetries
    /\ now \in Nat
    /\ lastError \in Errors \cup {NoError}
    /\ runs \in Nat

RetryInit ==
    /\ place = "try"
    /\ attempt = 0
    /\ now = 0
    /\ lastError = NoError
    /\ runs = 0

-----------------------------------------------------------------------------
\* floor(random * min(maxDelay, baseDelay * 2^attempt)), random being in [0, 1).
JitterDelays(k) ==
    {d \in 0..MaxDelay : d = 0 \/ (d < MaxDelay /\ d < BaseDelay * 2^k)}

\* An attempt starts, unless the deadline passed during the backoff.
Start ==
    /\ place = "try"
    /\ now <= Deadline
    /\ place' = "running"
    /\ runs' = runs + 1
    /\ UNCHANGED <<attempt, now, lastError>>

Overdue ==
    /\ place = "try"
    /\ now > Deadline
    /\ place' = "caught"
    /\ lastError' = "deadline"
    /\ UNCHANGED <<attempt, now, runs>>

\* The attempt's outcome, after however long it takes.
Succeed ==
    /\ place = "running"
    /\ \E d \in 0..MaxDuration : now' = now + d
    /\ place' = "returned"
    /\ UNCHANGED <<attempt, lastError, runs>>

Fail ==
    /\ place = "running"
    /\ \E d \in 0..MaxDuration : now' = now + d
    /\ \E error \in Thrown : lastError' = error
    /\ place' = "caught"
    /\ UNCHANGED <<attempt, runs>>

GivesUpIgnoringTime ==
    attempt = MaxRetries \/ ~IsRetryable(lastError)

GivesUpOneEarly ==
    attempt + 1 >= MaxRetries \/ ~IsRetryable(lastError) \/ now >= Deadline

GivesUp ==
    attempt = MaxRetries \/ ~IsRetryable(lastError) \/ now >= Deadline

GiveUp ==
    /\ place = "caught"
    /\ GivesUp
    /\ place' = "thrown"
    /\ UNCHANGED <<attempt, now, lastError, runs>>

\* The wait is not cut to what is left until the deadline.
BackOff ==
    /\ place = "caught"
    /\ ~GivesUp
    /\ \E delay \in JitterDelays(attempt), late \in 0..MaxLateness :
          now' = now + delay + late
    /\ attempt' = attempt + 1
    /\ place' = "try"
    /\ UNCHANGED <<lastError, runs>>

RetryNext == Start \/ Overdue \/ Succeed \/ Fail \/ GiveUp \/ BackOff

RetrySpec == RetryInit /\ [][RetryNext]_retryVars

-----------------------------------------------------------------------------
Ended == place \in {"returned", "thrown"}

Longest(a, b) == IF a > b THEN a ELSE b

\* The caller waits past the deadline for one attempt at most, or for one
\* backoff, never for both: what starts before the deadline is let finish.
OverrunBounded ==
    Ended => now <= Deadline + Longest(MaxDuration, MaxDelay + MaxLateness)

\* What may pass if the operation is run again.
Transient == {"app_retryable", "429", "5xx", "network"}

\* A transient error reaches the caller only when there was no retry or no
\* time left; the deadline's error only when it has passed.
ErrorIsFinal ==
    place = "thrown" =>
        /\ lastError \in Transient => runs = MaxRetries + 1 \/ now >= Deadline
        /\ lastError = "deadline" => now > Deadline

\* The operation is never run again after an error that is not transient.
OnlyTransientIsRetried ==
    [][runs' > runs /\ runs > 0 => lastError \in Transient]_retryVars

\* Each pass of the loop runs the operation once, but for a pass that finds
\* the deadline gone.
RunsCounted ==
    runs = attempt +
        (IF place = "try" \/ (place \in {"caught", "thrown"} /\ lastError = "deadline")
         THEN 0 ELSE 1)
=============================================================================
