--------------------------- MODULE BreakerPromise ---------------------------
(***************************************************************************)
(* What a circuit breaker promises the service behind it, whatever the     *)
(* order in which the calls' outcomes reach it:                            *)
(*   - every time it opens, it stays out of HALF_OPEN for a whole cool-down *)
(*     (it can close early, on a success or an operator's reset);          *)
(*   - each visit to HALF_OPEN lets at most TrialLimit calls through.      *)
(* CircuitBreaker implements this specification.                           *)
(***************************************************************************)
EXTENDS Naturals

CONSTANTS CoolDown,     \* how long it stays open
          TrialLimit    \* calls let through per visit to HALF_OPEN

VARIABLES mode,         \* "CLOSED", "OPEN" or "HALF_OPEN"
          remaining,    \* what is left of the cool-down
          trials        \* calls let through in this visit to HALF_OPEN

vars == <<mode, remaining, trials>>

Init ==
    /\ mode = "CLOSED"
    /\ remaining = 0
    /\ trials = 0

\* The cool-down starts, or starts again.
Open ==
    /\ mode' = "OPEN"
    /\ remaining' = CoolDown
    /\ trials' = 0

\* Half-opening: as the first trial is let through, or on a mere poll.
HalfOpen ==
    /\ mode = "OPEN"
    /\ remaining = 0
    /\ mode' = "HALF_OPEN"
    /\ trials' \in {0, 1}
    /\ UNCHANGED remaining

Trial ==
    /\ mode = "HALF_OPEN"
    /\ trials < TrialLimit
    /\ trials' = trials + 1
    /\ UNCHANGED <<mode, remaining>>

Close ==
    /\ mode' = "CLOSED"
    /\ remaining' \in {0, remaining}
    /\ trials' = 0

Elapse ==
    /\ remaining > 0
    /\ remaining' = remaining - 1
    /\ UNCHANGED <<mode, trials>>

Next == Open \/ HalfOpen \/ Trial \/ Close \/ Elapse

Spec == Init /\ [][Next]_vars
=============================================================================
