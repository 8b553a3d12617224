-------------------------- MODULE MCCircuitBreaker --------------------------
(* Five calls: two to trip the breaker, two trials and a late report.       *)
EXTENDS CircuitBreaker

CONSTANTS c1, c2, c3, c4, c5

MCCalls3 == {c1, c2, c3}
MCCalls5 == {c1, c2, c3, c4, c5}
=============================================================================
