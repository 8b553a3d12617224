------------------------ MODULE MCIdempotencyLease ------------------------
(* Four attempts with one key and a lease of three ticks: two may race, a   *)
(* third may come while the lease stands and a fourth after it.             *)
EXTENDS IdempotencyLease

CONSTANTS a1, a2, a3, a4

MCAttempts == {a1, a2, a3, a4}
=============================================================================
