---------------------------- MODULE MCRetryPolicy ----------------------------
(* A deadline in the middle of the third attempt: the cfg's numbers let a   *)
(* call end by success, by each of the errors, by its last retry and by its *)
(* deadline, met in an attempt and in a backoff.                            *)
EXTENDS RetryPolicy
=============================================================================
