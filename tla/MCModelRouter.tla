--------------------------- MODULE MCModelRouter ---------------------------
(* Two calls at a time over the three models that serve without an API      *)
(* key; the two gpt models have the candidates of mock-reasoning and        *)
(* mock-standard.                                                           *)
EXTENDS ModelRouter

CONSTANTS c1, c2

MCCalls    == {c1, c2}
MCRegistry == {"mock-fast", "mock-standard", "mock-reasoning"}

\* A model of each tier, the policy's choice, and an id without a breaker.
MCRequested == {"mock-fast", "mock-standard", "mock-reasoning", "auto", "llama"}
=============================================================================
