---------------------------- MODULE RoutingPolicy ----------------------------
(***************************************************************************)
(* ModelRouter.resolveRoute (application/routing/model-router.ts) as a     *)
(* function of the breakers: the policy that picks a target model, the     *)
(* health check that picks a fallback, and what both do to the breakers.   *)
(*                                                                         *)
(* isOpen() is not a query: it runs canExecute() and so takes the probe    *)
(* lease of a HALF_OPEN breaker that grants it.  resolveRoute runs without *)
(* an await, so a whole resolution is one step.                            *)
(***************************************************************************)
EXTENDS BreakerOps, Sequences, FiniteSets

CONSTANT Registry    \* the model ids circuitBreakers holds a breaker for

LastResort == "mock-fast"

ASSUME RegistryAssumption ==
    /\ {"mock-fast", "mock-standard", "mock-reasoning"} \subseteq Registry
    /\ Registry \subseteq
        {"mock-fast", "mock-standard", "mock-reasoning", "gpt-4o-mini", "gpt-4o"}

\* circuitBreakers[id] || circuitBreakers['mock-fast']
BreakerOf(id) == IF id \in Registry THEN id ELSE LastResort

\* The policy: "auto" is resolved from the query (does it call for deep
\* reasoning?) and the context (is it over 4000 tokens?).
Target(requested, deep, long) ==
    IF requested # "auto" THEN requested
    ELSE IF deep THEN "mock-reasoning"
    ELSE IF long THEN "mock-standard"
    ELSE "mock-fast"

FallbackCandidates(id) ==
    IF id \in {"mock-reasoning", "gpt-4o"}
    THEN <<"mock-standard", "mock-fast">>
    ELSE <<"mock-fast">>

-----------------------------------------------------------------------------
\* canExecute() on each of the breakers of "asked".
Ask(breakers, asked) ==
    [m \in Registry |->
        IF m \in asked THEN CanExecute(breakers[m]) ELSE breakers[m]]

\* fallbackCandidates.find(...): candidates are asked in order, up to the
\* first whose breaker grants.
Healthy(breakers, candidates) ==
    {k \in 1..Len(candidates) : Admits(breakers[candidates[k]])}

AskEveryone(breakers, candidates) ==
    {candidates[k] : k \in 1..Len(candidates)}

Asked(breakers, candidates) ==
    {candidates[k] : k \in
        {i \in 1..Len(candidates) :
            \A j \in 1..(i - 1) : j \notin Healthy(breakers, candidates)}}

FirstHealthy(breakers, candidates) ==
    LET healthy == Healthy(breakers, candidates)
    IN  IF healthy = {} THEN LastResort
        ELSE candidates[CHOOSE k \in healthy : \A j \in healthy : k <= j]

\* Whether some breaker granted the call, the model it goes to, and the
\* breakers afterwards.
RouteIgnoringHealth(breakers, target) ==
    LET own == BreakerOf(target)
    IN  [granted  |-> Admits(breakers[own]),
         selected |-> target,
         isFallback |-> FALSE,
         breakers |-> Ask(breakers, {own})]

ResolveRoute(breakers, target) ==
    LET own        == BreakerOf(target)
        afterOwn   == Ask(breakers, {own})
        candidates == FallbackCandidates(target)
    IN  IF Admits(breakers[own])
        THEN [granted  |-> TRUE,
              selected |-> target,
              isFallback |-> FALSE,
              breakers |-> afterOwn]
        ELSE [granted  |-> Healthy(afterOwn, candidates) # {},
              selected |-> FirstHealthy(afterOwn, candidates),
              isFallback |-> TRUE,
              breakers |-> Ask(afterOwn, Asked(afterOwn, candidates))]
=============================================================================
