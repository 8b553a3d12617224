--------------------------- MODULE CircuitBreaker ---------------------------
(***************************************************************************)
(* One CircuitBreaker object shared by the requests of a gateway process.  *)
(*                                                                         *)
(* A call asks canExecute() (through isOpen(), from resolveRoute), runs    *)
(* for as long as its stream lasts, and then reports recordSuccess() or    *)
(* recordFailure(); a call whose client went away reports nothing          *)
(* (routes/chat.ts 259-312).  Every method runs to completion without an   *)
(* await, so a method is one step; any number of other steps fall between  *)
(* a call's admission and its report.                                      *)
(***************************************************************************)
EXTENDS BreakerOps, FiniteSets

CONSTANTS Calls,               \* the calls of a behaviour, each made once
          AllowAbort,          \* whether a client may disconnect
          MaxOperatorActions,  \* reset / trip commands in a behaviour
          NoCall               \* "nobody has taken the probe lease yet"

ASSUME CallsAssumption ==
    /\ IsFiniteSet(Calls)
    /\ NoCall \notin Calls
    /\ AllowAbort \in BOOLEAN
    /\ MaxOperatorActions \in Nat

VARIABLES breaker,          \* the object's fields
          status,           \* where each call is
          lastProbe,        \* history: the call that last took the lease
          trials,           \* history: calls admitted in this HALF_OPEN visit
          operatorActions   \* operator commands given so far

vars == <<breaker, status, lastProbe, trials, operatorActions>>

CallStatus ==
    {"idle", "running", "rejected", "succeeded", "failed", "aborted"}

TypeOK ==
    /\ breaker \in Breaker
    /\ status \in [Calls -> CallStatus]
    /\ lastProbe \in Calls \cup {NoCall}
    /\ trials \subseteq Calls
    /\ operatorActions \in 0..MaxOperatorActions

Init ==
    /\ breaker = NewBreaker
    /\ status = [c \in Calls |-> "idle"]
    /\ lastProbe = NoCall
    /\ trials = {}
    /\ operatorActions = 0

-----------------------------------------------------------------------------
\* The history of the visit: empty outside HALF_OPEN, else extended by the
\* calls this step admits.
RecordTrials(admitted) ==
    trials' = IF breaker'.state = "HALF_OPEN" THEN trials \cup admitted ELSE {}

Running(c) == status[c] = "running"

\* isOpen() by the router, and the call it then makes or gives up.
Admit(c) ==
    /\ status[c] = "idle"
    /\ Admits(breaker)
    /\ breaker' = CanExecute(breaker)
    /\ status' = [status EXCEPT ![c] = "running"]
    /\ lastProbe' = IF breaker'.state = "HALF_OPEN" THEN c ELSE lastProbe
    /\ RecordTrials({c})
    /\ UNCHANGED operatorActions

Reject(c) ==
    /\ status[c] = "idle"
    /\ ~Admits(breaker)
    /\ breaker' = CanExecute(breaker)
    /\ status' = [status EXCEPT ![c] = "rejected"]
    /\ RecordTrials({})
    /\ UNCHANGED <<lastProbe, operatorActions>>

\* The outcome is reported to the breaker as it is by then, not as it was
\* when the call was admitted.
Succeed(c) ==
    /\ Running(c)
    /\ status' = [status EXCEPT ![c] = "succeeded"]
    /\ breaker' = RecordSuccess(breaker)
    /\ RecordTrials({})
    /\ UNCHANGED <<lastProbe, operatorActions>>

Fail(c) ==
    /\ Running(c)
    /\ status' = [status EXCEPT ![c] = "failed"]
    /\ breaker' = RecordFailure(breaker)
    /\ RecordTrials({})
    /\ UNCHANGED <<lastProbe, operatorActions>>

\* The client disconnected: chat.ts tells the breaker nothing.
Abort(c) ==
    /\ AllowAbort
    /\ Running(c)
    /\ status' = [status EXCEPT ![c] = "aborted"]
    /\ UNCHANGED <<breaker, lastProbe, trials, operatorActions>>

\* getState() from GET /api/models, GET /api/stats or getMetrics().
Poll ==
    /\ breaker' = GetState(breaker)
    /\ RecordTrials({})
    /\ UNCHANGED <<status, lastProbe, operatorActions>>

\* reset_circuits and trip_circuit of POST /api/simulate-failure.
OperatorCommand ==
    /\ operatorActions < MaxOperatorActions
    /\ operatorActions' = operatorActions + 1
    /\ UNCHANGED <<status, lastProbe>>

OperatorReset ==
    /\ OperatorCommand
    /\ breaker' = Reset(breaker)
    /\ RecordTrials({})

OperatorTrip ==
    /\ OperatorCommand
    /\ breaker' = ForceOpen(breaker)
    /\ RecordTrials({})

Tick ==
    /\ breaker' = Elapse(breaker)
    /\ UNCHANGED <<status, lastProbe, trials, operatorActions>>

Next ==
    \/ \E c \in Calls : Admit(c) \/ Reject(c) \/ Succeed(c) \/ Fail(c) \/ Abort(c)
    \/ Poll
    \/ OperatorReset
    \/ OperatorTrip
    \/ Tick

Spec == Init /\ [][Next]_vars

\* Time passes, every stream ends one way or another (the mock provider's
\* loop is finite), and an open dashboard polls the breakers every three
\* seconds.
Fairness ==
    /\ WF_vars(Tick)
    /\ WF_vars(Poll)
    /\ \A c \in Calls : WF_vars(Succeed(c) \/ Fail(c))

FairSpec == Spec /\ Fairness

-----------------------------------------------------------------------------
\* The counters agree with the state (Consistent), although late reports,
\* polls and operator commands all move the state without touching every
\* counter: forceOpen() keeps consecutiveSuccesses, a failed probe keeps
\* failureCount, a late success keeps consecutiveSuccesses.
CountersAgree == Consistent(breaker)

\* A held probe lease is accounted for: the call that took it is running or
\* was dropped by its client.  A call that reported never leaves the lease
\* behind, however the breaker moved in between.
LeaseAccounted ==
    breaker.isProbeInFlight =>
        /\ lastProbe \in Calls
        /\ status[lastProbe] \in {"running", "aborted"}

\* One visit to HALF_OPEN lets at most SuccessThreshold calls through, even
\* when late reports free the lease while a probe is still running.
TrialsBounded == Cardinality(trials) <= SuccessThreshold

\* The inductive form: each trial but the current one has been paid for by
\* a counted success.
TrialsPaidFor ==
    Cardinality(trials) <=
        breaker.consecutiveSuccesses + (IF breaker.isProbeInFlight THEN 1 ELSE 0)

\* The breaker keeps the promise of BreakerPromise.
Promise ==
    INSTANCE BreakerPromise WITH
        CoolDown <- ResetTimeout, TrialLimit <- SuccessThreshold,
        mode <- breaker.state, remaining <- breaker.wait,
        trials <- Cardinality(trials)

KeepsPromise == Promise!Spec

\* An OPEN breaker is tried again (or closed): late failures and operators
\* may prolong the outage but not for ever.
OpenIsTriedAgain == (breaker.state = "OPEN") ~> (breaker.state # "OPEN")

\* A probe lease, once taken, is freed again, by its own call or by a late
\* report, unless the client of that call left.
LeaseResolves ==
    breaker.isProbeInFlight ~>
        (~breaker.isProbeInFlight \/ status[lastProbe] = "aborted")

-----------------------------------------------------------------------------
\* Claims of the documents that the code does not keep.

\* HALF_OPEN is left when the "Probe Request Succeeds" or the "Probe Request
\* Fails" (architecture/diagrams/system-architecture.md:200-201): no lease is
\* held for ever.
EveryLeaseResolves == breaker.isProbeInFlight ~> ~breaker.isProbeInFlight

\* "single-flight probe leases" (docs/claims-audit.md:16): at most one of
\* the calls admitted in this HALF_OPEN visit is running.
SingleFlightProbe == Cardinality({c \in trials : Running(c)}) <= 1

\* The state diagram of architecture/diagrams/system-architecture.md
\* (191-201): without an operator, OPEN is left for HALF_OPEN only.
DiagramTransitions ==
    [][breaker.state = "OPEN" /\ operatorActions' = operatorActions
        => breaker'.state # "CLOSED"]_vars
=============================================================================
