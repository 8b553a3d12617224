----------------------------- MODULE ModelRouter -----------------------------
(***************************************************************************)
(* The five circuit breakers, the router that sends calls to models        *)
(* according to them, and the calls in flight.                             *)
(*                                                                         *)
(* A call is routed in one step, streams for any number of steps, and      *)
(* reports to the breaker of the model it was sent to (routes/chat.ts 124, *)
(* 192, 264), unless its client left, when it reports to none.             *)
(***************************************************************************)
EXTENDS RoutingPolicy

CONSTANTS Calls,               \* the calls that can be told apart at a time
          Requested,           \* model ids clients ask for
          AllowAbort,          \* whether a client may disconnect
          MaxOperatorActions   \* trip / reset commands in a behaviour

ASSUME CallsAssumption ==
    /\ IsFiniteSet(Calls)
    /\ AllowAbort \in BOOLEAN
    /\ MaxOperatorActions \in Nat

\* The models whose breakers are asked before each call they get.
Protected == Registry \ {LastResort}

NoModel == "none"
NoCall  == "nobody"

VARIABLES breakers,         \* circuitBreakers
          call,             \* per call: its status and where it was sent
          lastProbe,        \* history, per breaker: the call that last took
                            \* its probe lease
          sent,             \* history, per breaker: the calls sent to its
                            \* model in this visit to HALF_OPEN
          operatorActions   \* operator commands given so far

vars == <<breakers, call, lastProbe, sent, operatorActions>>

Unrouted == [status |-> "idle", breaker |-> NoModel, granted |-> FALSE]

CallRecord ==
    [status  : {"idle", "running", "succeeded", "failed", "aborted"},
     breaker : Registry \cup {NoModel},
     granted : BOOLEAN]

TypeOK ==
    /\ breakers \in [Registry -> Breaker]
    /\ call \in [Calls -> CallRecord]
    /\ lastProbe \in [Registry -> Calls \cup {NoCall}]
    /\ sent \in [Registry -> SUBSET Calls]
    /\ operatorActions \in 0..MaxOperatorActions

Init ==
    /\ breakers = [m \in Registry |-> NewBreaker]
    /\ call = [c \in Calls |-> Unrouted]
    /\ lastProbe = [m \in Registry |-> NoCall]
    /\ sent = [m \in Registry |-> {}]
    /\ operatorActions = 0

-----------------------------------------------------------------------------
Running(c) == call[c].status = "running"

\* The history of each breaker's visit to HALF_OPEN, c being sent to m.
RecordSent(m, c) ==
    sent' = [x \in Registry |->
                IF breakers'[x].state # "HALF_OPEN" THEN {}
                ELSE IF x = m THEN sent[x] \cup {c} ELSE sent[x]]

RecordNothingSent ==
    sent' = [x \in Registry |->
                IF breakers'[x].state = "HALF_OPEN" THEN sent[x] ELSE {}]

\* resolveRoute, and the choice of the breaker that will hear the outcome.
Route(c, requested, deep, long) ==
    LET route == ResolveRoute(breakers, Target(requested, deep, long))
        m     == BreakerOf(route.selected)
    IN  /\ call[c].status = "idle"
        /\ breakers' = route.breakers
        /\ call' = [call EXCEPT ![c] = [status |-> "running", breaker |-> m,
                                        granted |-> route.granted]]
        /\ lastProbe' = IF route.granted /\ breakers'[m].isProbeInFlight
                        THEN [lastProbe EXCEPT ![m] = c] ELSE lastProbe
        /\ RecordSent(m, c)
        /\ UNCHANGED operatorActions

RouteSomehow(c) ==
    \E requested \in Requested, deep, long \in BOOLEAN :
        Route(c, requested, deep, long)

\* cb.recordSuccess() / cb.recordFailure()
Succeed(c) ==
    /\ Running(c)
    /\ breakers' = [breakers EXCEPT ![call[c].breaker] = RecordSuccess(@)]
    /\ call' = [call EXCEPT ![c].status = "succeeded"]
    /\ RecordNothingSent
    /\ UNCHANGED <<lastProbe, operatorActions>>

Fail(c) ==
    /\ Running(c)
    /\ breakers' = [breakers EXCEPT ![call[c].breaker] = RecordFailure(@)]
    /\ call' = [call EXCEPT ![c].status = "failed"]
    /\ RecordNothingSent
    /\ UNCHANGED <<lastProbe, operatorActions>>

Abort(c) ==
    /\ AllowAbort
    /\ Running(c)
    /\ call' = [call EXCEPT ![c].status = "aborted"]
    /\ UNCHANGED <<breakers, lastProbe, sent, operatorActions>>

\* Clients go on calling: a call that is over, and that no lease or trial is
\* put down to any more, makes room for another one.
CallAgain(c) ==
    /\ call[c].status \in {"succeeded", "failed", "aborted"}
    /\ \A m \in Protected : c \notin sent[m]
    /\ \A m \in Registry : breakers[m].isProbeInFlight => lastProbe[m] # c
    /\ call' = [call EXCEPT ![c] = Unrouted]
    /\ sent' = [m \in Registry |-> sent[m] \ {c}]
    /\ lastProbe' = [m \in Registry |-> IF lastProbe[m] = c THEN NoCall ELSE lastProbe[m]]
    /\ UNCHANGED <<breakers, operatorActions>>

\* GET /api/models and GET /api/stats read every breaker with getState().
Poll ==
    /\ breakers' = [m \in Registry |-> GetState(breakers[m])]
    /\ RecordNothingSent
    /\ UNCHANGED <<call, lastProbe, operatorActions>>

OperatorCommand ==
    /\ operatorActions < MaxOperatorActions
    /\ operatorActions' = operatorActions + 1
    /\ UNCHANGED <<call, lastProbe>>

TripCircuit(id) ==
    /\ OperatorCommand
    /\ breakers' = [breakers EXCEPT ![BreakerOf(id)] = ForceOpen(@)]
    /\ RecordNothingSent

ResetCircuits ==
    /\ OperatorCommand
    /\ breakers' = [m \in Registry |-> Reset(breakers[m])]
    /\ RecordNothingSent

Tick ==
    /\ breakers' = [m \in Registry |-> Elapse(breakers[m])]
    /\ UNCHANGED <<call, lastProbe, sent, operatorActions>>

Next ==
    \/ \E c \in Calls :
          RouteSomehow(c) \/ Succeed(c) \/ Fail(c) \/ Abort(c) \/ CallAgain(c)
    \/ Poll
    \/ \E id \in Registry : TripCircuit(id)
    \/ ResetCircuits
    \/ Tick

Spec == Init /\ [][Next]_vars

\* As for one breaker: time passes, streams end, a dashboard polls.
Fairness ==
    /\ WF_vars(Tick)
    /\ WF_vars(Poll)
    /\ \A c \in Calls : WF_vars(Succeed(c) \/ Fail(c))

FairSpec == Spec /\ Fairness

-----------------------------------------------------------------------------
\* A lease is taken only for a call that goes where the lease was taken:
\* asking the target and the candidates never leaves a lease behind on a
\* model that is not selected.
LeaseFollowsRoute ==
    [][\A m \in Registry :
          ~breakers[m].isProbeInFlight /\ breakers'[m].isProbeInFlight
          => \E c \in Calls : /\ call[c].status = "idle"
                              /\ call'[c].status = "running"
                              /\ call'[c].breaker = m]_vars

\* A held lease is accounted for by a call sent to that very model, running
\* or dropped by its client.
LeaseAccounted ==
    \A m \in Registry : breakers[m].isProbeInFlight =>
        /\ lastProbe[m] \in Calls
        /\ call[lastProbe[m]].breaker = m
        /\ call[lastProbe[m]].status \in {"running", "aborted"}

\* A call that every breaker refused can only be on the model of last
\* resort: the other models never see a call their breaker did not grant.
RefusedGoesToLastResort ==
    \A c \in Calls :
        call[c].status # "idle" /\ ~call[c].granted
        => call[c].breaker = LastResort

\* Every model but the last resort is promised what BreakerPromise says, with
\* the calls sent to it, by choice or as a fallback, as the trials.
Promise(m) ==
    INSTANCE BreakerPromise WITH
        CoolDown <- ResetTimeout, TrialLimit <- SuccessThreshold,
        mode <- breakers[m].state, remaining <- breakers[m].wait,
        trials <- Cardinality(sent[m])

ProtectedKeepPromise ==
    [][\A m \in Protected : Promise(m)!Next \/ UNCHANGED Promise(m)!vars]_vars

\* Every model but the last resort is tried again after its breaker opened,
\* however many calls go on failing; and every lease is freed unless its
\* client left.
EveryModelReturns ==
    /\ \A m \in Protected :
          (breakers[m].state = "OPEN") ~> (breakers[m].state # "OPEN")
    /\ \A m \in Registry :
          breakers[m].isProbeInFlight ~>
              (~breakers[m].isProbeInFlight \/ call[lastProbe[m]].status = "aborted")

-----------------------------------------------------------------------------
\* Claims the code does not keep.

\* "OPEN --> HALF_OPEN : Reset Timeout Elapsed (10s)"
\* (architecture/diagrams/system-architecture.md:198), for the last resort: it
\* gets calls while it is OPEN, and each that fails restarts the timeout.
LastResortReturns ==
    (breakers[LastResort].state = "OPEN") ~> (breakers[LastResort].state # "OPEN")

\* A request for a model whose breaker is OPEN is rerouted to a healthy one
\* (docs/demo.md:77 for mock-fast, docs/claims-audit.md:17).  Here: a call
\* is never sent to a model whose breaker stays OPEN, as long as some model
\* is CLOSED.
OpenModelIsAvoided ==
    [][\A c \in Calls :
          call[c].status = "idle" /\ call'[c].status = "running"
          /\ (\E m \in Registry : breakers[m].state = "CLOSED")
          => breakers'[call'[c].breaker].state # "OPEN"]_vars
=============================================================================
