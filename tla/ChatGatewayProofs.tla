-------------------------- MODULE ChatGatewayProofs --------------------------
(***************************************************************************)
(* The safety of the chat handler with its components, for any requests,   *)
(* conversations, limits, models and thresholds.                           *)
(***************************************************************************)
EXTENDS ChatGateway, TLAPS, FiniteSetTheorems

\* The phases by what the components have been asked: nothing but the key;
\* the limiter; a model; nothing any more but the end of the stream.
Arriving == {"idle", "idempotency", "conversation"}
Serving  == {"saveUser", "start", "infer"}
Ending   == {"saveAssistant", "recordSuccess", "recordError", "finally"}

KeySteps == {"idle", "get", "set", "running", "ended", "conflict"}
LeaseKey == {k \in [value : Int, ttl : Int] : Limiter!Exists(k) \/ k.value = 0}

\* The types the proofs need.
Shape ==
    /\ phase \in [Requests -> Phases]
    /\ thread \in [Requests -> Threads]
    /\ closed \in [Requests -> BOOLEAN]
    /\ aborted \in [Requests -> BOOLEAN]
    /\ log \in [Threads -> Seq(Turn)]
    /\ history \in [Requests -> [arrived : Nat, read : Nat]]
    /\ stats \in Stats
    /\ keyPc \in [Keyed -> KeySteps]
    /\ limitPc \in [Requests -> Limiter!Steps]
    /\ lease \in LeaseKey
    /\ breakers \in [Registry -> Router!Breaker]
    /\ call \in [Requests -> Router!CallRecord]
    /\ lastProbe \in [Registry -> Requests \cup {Router!NoCall}]

\* Where a request is in the handler and where the components have it.
Agrees(r) ==
    /\ phase[r] = "idempotency" => r \in Keyed
    /\ phase[r] \in Arriving => limitPc[r] = "idle"
    /\ phase[r] = "limit" =>
          limitPc[r] \in {"idle", "concurrency", "rpm", "rpmExpire", "tpm",
                          "tpmExpire", "acquire", "expire"}
    /\ phase[r] \in {"route", "thrown"} \cup Serving \cup Ending =>
          limitPc[r] = "streaming"
    /\ phase[r] = "release" =>
          limitPc[r] \in {"release", "delete", "decrement", "expireAgain"}
    /\ phase[r] = "ended" => limitPc[r] \in {"idle", "rejected", "done"}
    /\ phase[r] \in Arriving \cup {"limit", "route"} => call[r].status = "idle"
    /\ phase[r] \in Serving => call[r].status = "running"
    /\ phase[r] = "thrown" => call[r].status \in {"idle", "running"}
    /\ phase[r] \in Ending \cup {"release", "ended"} => call[r].status # "running"
    /\ phase[r] = "ended" /\ r \in Keyed => keyPc[r] \in {"conflict", "ended"}
    /\ aborted[r] => closed[r]
    /\ call[r].status = "aborted" => aborted[r]

PhasesAgree == \A r \in Requests : Agrees(r)

\* A held probe lease was taken for a call that goes to that model, and that
\* runs or was cut off by its client.
Accounted(m) ==
    /\ lastProbe[m] \in Requests
    /\ call[lastProbe[m]].breaker = m
    /\ call[lastProbe[m]].status \in {"running", "aborted"}

ProbesAccounted == \A m \in Registry : breakers[m].isProbeInFlight => Accounted(m)

-----------------------------------------------------------------------------
(* The commands of the rate limiter *)

\* One command of checkAndAcquire moves the request that sends it.
LEMMA CheckMoves ==
    ASSUME Shape, NEW r \in Requests, Limiter!Check(r)
    PROVE  \E step \in {"concurrency", "rpm", "rpmExpire", "tpm", "tpmExpire",
                        "acquire", "expire", "rejected", "streaming"} :
              limitPc' = [limitPc EXCEPT ![r] = step]
<1> USE DEF Limiter!Goto
<1>1. CASE Limiter!Begin(r)
  BY <1>1 DEF Limiter!Begin
<1>2. CASE Limiter!CheckConcurrency(r)
  BY <1>2 DEF Limiter!CheckConcurrency
<1>3. CASE Limiter!CountRequest(r)
  BY <1>3 DEF Limiter!CountRequest
<1>4. CASE Limiter!CountTokens(r)
  BY <1>4 DEF Limiter!CountTokens
<1>5. CASE Limiter!Acquire(r)
  BY <1>5 DEF Limiter!Acquire
<1>6. CASE Limiter!SetExpiry(r)
  BY <1>6 DEF Limiter!SetExpiry
<1>7. CASE Limiter!ExpireRequests(r) \/ Limiter!ExpireTokens(r)
  BY <1>7 DEF Limiter!ExpireRequests, Limiter!ExpireTokens
<1> QED
  BY <1>1, <1>2, <1>3, <1>4, <1>5, <1>6, <1>7 DEF Limiter!Check

\* So does one command of releaseConcurrency.
LEMMA ReleaseMoves ==
    ASSUME Shape, NEW r \in Requests, Limiter!Release(r)
    PROVE  \E step \in {"release", "delete", "decrement", "expireAgain", "done"} :
              /\ limitPc' = [limitPc EXCEPT ![r] = step]
              /\ limitPc[r] # "streaming" => step # "release"
<1> USE DEF Limiter!Goto
<1>1. CASE Limiter!EndStream(r)
  BY <1>1 DEF Limiter!EndStream
<1>2. CASE Limiter!ReadForRelease(r)
  BY <1>2 DEF Limiter!ReadForRelease
<1>3. CASE Limiter!DeleteLease(r)
  BY <1>3 DEF Limiter!DeleteLease
<1>4. CASE Limiter!DecrementLease(r)
  BY <1>4 DEF Limiter!DecrementLease
<1>5. CASE Limiter!SetExpiryAgain(r)
  BY <1>5 DEF Limiter!SetExpiryAgain
<1> QED
  BY <1>1, <1>2, <1>3, <1>4, <1>5 DEF Limiter!Release

\* The commands keep the key a key.
LEMMA CommandsKeepKey ==
    ASSUME NEW k \in LeaseKey, NEW n \in Int
    PROVE  /\ Limiter!IncrBy(k, n) \in LeaseKey
           /\ Limiter!IncrBy(k, n).value = k.value + n
           /\ Limiter!IncrInMap(k, n, StreamTtl) \in LeaseKey
           /\ Limiter!IncrInMap(k, n, StreamTtl).value = k.value + n
           /\ Limiter!Expire(k, StreamTtl) \in LeaseKey
           /\ Limiter!Expire(k, StreamTtl).value = k.value
           /\ Limiter!Delete(k) \in LeaseKey
           /\ Limiter!Delete(k).value = 0
           /\ Limiter!Age(k) \in LeaseKey
           /\ Limiter!Age(k).value \in {k.value, 0}
<1> USE GatewayAssumption DEF LeaseKey, Limiter!NoKey, Limiter!NoExpiry, Limiter!Exists
<1>1. /\ Limiter!IncrBy(k, n) \in LeaseKey
      /\ Limiter!IncrBy(k, n).value = k.value + n
  BY DEF Limiter!IncrBy
<1>2. /\ Limiter!IncrInMap(k, n, StreamTtl) \in LeaseKey
      /\ Limiter!IncrInMap(k, n, StreamTtl).value = k.value + n
  BY DEF Limiter!IncrInMap
<1>3. /\ Limiter!Expire(k, StreamTtl) \in LeaseKey
      /\ Limiter!Expire(k, StreamTtl).value = k.value
  BY DEF Limiter!Expire
<1>4. /\ Limiter!Delete(k) \in LeaseKey
      /\ Limiter!Delete(k).value = 0
  BY DEF Limiter!Delete, Limiter!Absent
<1>5. /\ Limiter!Age(k) \in LeaseKey
      /\ Limiter!Age(k).value \in {k.value, 0}
  BY DEF Limiter!Age, Limiter!Absent
<1> QED
  BY <1>1, <1>2, <1>3, <1>4, <1>5

-----------------------------------------------------------------------------
(* The operations of a breaker and the route *)

\* A breaker whose probe lease is held is HALF_OPEN.
Sound(b) == b \in Router!Breaker /\ (b.isProbeInFlight => b.state = "HALF_OPEN")

\* What an operation that takes no lease makes of breaker b.
Quieter(b, d) == Sound(d) /\ (d.isProbeInFlight => b.isProbeInFlight)

\* No operation but canExecute takes the lease of a probe.
LEMMA OperationsTakeNoLease ==
    ASSUME NEW b, Sound(b)
    PROVE  /\ Quieter(b, b)
           /\ Quieter(b, Router!Elapse(b))
           /\ Quieter(b, Router!GetState(b))
           /\ Quieter(b, Router!RecordSuccess(b))
           /\ Quieter(b, Router!RecordFailure(b))
           /\ Quieter(b, Router!Reset(b))
           /\ Quieter(b, Router!ForceOpen(b))
           /\ ~Router!RecordSuccess(b).isProbeInFlight
           /\ ~Router!RecordFailure(b).isProbeInFlight
<1> USE GatewayAssumption DEF Sound, Quieter, Router!Breaker, Router!CircuitState
<1>0. /\ b.failureCount + 1 \in Nat
      /\ b.consecutiveSuccesses + 1 \in Nat
      /\ ResetTimeout \in 0..ResetTimeout /\ 0 \in 0..ResetTimeout
      /\ b.wait > 0 => b.wait - 1 \in 0..ResetTimeout
  OBVIOUS
<1>1. Quieter(b, b)
  OBVIOUS
<1>2. Quieter(b, Router!Elapse(b))
  BY <1>0 DEF Router!Elapse
<1>3. Quieter(b, Router!GetState(b))
  BY DEF Router!GetState
<1>4. Quieter(b, Router!RecordSuccess(b)) /\ ~Router!RecordSuccess(b).isProbeInFlight
  <2> DEFINE counted == [b EXCEPT !.consecutiveSuccesses = @ + 1,
                                  !.isProbeInFlight = FALSE]
             nowClosed == [counted EXCEPT !.state = "CLOSED", !.failureCount = 0,
                                        !.consecutiveSuccesses = 0]
             stillShut == [b EXCEPT !.failureCount = 0, !.state = "CLOSED"]
  <2>1. counted \in Router!Breaker /\ counted.isProbeInFlight = FALSE
    BY <1>0
  <2>2. nowClosed \in Router!Breaker /\ nowClosed.isProbeInFlight = FALSE
    BY <2>1
  <2>3. b.state # "HALF_OPEN" =>
           stillShut\in Router!Breaker /\ stillShut.isProbeInFlight = FALSE
    OBVIOUS
  <2> HIDE DEF nowClosed, counted, stillShut
  <2>4. Router!RecordSuccess(b) \in Router!Breaker
        /\ Router!RecordSuccess(b).isProbeInFlight = FALSE
    BY <2>1, <2>2, <2>3, Zenon
       DEF Router!RecordSuccess, counted, nowClosed, stillShut
  <2> QED
    BY <2>4
<1>5. Quieter(b, Router!RecordFailure(b)) /\ ~Router!RecordFailure(b).isProbeInFlight
  BY <1>0 DEF Router!RecordFailure
<1>6. Quieter(b, Router!Reset(b))
  BY <1>0 DEF Router!Reset, Router!NewBreaker
<1>7. Quieter(b, Router!ForceOpen(b))
  BY <1>0 DEF Router!ForceOpen
<1> QED
  BY <1>1, <1>2, <1>3, <1>4, <1>5, <1>6, <1>7

\* Asking takes a lease only of a breaker that is asked and admits.
LEMMA AskTakesItsLease ==
    ASSUME NEW bs \in [Registry -> Router!Breaker], \A m \in Registry : Sound(bs[m]),
           NEW asked
    PROVE  /\ Router!Ask(bs, asked) \in [Registry -> Router!Breaker]
           /\ \A m \in Registry :
                 /\ Sound(Router!Ask(bs, asked)[m])
                 /\ Router!Ask(bs, asked)[m].isProbeInFlight /\ ~bs[m].isProbeInFlight
                    => m \in asked /\ Router!Admits(bs[m])
<1>1. ASSUME NEW m \in Registry
      PROVE  /\ Sound(Router!CanExecute(bs[m]))
             /\ Router!CanExecute(bs[m]).isProbeInFlight /\ ~bs[m].isProbeInFlight
                => Router!Admits(bs[m])
  BY DEF Sound, Router!Breaker, Router!CircuitState, Router!CanExecute,
         Router!GetState, Router!Admits
<1> QED
  BY <1>1 DEF Router!Ask, Sound

\* Of the candidates asked, the one that grants is the one selected.
LEMMA GrantedIsSelected ==
    ASSUME NEW bs, NEW cs \in Seq(Registry),
           NEW m \in Router!Asked(bs, cs), Router!Admits(bs[m])
    PROVE  Router!FirstHealthy(bs, cs) = m
<1> DEFINE healthy == Router!Healthy(bs, cs)
           first == CHOOSE k \in healthy : \A j \in healthy : k <= j
<1>1. PICK i \in 1..Len(cs) : m = cs[i] /\ \A j \in 1..(i - 1) : j \notin healthy
  BY DEF Router!Asked
<1>2. i \in healthy /\ healthy \subseteq 1..Len(cs)
  BY <1>1 DEF Router!Healthy
<1> HIDE DEF healthy
<1>3. \A j \in healthy : i <= j
  BY <1>1, <1>2
<1>4. first \in healthy /\ \A j \in healthy : first <= j
  BY <1>2, <1>3
<1> HIDE DEF first
<1>5. first \in Int /\ i \in Int /\ first <= i /\ i <= first
  BY <1>2, <1>3, <1>4
<1>6. first = i
  BY <1>5
<1> QED
  BY <1>1, <1>2, <1>6 DEF Router!FirstHealthy, first, healthy

\* A route takes a lease of no breaker but that of the model it selects.
LEMMA RouteTakesItsLease ==
    ASSUME NEW bs \in [Registry -> Router!Breaker], \A x \in Registry : Sound(bs[x]),
           NEW target
    PROVE  LET route == Router!ResolveRoute(bs, target)
               m     == Router!BreakerOf(route.selected)
           IN  /\ m \in Registry
               /\ route.granted \in BOOLEAN
               /\ route.breakers \in [Registry -> Router!Breaker]
               /\ \A x \in Registry :
                     /\ Sound(route.breakers[x])
                     /\ route.breakers[x].isProbeInFlight /\ ~bs[x].isProbeInFlight
                        => route.granted /\ x = m
<1> DEFINE route == Router!ResolveRoute(bs, target)
           m     == Router!BreakerOf(route.selected)
           own   == Router!BreakerOf(target)
           bs1   == Router!Ask(bs, {own})
           cs    == Router!FallbackCandidates(target)
           asked == Router!Asked(bs1, cs)
<1>0. /\ own \in Registry /\ m \in Registry
      /\ cs \in Seq(Registry)
      /\ \A x \in Registry : Router!BreakerOf(x) = x
  BY GatewayAssumption
     DEF Router!BreakerOf, Router!LastResort, Router!FallbackCandidates
<1>1. /\ bs1 \in [Registry -> Router!Breaker]
      /\ \A x \in Registry :
            /\ Sound(bs1[x])
            /\ bs1[x].isProbeInFlight /\ ~bs[x].isProbeInFlight
               => x = own /\ Router!Admits(bs[own])
  BY AskTakesItsLease
<1>2. CASE Router!Admits(bs[own])
  <2>1. route.granted = TRUE /\ route.selected = target /\ route.breakers = bs1
    BY <1>2 DEF Router!ResolveRoute
  <2>2. m = own
    BY <2>1
  <2> HIDE DEF route, bs1, m
  <2> QED
    BY <1>0, <1>1, <2>1, <2>2 DEF route, m
<1>3. CASE ~Router!Admits(bs[own])
  <2>1. /\ route.granted = (Router!Healthy(bs1, cs) # {})
        /\ route.selected = Router!FirstHealthy(bs1, cs)
        /\ route.breakers = Router!Ask(bs1, asked)
    BY <1>3 DEF Router!ResolveRoute
  <2>2. /\ Router!Ask(bs1, asked) \in [Registry -> Router!Breaker]
        /\ \A x \in Registry :
              /\ Sound(Router!Ask(bs1, asked)[x])
              /\ Router!Ask(bs1, asked)[x].isProbeInFlight /\ ~bs1[x].isProbeInFlight
                 => x \in asked /\ Router!Admits(bs1[x])
    BY <1>1, AskTakesItsLease
  <2>3. ASSUME NEW x \in Registry, route.breakers[x].isProbeInFlight,
               ~bs[x].isProbeInFlight
        PROVE  route.granted /\ x = m
    <3>1. x \in asked /\ Router!Admits(bs1[x])
      BY <1>1, <1>3, <2>1, <2>2, <2>3
    <3>2. Router!FirstHealthy(bs1, cs) = x
      BY <1>0, <3>1, GrantedIsSelected DEF asked
    <3>3. Router!Healthy(bs1, cs) # {}
      BY <3>1 DEF Router!Asked, Router!Healthy
    <3> QED
      BY <1>0, <2>1, <3>2, <3>3
  <2> HIDE DEF route, m
  <2> QED
    BY <1>0, <2>1, <2>2, <2>3 DEF route, m
<1> QED
  BY <1>2, <1>3


-----------------------------------------------------------------------------
(* The steps of the router *)

AllSound == \A m \in Registry : Sound(breakers[m])

\* A route starts the call, and the lease it takes, if any, is recorded.
LEMMA RouteStep ==
    ASSUME Shape, AllSound, NEW r \in Requests, Router!RouteSomehow(r)
    PROVE  \E m \in Registry, granting \in BOOLEAN :
              /\ breakers' \in [Registry -> Router!Breaker]
              /\ AllSound'
              /\ call[r].status = "idle"
              /\ call' = [call EXCEPT ![r] = [status |-> "running", breaker |-> m,
                                              granted |-> granting]]
              /\ lastProbe' = IF granting /\ breakers'[m].isProbeInFlight
                              THEN [lastProbe EXCEPT ![m] = r] ELSE lastProbe
              /\ \A x \in Registry :
                    breakers'[x].isProbeInFlight /\ ~breakers[x].isProbeInFlight
                    => granting /\ x = m
<1>1. PICK requested \in Requested, deep \in BOOLEAN, long \in BOOLEAN :
        Router!Route(r, requested, deep, long)
  BY DEF Router!RouteSomehow
<1> DEFINE route == Router!ResolveRoute(breakers, Router!Target(requested, deep, long))
           m     == Router!BreakerOf(route.selected)
<1>2. /\ m \in Registry
      /\ route.granted \in BOOLEAN
      /\ route.breakers \in [Registry -> Router!Breaker]
      /\ \A x \in Registry :
            /\ Sound(route.breakers[x])
            /\ route.breakers[x].isProbeInFlight /\ ~breakers[x].isProbeInFlight
               => route.granted /\ x = m
  BY RouteTakesItsLease DEF Shape, AllSound
<1>3. /\ call[r].status = "idle"
      /\ breakers' = route.breakers
      /\ call' = [call EXCEPT ![r] = [status |-> "running", breaker |-> m,
                                      granted |-> route.granted]]
      /\ lastProbe' = IF route.granted /\ breakers'[m].isProbeInFlight
                      THEN [lastProbe EXCEPT ![m] = r] ELSE lastProbe
  BY <1>1 DEF Router!Route
<1>4. AllSound'
  BY <1>2, <1>3 DEF AllSound
<1> HIDE DEF route, m
<1> QED
  BY <1>2, <1>3, <1>4

\* The end of a call, a poll, an operator or the clock takes no lease, and a
\* call that reports frees the one of its breaker.
RouterQuiet ==
    \/ \E r \in Requests : Router!Succeed(r) \/ Router!Fail(r) \/ Router!Abort(r)
    \/ Router!Poll
    \/ Router!ResetCircuits
    \/ \E id \in Registry : Router!TripCircuit(id)
    \/ Router!Tick
    \/ UNCHANGED routerVars

\* A step without canExecute takes no lease.
LEMMA QuietStep ==
    ASSUME Shape, AllSound, RouterQuiet
    PROVE  /\ breakers' \in [Registry -> Router!Breaker]
           /\ AllSound'
           /\ lastProbe' = lastProbe
           /\ \A m \in Registry :
                 breakers'[m].isProbeInFlight => breakers[m].isProbeInFlight
<1> DEFINE Goal == /\ breakers' = [m \in Registry |-> breakers'[m]]
                   /\ \A m \in Registry : Quieter(breakers[m], breakers'[m])
                   /\ lastProbe' = lastProbe
<1>0. SUFFICES Goal
  <2>1. ASSUME Goal
        PROVE  breakers' \in [Registry -> Router!Breaker]
    BY <2>1 DEF Quieter, Sound
  <2> QED
    BY <2>1 DEF AllSound, Quieter
<1>1. \A m \in Registry : Sound(breakers[m])
  BY DEF AllSound
<1>2. breakers = [m \in Registry |-> breakers[m]]
  BY DEF Shape
<1>3. ASSUME NEW r \in Requests, Router!Succeed(r)
      PROVE  Goal
  BY <1>1, <1>2, <1>3, OperationsTakeNoLease DEF Router!Succeed
<1>4. ASSUME NEW r \in Requests, Router!Fail(r)
      PROVE  Goal
  BY <1>1, <1>2, <1>4, OperationsTakeNoLease DEF Router!Fail
<1>5. ASSUME NEW r \in Requests, Router!Abort(r)
      PROVE  Goal
  BY <1>1, <1>2, <1>5, OperationsTakeNoLease DEF Router!Abort
<1>6. CASE Router!Poll
  BY <1>1, <1>6, OperationsTakeNoLease DEF Router!Poll
<1>7. CASE Router!ResetCircuits
  BY <1>1, <1>7, OperationsTakeNoLease DEF Router!ResetCircuits, Router!OperatorCommand
<1>8. ASSUME NEW id \in Registry, Router!TripCircuit(id)
      PROVE  Goal
  BY <1>1, <1>2, <1>8, OperationsTakeNoLease DEF Router!TripCircuit, Router!OperatorCommand
<1>9. CASE Router!Tick
  BY <1>1, <1>9, OperationsTakeNoLease DEF Router!Tick
<1>10. CASE UNCHANGED routerVars
  BY <1>1, <1>2, <1>10, OperationsTakeNoLease DEF routerVars
<1> QED
  BY <1>3, <1>4, <1>5, <1>6, <1>7, <1>8, <1>9, <1>10 DEF RouterQuiet


-----------------------------------------------------------------------------
(* Types and phases *)

\* The commands of the two keys and of the limiter keep the shapes.
LEMMA LimiterKeepsShape ==
    ASSUME Shape, NEW r \in Requests, Limiter!Check(r) \/ Limiter!Release(r)
    PROVE  limitPc' \in [Requests -> Limiter!Steps] /\ lease' \in LeaseKey
<1>1. limitPc' \in [Requests -> Limiter!Steps]
  <2>1. PICK step \in {"concurrency", "rpm", "rpmExpire", "tpm", "tpmExpire",
                       "acquire", "expire", "rejected", "streaming", "release",
                       "delete", "decrement", "expireAgain", "done"} :
           limitPc' = [limitPc EXCEPT ![r] = step]
    BY CheckMoves, ReleaseMoves
  <2>2. step \in Limiter!Steps
    BY DEF Limiter!Steps, Limiter!Checking, Limiter!Checked, Limiter!Live,
           Limiter!Releasing, Limiter!Ended
  <2> QED
    BY <2>1, <2>2 DEF Shape
<1>2. lease \in LeaseKey
  BY DEF Shape
<1>3. \/ lease' \in {Limiter!IncrBy(lease, 1), Limiter!IncrBy(lease, -1),
                     Limiter!IncrInMap(lease, 1, StreamTtl),
                     Limiter!IncrInMap(lease, -1, StreamTtl),
                     Limiter!Expire(lease, StreamTtl), Limiter!Delete(lease)}
      \/ lease' = lease
  BY DEF Limiter!Check, Limiter!Release, Limiter!Begin, Limiter!CheckConcurrency,
         Limiter!CountRequest, Limiter!ExpireRequests, Limiter!CountTokens,
         Limiter!ExpireTokens, Limiter!Acquire, Limiter!SetExpiry, Limiter!EndStream, Limiter!ReadForRelease,
         Limiter!DeleteLease, Limiter!DecrementLease, Limiter!SetExpiryAgain,
         Limiter!keys
<1>4. 1 \in Int /\ -1 \in Int
  OBVIOUS
<1>5. /\ Limiter!IncrBy(lease, 1) \in LeaseKey
      /\ Limiter!IncrBy(lease, -1) \in LeaseKey
      /\ Limiter!IncrInMap(lease, 1, StreamTtl) \in LeaseKey
      /\ Limiter!IncrInMap(lease, -1, StreamTtl) \in LeaseKey
      /\ Limiter!Expire(lease, StreamTtl) \in LeaseKey
      /\ Limiter!Delete(lease) \in LeaseKey
  BY <1>2, <1>4, CommandsKeepKey
<1> QED
  BY <1>1, <1>2, <1>3, <1>5

\* Counting in the statistics.
LEMMA CountersCount ==
    ASSUME NEW s \in Stats
    PROVE  /\ [s EXCEPT !.activeStreams = @ + 1] \in Stats
           /\ [s EXCEPT !.activeStreams = IF @ > 0 THEN @ - 1 ELSE 0] \in Stats
           /\ [s EXCEPT !.totalRequests = @ + 1, !.totalRateLimits = @ + 1] \in Stats
           /\ [s EXCEPT !.successRows = @ + 1, !.totalRequests = @ + 1] \in Stats
           /\ [s EXCEPT !.totalErrors = @ + 1, !.totalRequests = @ + 1] \in Stats
           /\ [s EXCEPT !.errorRows = @ + 1] \in Stats
<1>1. /\ s.activeStreams + 1 \in Nat /\ s.totalRequests + 1 \in Nat
      /\ s.totalRateLimits + 1 \in Nat /\ s.successRows + 1 \in Nat
      /\ s.totalErrors + 1 \in Nat /\ s.errorRows + 1 \in Nat
      /\ (IF s.activeStreams > 0 THEN s.activeStreams - 1 ELSE 0) \in Nat
  BY DEF Stats
<1> QED
  BY <1>1, Zenon DEF Stats

\* A call keeps its type.
LEMMA CallsStayCalls ==
    ASSUME Shape, NEW r \in Requests,
           NEW outcome \in {"succeeded", "failed", "aborted"}
    PROVE  [call EXCEPT ![r].status = outcome] \in [Requests -> Router!CallRecord]
<1>1. [call[r] EXCEPT !.status = outcome] \in Router!CallRecord
  BY DEF Shape, Router!CallRecord
<1> QED
  BY <1>1 DEF Shape

\* A step of an attempt moves its place only, which keeps its type.
LEMMA KeyKeepsShape ==
    ASSUME Shape, NEW r \in Keyed,
           \/ Idempotency!Arrive(r) \/ Idempotency!Get(r) \/ Idempotency!Set(r)
           \/ Idempotency!End(r)
    PROVE  \E step \in KeySteps : keyPc' = [keyPc EXCEPT ![r] = step]
BY DEF Idempotency!Arrive, Idempotency!Get, Idempotency!Set, Idempotency!End,
       Idempotency!Goto, KeySteps

\* Each part of the invariant is kept by every step.
LEMMA TypeStep ==
    ASSUME Shape, AllSound, PhasesAgree, [Next]_vars
    PROVE  Shape' /\ AllSound'
<1>0. \A r \in Requests : \A outcome \in {"succeeded", "failed", "aborted"} :
         [call EXCEPT ![r].status = outcome] \in [Requests -> Router!CallRecord]
  BY CallsStayCalls
<1> USE GatewayAssumption DEF Shape, AllSound, At, Goto, Phases, clientVars,
        storeVars, keyVars, limiterVars, routerVars
<1>1. ASSUME NEW r \in Requests, Arrive(r)
      PROVE  Shape' /\ AllSound'
  <2>1. keyPc' \in [Keyed -> KeySteps]
    BY <1>1, KeyKeepsShape DEF Arrive
  <2>2. history' \in [Requests -> [arrived : Nat, read : Nat]]
    <3>1. Turns(r) \in Nat
      BY DEF Turns
    <3>2. history' = [history EXCEPT ![r].arrived = Turns(r)]
      BY <1>1 DEF Arrive
    <3> QED
      BY <3>1, <3>2
  <2> QED
    BY <1>1, <2>1, <2>2 DEF Arrive
<1>2. ASSUME NEW r \in Requests, AcquireKey(r)
      PROVE  Shape' /\ AllSound'
  <2>1. r \in Keyed
    BY <1>2 DEF AcquireKey, PhasesAgree, Agrees
  <2>2. keyPc' \in [Keyed -> KeySteps]
    BY <1>2, <2>1, KeyKeepsShape DEF AcquireKey
  <2> QED
    BY <1>2, <2>2 DEF AcquireKey
<1>3. ASSUME NEW r \in Requests, ResolveConversation(r)
      PROVE  Shape' /\ AllSound'
  <2>1. Turns(r) \in Nat
    BY DEF Turns
  <2> QED
    BY <1>3, <2>1 DEF ResolveConversation
<1>4. ASSUME NEW r \in Requests, CheckLimits(r)
      PROVE  Shape' /\ AllSound'
  <2>1. limitPc' \in [Requests -> Limiter!Steps] /\ lease' \in LeaseKey
    BY <1>4, LimiterKeepsShape DEF CheckLimits
  <2>2. keyPc' \in [Keyed -> KeySteps]
    BY <1>4, KeyKeepsShape DEF CheckLimits, EndKey
  <2>3. stats' \in Stats
    BY <1>4, CountersCount DEF CheckLimits
  <2> QED
    BY <1>4, <2>1, <2>2, <2>3 DEF CheckLimits
<1>5. ASSUME NEW r \in Requests, Route(r)
      PROVE  Shape' /\ AllSound'
  <2>1. PICK m \in Registry, granting \in BOOLEAN :
          /\ breakers' \in [Registry -> Router!Breaker]
          /\ AllSound'
          /\ call' = [call EXCEPT ![r] = [status |-> "running", breaker |-> m,
                                          granted |-> granting]]
          /\ lastProbe' = IF granting /\ breakers'[m].isProbeInFlight
                          THEN [lastProbe EXCEPT ![m] = r] ELSE lastProbe
    BY <1>5, RouteStep DEF Route
  <2>2. call' \in [Requests -> Router!CallRecord]
    BY <2>1 DEF Router!CallRecord
  <2>3. lastProbe' \in [Registry -> Requests \cup {Router!NoCall}]
    BY <2>1
  <2> QED
    BY <1>5, <2>1, <2>2, <2>3 DEF Route
<1>6. ASSUME NEW r \in Requests, NEW role \in {"user", "assistant"}, Save(r, role)
      PROVE  log' \in [Threads -> Seq(Turn)]
  <2>1. [role |-> role, of |-> r] \in Turn
    BY DEF Turn
  <2> QED
    BY <1>6, <2>1 DEF Save
<1>7. ASSUME NEW r \in Requests,
             SaveUserTurn(r) \/ SaveAssistantTurn(r)
      PROVE  Shape' /\ AllSound'
  BY <1>6, <1>7 DEF SaveUserTurn, SaveAssistantTurn
<1>8. ASSUME NEW r \in Requests, StartStream(r) \/ RecordSuccess(r) \/ RecordError(r)
      PROVE  Shape' /\ AllSound'
  <2>1. stats' \in Stats
    BY <1>8, CountersCount DEF StartStream, RecordSuccess, RecordError
  <2> QED
    BY <1>8, <2>1 DEF StartStream, RecordSuccess, RecordError
<1>9. ASSUME NEW r \in Requests, ClientLeaves(r)
      PROVE  Shape' /\ AllSound'
  BY <1>9 DEF ClientLeaves, Listening
<1>10. ASSUME RouterQuiet,
              call' \in [Requests -> Router!CallRecord],
              phase' \in [Requests -> Phases], stats' \in Stats,
              UNCHANGED <<clientVars, storeVars, keyVars, limiterVars>>
       PROVE  Shape' /\ AllSound'
  BY <1>10, QuietStep
<1>11. ASSUME NEW r \in Requests, Complete(r) \/ FailStream(r) \/ DropStream(r)
       PROVE  Shape' /\ AllSound'
  <2>1. Router!Succeed(r) \/ Router!Fail(r) \/ Router!Abort(r)
    BY <1>11 DEF Complete, FailStream, DropStream, Throw
  <2>2. call' \in [Requests -> Router!CallRecord]
    <3>1. PICK outcome \in {"succeeded", "failed", "aborted"} :
             call' = [call EXCEPT ![r].status = outcome]
      BY <2>1 DEF Router!Succeed, Router!Fail, Router!Abort
    <3>2. [call EXCEPT ![r].status = outcome] \in [Requests -> Router!CallRecord]
      BY <1>0
    <3> QED
      BY <3>1, <3>2
  <2>3. stats' \in Stats
    BY <1>11, CountersCount DEF Complete, FailStream, DropStream, Throw, CountError
  <2>4. RouterQuiet
    BY <2>1 DEF RouterQuiet
  <2> QED
    BY <1>10, <1>11, <2>2, <2>3, <2>4 DEF Complete, FailStream, DropStream, Throw
<1>12. ASSUME NEW r \in Requests, Finish(r) \/ ReleaseLease(r)
       PROVE  Shape' /\ AllSound'
  <2>1. Limiter!Release(r)
    BY <1>12 DEF Finish, ReleaseLease, Limiter!Release
  <2>2. limitPc' \in [Requests -> Limiter!Steps] /\ lease' \in LeaseKey
    BY <2>1, LimiterKeepsShape
  <2>3. keyPc' \in [Keyed -> KeySteps]
    BY <1>12, KeyKeepsShape DEF Finish, ReleaseLease, EndKey
  <2>4. stats' \in Stats
    BY <1>12, CountersCount DEF Finish, ReleaseLease
  <2> QED
    BY <1>12, <2>2, <2>3, <2>4 DEF Finish, ReleaseLease
<1>13. CASE Tick
  <2>1. lease' \in LeaseKey /\ limitPc' = limitPc /\ keyPc' = keyPc
    BY <1>13, CommandsKeepKey DEF Tick, Limiter!Tick, Idempotency!Tick
  <2>2. RouterQuiet /\ call' = call
    BY <1>13 DEF Tick, RouterQuiet, Router!Tick
  <2> QED
    BY <1>13, <2>1, <2>2, QuietStep DEF Tick
<1>14. CASE Observe
  <2>1. RouterQuiet /\ call' = call
    BY <1>14 DEF Observe, RouterQuiet, Router!Poll, Router!ResetCircuits,
                 Router!TripCircuit, Router!OperatorCommand
  <2> QED
    BY <1>10, <1>14, <2>1 DEF Observe
<1>15. ASSUME NEW r \in Requests, RefuseHeaders(r) \/ RouteThrows(r)
       PROVE  Shape' /\ AllSound'
  <2>1. keyPc' \in [Keyed -> KeySteps]
    BY <1>15, KeyKeepsShape DEF RefuseHeaders, RouteThrows, EndKey
  <2> QED
    BY <1>15, <2>1 DEF RefuseHeaders, RouteThrows
<1>16. CASE UNCHANGED vars
  BY <1>16 DEF vars
<1> QED
  BY <1>1, <1>2, <1>3, <1>4, <1>5, <1>7, <1>8, <1>9, <1>11, <1>12, <1>13, <1>14,
     <1>15, <1>16 DEF Next, Handle


\* A request that a step does not touch stays where it was.
LEMMA OthersAgree ==
    ASSUME PhasesAgree, NEW q \in Requests,
           phase'[q] = phase[q], limitPc'[q] = limitPc[q], call'[q] = call[q],
           q \in Keyed => keyPc'[q] = keyPc[q],
           closed'[q] = closed[q], aborted'[q] = aborted[q]
    PROVE  Agrees(q)'
BY DEF PhasesAgree, Agrees

LEMMA PhasesStep ==
    ASSUME Shape, AllSound, PhasesAgree, [Next]_vars
    PROVE  PhasesAgree'
<1> SUFFICES ASSUME NEW q \in Requests
             PROVE  Agrees(q)'
  BY DEF PhasesAgree
<1>0. Agrees(q)
  BY DEF PhasesAgree
<1> USE DEF At, Goto, Phases, clientVars, storeVars, keyVars, limiterVars, routerVars
\* What a request is moved by, and that nobody else is.
<1>1. ASSUME NEW r \in Keyed,
             \/ Idempotency!Arrive(r) \/ Idempotency!Get(r) \/ Idempotency!Set(r)
             \/ Idempotency!End(r)
      PROVE  q # r /\ q \in Keyed => keyPc'[q] = keyPc[q]
  BY <1>1, KeyKeepsShape DEF Shape
<1>2. ASSUME NEW r \in Requests, Limiter!Check(r) \/ Limiter!Release(r)
      PROVE  q # r => limitPc'[q] = limitPc[q]
  BY <1>2, CheckMoves, ReleaseMoves DEF Shape
<1>3. ASSUME NEW r \in Requests,
             \/ Router!RouteSomehow(r) \/ Router!Succeed(r) \/ Router!Fail(r)
             \/ Router!Abort(r)
      PROVE  q # r => call'[q] = call[q]
  BY <1>3, RouteStep DEF Shape, Router!Succeed, Router!Fail, Router!Abort
<1>4. ASSUME NEW r \in Requests, Arrive(r)
      PROVE  Agrees(q)'
  <2>1. CASE q = r
    BY <1>0, <1>4, <2>1 DEF Arrive, Agrees, Arriving, Serving, Ending, Shape
  <2>2. CASE q # r
    BY <1>1, <1>4, <2>2, OthersAgree DEF Arrive, Shape
  <2> QED
    BY <2>1, <2>2
<1>5. ASSUME NEW r \in Requests, AcquireKey(r)
      PROVE  Agrees(q)'
  <2>1. r \in Keyed
    BY <1>5 DEF AcquireKey, PhasesAgree, Agrees
  <2>2. CASE q = r
    <3>1. \/ phase'[r] = "ended" /\ keyPc'[r] = "conflict"
          \/ phase'[r] \in {"conversation", "idempotency"}
      BY <1>5 DEF AcquireKey, Shape
    <3> QED
      BY <1>0, <1>5, <2>1, <2>2, <3>1
         DEF AcquireKey, Agrees, Arriving, Serving, Ending, Shape
  <2>3. CASE q # r
    BY <1>1, <1>5, <2>1, <2>3, OthersAgree DEF AcquireKey, Shape
  <2> QED
    BY <2>2, <2>3
<1>6. ASSUME NEW r \in Requests, CheckLimits(r)
      PROVE  Agrees(q)'
  <2>1. CASE q = r
    <3>1. PICK step \in {"concurrency", "rpm", "rpmExpire", "tpm", "tpmExpire",
                         "acquire", "expire", "rejected", "streaming"} :
            limitPc' = [limitPc EXCEPT ![r] = step]
      BY <1>6, CheckMoves DEF CheckLimits
    <3>2. /\ limitPc'[r] = step
          /\ phase'[r] = CASE step = "rejected"  -> "ended"
                           [] step = "streaming" -> "route"
                           [] OTHER              -> "limit"
      BY <1>6, <3>1 DEF CheckLimits, Shape
    <3>3. step = "rejected" /\ r \in Keyed => keyPc'[r] = "ended"
      BY <1>6, <3>1, <3>2 DEF CheckLimits, Shape, EndKey, Idempotency!End, Idempotency!Goto
    <3> QED
      BY <1>0, <1>6, <2>1, <3>2, <3>3
         DEF CheckLimits, Agrees, Arriving, Serving, Ending, Shape
  <2>2. CASE q # r
    <3>1. q \in Keyed => keyPc'[q] = keyPc[q]
      BY <1>1, <1>6, <2>2 DEF CheckLimits, EndKey
    <3> QED
      BY <1>2, <1>6, <2>2, <3>1, OthersAgree DEF CheckLimits, Shape
  <2> QED
    BY <2>1, <2>2
<1>7. ASSUME NEW r \in Requests, Route(r)
      PROVE  Agrees(q)'
  <2>1. CASE q = r
    <3>1. call'[r].status = "running"
      BY <1>7, RouteStep DEF Route, Shape
    <3> QED
      BY <1>0, <1>7, <2>1, <3>1 DEF Route, Agrees, Arriving, Serving, Ending, Shape
  <2>2. CASE q # r
    BY <1>3, <1>7, <2>2, OthersAgree DEF Route, Shape
  <2> QED
    BY <2>1, <2>2
\* Between two awaits of the handler nothing but the phase moves.
<1>8. ASSUME NEW r \in Requests,
             \/ ResolveConversation(r) \/ SaveUserTurn(r) \/ StartStream(r)
             \/ SaveAssistantTurn(r) \/ RecordSuccess(r) \/ RecordError(r)
      PROVE  Agrees(q)'
  <2>1. CASE q = r
    BY <1>0, <1>8, <2>1
       DEF ResolveConversation, SaveUserTurn, StartStream, SaveAssistantTurn,
           RecordSuccess, RecordError, Agrees, Arriving, Serving, Ending, Shape
  <2>2. CASE q # r
    BY <1>8, <2>2, OthersAgree
       DEF ResolveConversation, SaveUserTurn, StartStream, SaveAssistantTurn,
           RecordSuccess, RecordError, Shape
  <2> QED
    BY <2>1, <2>2
<1>9. ASSUME NEW r \in Requests, Complete(r) \/ FailStream(r) \/ DropStream(r)
      PROVE  Agrees(q)'
  <2>1. CASE q = r
    <3>1. /\ call'[r].status \in {"succeeded", "failed", "aborted"}
          /\ call'[r].status = "aborted" => aborted[r]
      BY <1>9 DEF Complete, FailStream, DropStream, Throw, Router!Succeed,
                  Router!Fail, Router!Abort, Shape, Router!CallRecord
    <3> QED
      BY <1>0, <1>9, <2>1, <3>1
         DEF Complete, FailStream, DropStream, Throw, Agrees, Arriving, Serving,
             Ending, Shape
  <2>2. CASE q # r
    BY <1>3, <1>9, <2>2, OthersAgree DEF Complete, FailStream, DropStream, Throw, Shape
  <2> QED
    BY <2>1, <2>2
<1>10. ASSUME NEW r \in Requests, Finish(r)
       PROVE  Agrees(q)'
  <2>1. CASE q = r
    BY <1>0, <1>10, <2>1
       DEF Finish, Agrees, Arriving, Serving, Ending, Shape, Limiter!EndStream,
           Limiter!Goto
  <2>2. CASE q # r
    BY <1>2, <1>10, <2>2, OthersAgree DEF Finish, Shape, Limiter!Release
  <2> QED
    BY <2>1, <2>2
<1>11. ASSUME NEW r \in Requests, ReleaseLease(r)
       PROVE  Agrees(q)'
  <2>1. CASE q = r
    <3>1. PICK step \in {"release", "delete", "decrement", "expireAgain", "done"} :
            limitPc' = [limitPc EXCEPT ![r] = step]
      BY <1>11, ReleaseMoves DEF ReleaseLease
    <3>2. /\ limitPc'[r] = step
          /\ phase'[r] = IF step = "done" THEN "ended" ELSE "release"
      BY <1>11, <3>1 DEF ReleaseLease, Shape
    <3>3. step = "done" /\ r \in Keyed => keyPc'[r] = "ended"
      BY <1>11, <3>1, <3>2
         DEF ReleaseLease, Shape, EndKey, Idempotency!End, Idempotency!Goto
    <3> QED
      BY <1>0, <1>11, <2>1, <3>2, <3>3
         DEF ReleaseLease, Agrees, Arriving, Serving, Ending, Shape
  <2>2. CASE q # r
    <3>1. q \in Keyed => keyPc'[q] = keyPc[q]
      BY <1>1, <1>11, <2>2 DEF ReleaseLease, EndKey
    <3> QED
      BY <1>2, <1>11, <2>2, <3>1, OthersAgree DEF ReleaseLease, Shape
  <2> QED
    BY <2>1, <2>2
<1>12. ASSUME NEW r \in Requests, ClientLeaves(r)
       PROVE  Agrees(q)'
  <2>1. CASE q = r
    BY <1>0, <1>12, <2>1 DEF ClientLeaves, Agrees, Arriving, Serving, Ending, Shape
  <2>2. CASE q # r
    BY <1>12, <2>2, OthersAgree DEF ClientLeaves, Shape
  <2> QED
    BY <2>1, <2>2
<1>13. CASE Tick \/ Observe
  BY <1>13, OthersAgree
     DEF Tick, Observe, Limiter!Tick, Idempotency!Tick, Router!Tick, Router!Poll,
         Router!ResetCircuits, Router!TripCircuit, Router!OperatorCommand
<1>14. ASSUME NEW r \in Requests, RefuseHeaders(r) \/ RouteThrows(r)
       PROVE  Agrees(q)'
  <2>1. CASE q = r
    BY <1>0, <1>14, <2>1
       DEF RefuseHeaders, RouteThrows, Agrees, Arriving, Serving, Ending, Shape
  <2>2. CASE q # r
    <3>1. q \in Keyed => keyPc'[q] = keyPc[q]
      BY <1>1, <1>14, <2>2 DEF RefuseHeaders, RouteThrows, EndKey
    <3> QED
      BY <1>14, <2>2, <3>1, OthersAgree DEF RefuseHeaders, RouteThrows, Shape
  <2> QED
    BY <2>1, <2>2
<1>15. CASE UNCHANGED vars
  BY <1>15, OthersAgree DEF vars
<1> QED
  BY <1>4, <1>5, <1>6, <1>7, <1>8, <1>9, <1>10, <1>11, <1>12, <1>13, <1>14, <1>15
     DEF Next, Handle


-----------------------------------------------------------------------------
(* The probe leases *)

LEMMA ProbesStep ==
    ASSUME Shape, AllSound, PhasesAgree, ProbesAccounted, [Next]_vars
    PROVE  ProbesAccounted'
<1> SUFFICES ASSUME NEW m \in Registry, breakers'[m].isProbeInFlight
             PROVE  Accounted(m)'
  BY DEF ProbesAccounted
\* A lease that is held on, for a call that was not touched.
<1>1. ASSUME breakers[m].isProbeInFlight, lastProbe' = lastProbe,
             call'[lastProbe[m]] = call[lastProbe[m]]
      PROVE  Accounted(m)'
  BY <1>1 DEF ProbesAccounted, Accounted
<1>2. ASSUME RouterQuiet, call' = call
      PROVE  Accounted(m)'
  BY <1>1, <1>2, QuietStep
<1>3. ASSUME NEW r \in Requests, Route(r)
      PROVE  Accounted(m)'
  <2>1. PICK x \in Registry, granting \in BOOLEAN :
          /\ call[r].status = "idle"
          /\ call' = [call EXCEPT ![r] = [status |-> "running", breaker |-> x,
                                          granted |-> granting]]
          /\ lastProbe' = IF granting /\ breakers'[x].isProbeInFlight
                          THEN [lastProbe EXCEPT ![x] = r] ELSE lastProbe
          /\ \A y \in Registry :
                breakers'[y].isProbeInFlight /\ ~breakers[y].isProbeInFlight
                => granting /\ y = x
    BY <1>3, RouteStep DEF Route
  <2>2. CASE granting /\ m = x
    BY <2>1, <2>2 DEF Accounted, Shape
  <2>3. CASE ~(granting /\ m = x)
    <3>1. breakers[m].isProbeInFlight /\ lastProbe'[m] = lastProbe[m]
      BY <2>1, <2>3 DEF Shape
    <3>2. Accounted(m)
      BY <3>1 DEF ProbesAccounted
    <3>3. call'[lastProbe[m]] = call[lastProbe[m]]
      BY <2>1, <3>2 DEF Accounted, Shape
    <3> QED
      BY <3>1, <3>2, <3>3 DEF Accounted
  <2> QED
    BY <2>2, <2>3
<1>4. ASSUME NEW r \in Requests, Router!Succeed(r) \/ Router!Fail(r)
      PROVE  Accounted(m)'
  <2>1. breakers[m].isProbeInFlight /\ lastProbe' = lastProbe
    BY <1>4, QuietStep DEF RouterQuiet
  <2>2. Sound(breakers[m]) /\ Accounted(m)
    BY <2>1 DEF AllSound, ProbesAccounted
  <2>3. call[r].breaker # m
    BY <1>4, <2>2, OperationsTakeNoLease DEF Router!Succeed, Router!Fail, Shape
  <2>4. r # lastProbe[m]
    BY <2>2, <2>3 DEF Accounted
  <2> QED
    BY <1>1, <1>4, <2>1, <2>2, <2>4 DEF Router!Succeed, Router!Fail, Accounted, Shape
<1>5. ASSUME NEW r \in Requests, Router!Abort(r)
      PROVE  Accounted(m)'
  <2>1. breakers[m].isProbeInFlight /\ lastProbe' = lastProbe
    BY <1>5, QuietStep DEF RouterQuiet
  <2>2. Accounted(m)
    BY <2>1 DEF ProbesAccounted
  <2>3. call[r] \in Router!CallRecord
    BY DEF Shape
  <2> QED
    BY <1>5, <2>1, <2>2, <2>3 DEF Router!Abort, Accounted, Shape, Router!CallRecord
<1>6. ASSUME NEW r \in Requests, Arrive(r) \/ Handle(r) \/ ClientLeaves(r)
      PROVE  Accounted(m)'
  <2>1. \/ Route(r)
        \/ Router!Succeed(r) \/ Router!Fail(r) \/ Router!Abort(r)
        \/ UNCHANGED routerVars
    BY <1>6 DEF Handle, Arrive, AcquireKey, ResolveConversation, CheckLimits,
                SaveUserTurn, StartStream, RefuseHeaders, RouteThrows, ClientLeaves, Complete,
                SaveAssistantTurn, RecordSuccess, Throw, FailStream, RecordError,
                DropStream, Finish, ReleaseLease
  <2>2. UNCHANGED routerVars => RouterQuiet /\ call' = call
    BY DEF RouterQuiet, routerVars
  <2> QED
    BY <1>2, <1>3, <1>4, <1>5, <2>1, <2>2
<1>7. CASE Tick \/ Observe \/ UNCHANGED vars
  <2>1. RouterQuiet /\ call' = call
    BY <1>7 DEF Tick, Observe, vars, RouterQuiet, routerVars, Router!Tick,
                Router!Poll, Router!ResetCircuits, Router!TripCircuit,
                Router!OperatorCommand
  <2> QED
    BY <1>2, <2>1
<1> QED
  BY <1>6, <1>7 DEF Next

\* What ProbesAccounted says in terms of the handler.
LEMMA AccountedIsServed ==
    ASSUME Shape, PhasesAgree, ProbesAccounted
    PROVE  ProbeIsServed
<1> SUFFICES ASSUME NEW m \in Registry, breakers[m].isProbeInFlight
             PROVE  \E r \in Requests :
                       /\ lastProbe[m] = r /\ call[r].breaker = m
                       /\ \/ phase[r] \in {"saveUser", "start", "infer"}
                          \/ aborted[r] /\ call[r].status = "aborted"
                          \/ phase[r] = "thrown"
  BY DEF ProbeIsServed
<1> DEFINE r == lastProbe[m]
<1>1. /\ r \in Requests /\ call[r].breaker = m
      /\ call[r].status \in {"running", "aborted"}
  BY DEF ProbesAccounted, Accounted
<1>2. Agrees(r) /\ phase[r] \in Phases
  BY <1>1 DEF PhasesAgree, Shape
<1>3. CASE call[r].status = "running"
  BY <1>1, <1>2, <1>3 DEF Agrees, Phases, Arriving, Serving, Ending
<1>4. CASE call[r].status = "aborted"
  BY <1>1, <1>2, <1>4 DEF Agrees
<1> QED
  BY <1>1, <1>3, <1>4

-----------------------------------------------------------------------------
(* The slots of the user *)

\* The requests that have counted themselves and not taken it back.
Slots   == {"expire", "streaming", "release", "delete", "decrement"}
Holding == {r \in Requests : limitPc[r] \in Slots}

\* The key never counts more than the requests that hold a slot.
SlotsHeld == lease.value <= Cardinality(Holding)

\* A request that moves comes in or goes out.
LEMMA HoldingMoves ==
    ASSUME Shape, NEW r \in Requests, NEW step,
           limitPc' = [limitPc EXCEPT ![r] = step]
    PROVE  /\ Cardinality(Holding) \in Nat
           /\ step \in Slots /\ limitPc[r] \in Slots =>
                 Cardinality(Holding') = Cardinality(Holding)
           /\ step \in Slots /\ limitPc[r] \notin Slots =>
                 Cardinality(Holding') = Cardinality(Holding) + 1
           /\ step \notin Slots /\ limitPc[r] \in Slots =>
                 Cardinality(Holding') = Cardinality(Holding) - 1
           /\ step \notin Slots /\ limitPc[r] \notin Slots =>
                 Cardinality(Holding') = Cardinality(Holding)
<1>1. IsFiniteSet(Holding)
  BY GatewayAssumption, FS_Subset DEF Holding
<1>2. Holding' = IF step \in Slots THEN Holding \cup {r} ELSE Holding \ {r}
  BY DEF Holding, Shape
<1>3. r \in Holding <=> limitPc[r] \in Slots
  BY DEF Holding
<1>4. /\ Cardinality(Holding) \in Nat
      /\ Cardinality(Holding \cup {r}) =
            IF r \in Holding THEN Cardinality(Holding) ELSE Cardinality(Holding) + 1
      /\ Cardinality(Holding \ {r}) =
            IF r \in Holding THEN Cardinality(Holding) - 1 ELSE Cardinality(Holding)
  BY <1>1, FS_CardinalityType, FS_AddElement, FS_RemoveElement
<1> QED
  BY <1>2, <1>3, <1>4

LEMMA SlotsStep ==
    ASSUME Shape, SlotsHeld, [Next]_vars
    PROVE  SlotsHeld'
<1>0. /\ lease \in LeaseKey /\ lease.value \in Int
      /\ Cardinality(Holding) \in Nat
  BY GatewayAssumption, FS_Subset, FS_CardinalityType DEF Shape, LeaseKey, Holding
<1>1. /\ 1 \in Int /\ -1 \in Int
      /\ Limiter!IncrBy(lease, 1).value = lease.value + 1
      /\ Limiter!IncrInMap(lease, 1, StreamTtl).value = lease.value + 1
      /\ Limiter!IncrBy(lease, -1).value = lease.value - 1
      /\ Limiter!IncrInMap(lease, -1, StreamTtl).value = lease.value - 1
      /\ Limiter!Expire(lease, StreamTtl).value = lease.value
      /\ Limiter!Delete(lease).value = 0
      /\ Limiter!Age(lease).value \in {lease.value, 0}
  <2>1. 1 \in Int /\ -1 \in Int /\ lease.value + (-1) = lease.value - 1
    BY <1>0
  <2> QED
    BY <1>0, <2>1, CommandsKeepKey
<1>2. ASSUME limitPc' = limitPc, lease'.value \in {lease.value, 0}
      PROVE  SlotsHeld'
  <2>1. Holding' = Holding
    BY <1>2 DEF Holding
  <2> QED
    BY <1>0, <1>2, <2>1 DEF SlotsHeld
<1>3a. ASSUME NEW r \in Requests, NEW step,
              limitPc' = [limitPc EXCEPT ![r] = step], lease' = lease,
              step \in Slots <=> limitPc[r] \in Slots
       PROVE  SlotsHeld'
  BY <1>0, <1>3a, HoldingMoves DEF SlotsHeld
<1>3b. ASSUME NEW r \in Requests, limitPc[r] \in Slots
       PROVE  Cardinality(Holding) - 1 >= 0
  <2>1. r \in Holding /\ IsFiniteSet(Holding)
    BY <1>3b, GatewayAssumption, FS_Subset DEF Holding
  <2>2. Cardinality(Holding) # 0
    BY <2>1, FS_EmptySet
  <2> QED
    BY <1>0, <2>2
<1>3. ASSUME NEW r \in Requests, Limiter!Check(r)
      PROVE  SlotsHeld'
  <2> USE DEF SlotsHeld, Limiter!Goto, Slots
  <2>1. CASE Limiter!Begin(r)
    BY <1>3a, <2>1 DEF Limiter!Begin, Limiter!keys
  <2>2. CASE Limiter!CheckConcurrency(r)
    <3>1. PICK step \in {"rejected", "rpm"} : limitPc' = [limitPc EXCEPT ![r] = step]
      BY <2>2 DEF Limiter!CheckConcurrency
    <3> QED
      BY <1>3a, <2>2, <3>1 DEF Limiter!CheckConcurrency, Limiter!keys
  <2>3. CASE Limiter!CountRequest(r)
    <3>1. PICK step \in {"rejected", "rpmExpire", "tpm"} : limitPc' = [limitPc EXCEPT ![r] = step]
      BY <2>3 DEF Limiter!CountRequest
    <3> QED
      BY <1>3a, <2>3, <3>1 DEF Limiter!CountRequest
  <2>4. CASE Limiter!CountTokens(r)
    <3>1. PICK step \in {"rejected", "tpmExpire", "acquire"} : limitPc' = [limitPc EXCEPT ![r] = step]
      BY <2>4 DEF Limiter!CountTokens
    <3> QED
      BY <1>3a, <2>4, <3>1 DEF Limiter!CountTokens
  <2>5. CASE Limiter!Acquire(r)
    <3>1. PICK step \in {"expire", "streaming"} : limitPc' = [limitPc EXCEPT ![r] = step]
      BY <2>5 DEF Limiter!Acquire
    <3>2. Cardinality(Holding') = Cardinality(Holding) + 1
      BY <2>5, <3>1, HoldingMoves DEF Limiter!Acquire
    <3>3. lease'.value = lease.value + 1
      BY <1>1, <2>5 DEF Limiter!Acquire
    <3> QED
      BY <1>0, <3>2, <3>3
  <2>6. CASE Limiter!SetExpiry(r)
    BY <1>0, <1>1, <2>6, HoldingMoves DEF Limiter!SetExpiry
  <2>7. CASE Limiter!ExpireRequests(r)
    BY <1>3a, <2>7 DEF Limiter!ExpireRequests
  <2>8. CASE Limiter!ExpireTokens(r)
    <3>1. PICK step \in {"rejected", "acquire"} : limitPc' = [limitPc EXCEPT ![r] = step]
      BY <2>8 DEF Limiter!ExpireTokens
    <3> QED
      BY <1>3a, <2>8, <3>1 DEF Limiter!ExpireTokens
  <2> QED
    BY <1>3, <2>1, <2>2, <2>3, <2>4, <2>5, <2>6, <2>7, <2>8 DEF Limiter!Check
<1>4. ASSUME NEW r \in Requests, Limiter!Release(r)
      PROVE  SlotsHeld'
  <2> USE DEF SlotsHeld, Limiter!Goto, Slots
  <2>1. CASE Limiter!EndStream(r)
    BY <1>3a, <2>1 DEF Limiter!EndStream, Limiter!keys
  \* A key that is gone counts nothing, and then there is nothing to take back.
  <2>2. CASE Limiter!ReadForRelease(r)
    <3>1. PICK step \in {"done", "delete", "decrement"} :
             /\ limitPc' = [limitPc EXCEPT ![r] = step]
             /\ step = "done" => ~Limiter!Exists(lease)
      BY <2>2 DEF Limiter!ReadForRelease
    <3>2. lease' = lease /\ limitPc[r] = "release"
      BY <2>2 DEF Limiter!ReadForRelease, Limiter!keys
    <3>3. CASE step = "done"
      <4>1. lease.value = 0
        BY <1>0, <3>1, <3>3 DEF LeaseKey
      <4>2. Cardinality(Holding') = Cardinality(Holding) - 1
        BY <3>1, <3>2, <3>3, HoldingMoves
      <4> QED
        BY <1>3b, <3>2, <4>1, <4>2
    <3> QED
      BY <1>3a, <3>1, <3>2, <3>3
  <2>3. CASE Limiter!DeleteLease(r)
    <3>1. limitPc[r] = "delete" /\ \E step \in {"done"} : limitPc' = [limitPc EXCEPT ![r] = step]
      BY <2>3 DEF Limiter!DeleteLease
    <3>2. Cardinality(Holding') = Cardinality(Holding) - 1
      BY <3>1, HoldingMoves
    <3>3. lease'.value = 0
      BY <1>1, <2>3 DEF Limiter!DeleteLease
    <3> QED
      BY <1>3b, <3>1, <3>2, <3>3
  <2>4. CASE Limiter!DecrementLease(r)
    <3>1. PICK step \in {"expireAgain", "done"} : limitPc' = [limitPc EXCEPT ![r] = step]
      BY <2>4 DEF Limiter!DecrementLease
    <3>2. Cardinality(Holding') = Cardinality(Holding) - 1
      BY <2>4, <3>1, HoldingMoves DEF Limiter!DecrementLease
    <3>3. lease'.value = lease.value - 1
      BY <1>1, <2>4 DEF Limiter!DecrementLease
    <3> QED
      BY <1>0, <3>2, <3>3
  <2>5. CASE Limiter!SetExpiryAgain(r)
    BY <1>0, <1>1, <2>5, HoldingMoves DEF Limiter!SetExpiryAgain
  <2> QED
    BY <1>4, <2>1, <2>2, <2>3, <2>4, <2>5 DEF Limiter!Release
<1>5. ASSUME NEW r \in Requests, Arrive(r) \/ Handle(r) \/ ClientLeaves(r)
      PROVE  SlotsHeld'
  <2>1. \/ Limiter!Check(r) \/ Limiter!Release(r)
        \/ limitPc' = limitPc /\ lease' = lease
    BY <1>5 DEF Handle, Arrive, AcquireKey, ResolveConversation, CheckLimits, Route,
                SaveUserTurn, StartStream, RefuseHeaders, RouteThrows, ClientLeaves, Complete,
                SaveAssistantTurn, RecordSuccess, Throw, FailStream, RecordError,
                DropStream, Finish, ReleaseLease, limiterVars, Limiter!Release
  <2> QED
    BY <1>2, <1>3, <1>4, <2>1
<1>6. CASE Tick
  BY <1>1, <1>2, <1>6 DEF Tick, Limiter!Tick
<1>7. CASE Observe \/ UNCHANGED vars
  BY <1>2, <1>7 DEF Observe, vars, limiterVars
<1> QED
  BY <1>5, <1>6, <1>7 DEF Next

\* What the phases and the slots say of the handlers that are done.
LEMMA SlotsAreFreed ==
    ASSUME Shape, PhasesAgree, SlotsHeld
    PROVE  NothingLeftBehind
<1>1. ASSUME NEW r \in Requests, phase[r] = "ended"
      PROVE  /\ limitPc[r] \in {"idle", "rejected", "done"}
             /\ call[r].status # "running"
             /\ r \in Keyed => keyPc[r] \in {"conflict", "ended"}
  BY <1>1 DEF PhasesAgree, Agrees
<1>2. ASSUME \A r \in Requests : phase[r] \in Over
      PROVE  lease.value <= Cardinality({r \in Requests : phase[r] = "thrown"})
  <2>1. Holding = {r \in Requests : phase[r] = "thrown"}
    BY <1>2 DEF Holding, Slots, Over, PhasesAgree, Agrees, Arriving
  <2> QED
    BY <2>1 DEF SlotsHeld
<1> QED
  BY <1>1, <1>2 DEF NothingLeftBehind

-----------------------------------------------------------------------------
(* What the conversations hold and what is read of them *)

\* The phases once the user's turn is saved, while the assistant's is awaited,
\* and once it may be there.
Asking   == {"start", "infer", "saveAssistant"}
Answered == {"recordSuccess", "finally", "release", "ended"}
Saved    == Asking \cup Answered \cup {"recordError", "thrown"}

Says(t, i, role, r) == log[t][i] = [role |-> role, of |-> r]

\* A turn is in its conversation because its handler has saved it, and an
\* answer comes after its question.
TurnsAreSaid ==
    \A t \in Threads : \A i \in 1..Len(log[t]) :
        /\ thread[log[t][i].of] = t
        /\ phase[log[t][i].of] \in Saved
        /\ log[t][i].role = "assistant" =>
              /\ phase[log[t][i].of] \in Answered
              /\ \E j \in 1..(i - 1) : Says(t, j, "user", log[t][i].of)

QuestionsAreThere ==
    \A r \in Requests : phase[r] \in Asking =>
        \E j \in 1..Turns(r) : Says(thread[r], j, "user", r)

Refused(r) == r \in Keyed /\ keyPc[r] = "conflict"

\* A request has read at least what was there when it arrived, and not itself.
ReadsWhatWasThere(r) ==
    /\ phase[r] \in {"idempotency", "conversation"} =>
          history[r].arrived <= Turns(r)
    /\ phase[r] \notin Arriving =>
          \/ Refused(r)
          \/ /\ history[r].arrived <= history[r].read
             /\ history[r].read <= Turns(r)
             /\ \A i \in 1..history[r].read : log[thread[r]][i].of # r

AllRead == \A r \in Requests : ReadsWhatWasThere(r)

\* A request stays with the conversation it is for.
LEMMA ThreadsStay ==
    ASSUME [Next]_vars
    PROVE  thread' = thread
BY DEF Next, Handle, Arrive, AcquireKey, ResolveConversation, CheckLimits, Route,
       SaveUserTurn, StartStream, RefuseHeaders, RouteThrows, ClientLeaves, Complete,
       SaveAssistantTurn, RecordSuccess, Throw, FailStream, RecordError, DropStream,
       Finish, ReleaseLease, Tick, Observe, vars, clientVars

\* Where a step takes a request, as far as the conversations are concerned.
LEMMA PhaseMoves ==
    ASSUME Shape, PhasesAgree, [Next]_vars, NEW q \in Requests
    PROVE  /\ phase[q] \in Saved => phase'[q] \in Saved
           /\ phase[q] \in Answered => phase'[q] \in Answered
           /\ phase'[q] \in Asking => phase[q] \in Asking \/ SaveUserTurn(q)
           /\ phase'[q] \in {"idempotency", "conversation"} =>
                 phase[q] \in {"idempotency", "conversation"} \/ Arrive(q)
           /\ phase'[q] \notin Arriving =>
                 \/ phase[q] \notin Arriving
                 \/ ResolveConversation(q)
                 \/ Refused(q)'
           /\ Refused(q) => Refused(q)'
           /\ history'[q] = history[q] \/ Arrive(q) \/ ResolveConversation(q)
<1> DEFINE Goal ==
           /\ phase[q] \in Saved => phase'[q] \in Saved
           /\ phase[q] \in Answered => phase'[q] \in Answered
           /\ phase'[q] \in Asking => phase[q] \in Asking \/ SaveUserTurn(q)
           /\ phase'[q] \in {"idempotency", "conversation"} =>
                 phase[q] \in {"idempotency", "conversation"} \/ Arrive(q)
           /\ phase'[q] \notin Arriving =>
                 \/ phase[q] \notin Arriving
                 \/ ResolveConversation(q)
                 \/ Refused(q)'
           /\ Refused(q) => Refused(q)'
           /\ history'[q] = history[q] \/ Arrive(q) \/ ResolveConversation(q)
<1> SUFFICES Goal
  OBVIOUS
<1>0. ASSUME phase'[q] = phase[q], history'[q] = history[q], Refused(q) => Refused(q)'
      PROVE  Goal
  BY <1>0
<1>1. ASSUME NEW r \in Requests, phase' = [phase EXCEPT ![r] = phase'[r]],
             history' = [history EXCEPT ![r] = history'[r]], q # r,
             Refused(q) => Refused(q)'
      PROVE  Goal
  BY <1>0, <1>1 DEF Shape
\* The key's commands refuse nobody but who sends them.
<1>2. ASSUME NEW r \in Keyed,
             \/ Idempotency!Arrive(r) \/ Idempotency!Get(r) \/ Idempotency!Set(r)
             \/ Idempotency!End(r)
      PROVE  Refused(q) => Refused(q)'
  BY <1>2 DEF Refused, Shape, Idempotency!Arrive, Idempotency!Get, Idempotency!Set,
              Idempotency!End, Idempotency!Goto
<1>3. ASSUME keyPc' = keyPc
      PROVE  Refused(q) => Refused(q)'
  BY <1>3 DEF Refused
<1> USE DEF At, Goto, Phases, clientVars, storeVars, keyVars
<1> HIDE DEF Goal
<1>4. ASSUME NEW r \in Requests, Arrive(r)
      PROVE  Goal
  <2>1. Refused(q) => Refused(q)'
    BY <1>2, <1>3, <1>4 DEF Arrive
  <2>2. CASE q = r
    BY <1>4, <2>1, <2>2 DEF Arrive, Goal, Shape, Saved, Asking, Answered, Arriving
  <2>3. CASE q # r
    BY <1>1, <1>4, <2>1, <2>3 DEF Arrive, Shape
  <2> QED
    BY <2>2, <2>3
<1>5. ASSUME NEW r \in Requests, AcquireKey(r)
      PROVE  Goal
  <2>0. r \in Keyed
    BY <1>5 DEF AcquireKey, PhasesAgree, Agrees
  <2>1. Refused(q) => Refused(q)'
    BY <1>2, <1>5, <2>0 DEF AcquireKey
  <2>2. CASE q = r
    <3>1. \/ phase'[r] = "ended" /\ keyPc'[r] = "conflict"
          \/ phase'[r] \in {"conversation", "idempotency"}
      BY <1>5 DEF AcquireKey, Shape
    <3>2. phase[r] = "idempotency" /\ history' = history
      BY <1>5 DEF AcquireKey
    <3> QED
      BY <2>0, <2>1, <2>2, <3>1, <3>2
         DEF Goal, Refused, Saved, Asking, Answered, Arriving
  <2>3. CASE q # r
    BY <1>1, <1>5, <2>1, <2>3 DEF AcquireKey, Shape
  <2> QED
    BY <2>2, <2>3
<1>6. ASSUME NEW r \in Requests, ResolveConversation(r)
      PROVE  Goal
  <2>1. Refused(q) => Refused(q)'
    BY <1>3, <1>6 DEF ResolveConversation
  <2>2. CASE q = r
    BY <1>6, <2>1, <2>2
       DEF ResolveConversation, Goal, Shape, Saved, Asking, Answered, Arriving
  <2>3. CASE q # r
    BY <1>1, <1>6, <2>1, <2>3 DEF ResolveConversation, Shape
  <2> QED
    BY <2>2, <2>3
\* From there on the request has read what it reads.
<1>7. ASSUME NEW r \in Requests, history' = history, Refused(q) => Refused(q)',
             phase' = [phase EXCEPT ![r] = phase'[r]],
             phase[r] \notin Arriving, phase'[r] \notin Arriving,
             phase[r] \in Saved => phase'[r] \in Saved,
             phase[r] \in Answered => phase'[r] \in Answered,
             phase'[r] \in Asking => phase[r] \in Asking \/ SaveUserTurn(r)
      PROVE  Goal
  <2>1. CASE q = r
    BY <1>7, <2>1 DEF Goal, Arriving
  <2>2. CASE q # r
    BY <1>1, <1>7, <2>2 DEF Shape
  <2> QED
    BY <2>1, <2>2
<1>8. ASSUME NEW r \in Requests,
             \/ CheckLimits(r) \/ ReleaseLease(r)
             \/ RefuseHeaders(r) \/ RouteThrows(r)
      PROVE  Goal
  <2>1. keyPc' = keyPc \/ (r \in Keyed /\ Idempotency!End(r))
    BY <1>8 DEF CheckLimits, ReleaseLease, RefuseHeaders, RouteThrows, EndKey
  <2>2. Refused(q) => Refused(q)'
    BY <1>2, <1>3, <2>1
  <2>3. \/ /\ phase[r] = "limit"
           /\ \E p \in {"ended", "route", "limit"} : phase' = [phase EXCEPT ![r] = p]
        \/ /\ phase[r] = "release"
           /\ \E p \in {"ended", "release"} : phase' = [phase EXCEPT ![r] = p]
        \/ /\ phase[r] \in {"route", "start"}
           /\ phase' = [phase EXCEPT ![r] = "thrown"]
    BY <1>8 DEF CheckLimits, ReleaseLease, RefuseHeaders, RouteThrows, Shape
  <2>4. history' = history
    BY <1>8 DEF CheckLimits, ReleaseLease, RefuseHeaders, RouteThrows
  <2> QED
    BY <1>7, <2>2, <2>3, <2>4 DEF Arriving, Saved, Asking, Answered, Shape
<1>9. ASSUME NEW r \in Requests,
             \/ Route(r) \/ SaveUserTurn(r) \/ StartStream(r) \/ Complete(r)
             \/ SaveAssistantTurn(r) \/ RecordSuccess(r) \/ FailStream(r)
             \/ RecordError(r) \/ DropStream(r) \/ Finish(r)
      PROVE  Goal
  <2>1. Refused(q) => Refused(q)'
    BY <1>3, <1>9
       DEF Route, SaveUserTurn, StartStream, Complete, SaveAssistantTurn,
           RecordSuccess, Throw, FailStream, RecordError, DropStream, Finish
  <2>2. history' = history
    BY <1>9
       DEF Route, SaveUserTurn, StartStream, Complete, SaveAssistantTurn,
           RecordSuccess, Throw, FailStream, RecordError, DropStream, Finish
  <2>3. CASE SaveUserTurn(r)
    BY <1>7, <2>1, <2>2, <2>3
       DEF SaveUserTurn, Arriving, Saved, Asking, Answered, Shape
  <2>4. CASE ~SaveUserTurn(r)
    <3>1. \/ phase[r] = "route" /\ phase' = [phase EXCEPT ![r] = "saveUser"]
          \/ phase[r] = "start" /\ phase' = [phase EXCEPT ![r] = "infer"]
          \/ phase[r] = "infer" /\ \E p \in {"saveAssistant", "recordError", "finally"} :
                phase' = [phase EXCEPT ![r] = p]
          \/ phase[r] = "saveAssistant" /\ phase' = [phase EXCEPT ![r] = "recordSuccess"]
          \/ phase[r] \in {"recordSuccess", "recordError"}
                /\ phase' = [phase EXCEPT ![r] = "finally"]
          \/ phase[r] = "finally" /\ phase' = [phase EXCEPT ![r] = "release"]
      BY <1>9, <2>4
         DEF Route, StartStream, Complete, SaveAssistantTurn, RecordSuccess, Throw,
             FailStream, RecordError, DropStream, Finish
    <3> QED
      BY <1>7, <2>1, <2>2, <3>1 DEF Arriving, Saved, Asking, Answered, Shape
  <2> QED
    BY <2>3, <2>4
<1>10. CASE \/ \E r \in Requests : ClientLeaves(r)
            \/ Tick \/ Observe \/ UNCHANGED vars
  BY <1>0, <1>3, <1>10 DEF ClientLeaves, Tick, Idempotency!Tick, Observe, vars
<1> QED
  BY <1>4, <1>5, <1>6, <1>8, <1>9, <1>10 DEF Next, Handle

\* A conversation grows by a turn of the request that saves, or stays.
LEMMA LogGrows ==
    ASSUME Shape, [Next]_vars
    PROVE  \/ log' = log
           \/ \E r \in Requests :
                 \/ SaveUserTurn(r) /\ Save(r, "user")
                 \/ SaveAssistantTurn(r) /\ Save(r, "assistant")
<1>1. ASSUME NEW r \in Requests, Arrive(r) \/ Handle(r) \/ ClientLeaves(r)
      PROVE  \/ log' = log
             \/ SaveUserTurn(r) /\ Save(r, "user")
             \/ SaveAssistantTurn(r) /\ Save(r, "assistant")
  BY <1>1 DEF Handle, Arrive, AcquireKey, ResolveConversation, CheckLimits, Route,
              SaveUserTurn, StartStream, RefuseHeaders, RouteThrows, ClientLeaves, Complete, storeVars,
              SaveAssistantTurn, RecordSuccess, Throw, FailStream, RecordError,
              DropStream, Finish, ReleaseLease
<1> QED
  BY <1>1 DEF Next, Tick, Observe, vars, storeVars

\* What Save makes of the conversations.
LEMMA SaveAppends ==
    ASSUME Shape, NEW r \in Requests, NEW role \in {"user", "assistant"},
           Save(r, role), NEW t \in Threads
    PROVE  /\ Len(log[t]) \in Nat
           /\ Len(log'[t]) = IF t = thread[r] THEN Len(log[t]) + 1 ELSE Len(log[t])
           /\ \A i \in 1..Len(log[t]) : log'[t][i] = log[t][i]
           /\ t = thread[r] => log'[t][Len(log[t]) + 1] = [role |-> role, of |-> r]
<1>1. log[t] \in Seq(Turn) /\ thread[r] \in Threads /\ [role |-> role, of |-> r] \in Turn
  BY GatewayAssumption DEF Shape, Turn
<1>2. log'[t] = IF t = thread[r] THEN Append(log[t], [role |-> role, of |-> r])
                ELSE log[t]
  BY <1>1 DEF Save, Shape
<1> QED
  BY <1>1, <1>2

LEMMA TurnsStep ==
    ASSUME Shape, PhasesAgree, TurnsAreSaid, QuestionsAreThere, [Next]_vars
    PROVE  TurnsAreSaid' /\ QuestionsAreThere'
<1> DEFINE Said(t, i) ==
             /\ thread[log[t][i].of] = t
             /\ phase[log[t][i].of] \in Saved
             /\ log[t][i].role = "assistant" =>
                   /\ phase[log[t][i].of] \in Answered
                   /\ \E j \in 1..(i - 1) : Says(t, j, "user", log[t][i].of)
<1>0. thread' = thread /\ \A q \in Requests : thread[q] \in Threads
  BY ThreadsStay DEF Shape
\* A turn that was there is still there, and so is what came before it.
<1>1. ASSUME NEW t \in Threads, NEW i \in 1..Len(log[t]),
             \A j \in 1..Len(log[t]) : log'[t][j] = log[t][j]
      PROVE  Said(t, i)'
  <2>0. log[t] \in Seq(Turn) /\ log[t][i] \in Turn
    BY DEF Shape
  <2>1. Said(t, i) /\ log[t][i].of \in Requests /\ log'[t][i] = log[t][i]
    BY <1>1, <2>0 DEF TurnsAreSaid, Turn
  <2>2. \A j \in 1..(i - 1) : log'[t][j] = log[t][j]
    BY <1>1 DEF Shape
  <2>3. /\ phase'[log[t][i].of] \in Saved
        /\ phase[log[t][i].of] \in Answered => phase'[log[t][i].of] \in Answered
    BY <2>1, PhaseMoves
  <2> QED
    BY <1>0, <2>1, <2>2, <2>3 DEF Says
<1>2. ASSUME NEW q \in Requests, phase'[q] \in Asking, phase[q] \in Asking,
             \A j \in 1..Turns(q) : log'[thread[q]][j] = log[thread[q]][j],
             Len(log'[thread[q]]) \in Nat, Len(log'[thread[q]]) >= Turns(q)
      PROVE  \E j \in 1..Turns(q)' : Says(thread[q], j, "user", q)'
  <2>1. PICK j \in 1..Turns(q) : Says(thread[q], j, "user", q)
    BY <1>2 DEF QuestionsAreThere
  <2>2. Turns(q) \in Nat /\ Turns(q)' = Len(log'[thread[q]])
    BY <1>0 DEF Shape, Turns
  <2>3. j \in 1..Turns(q)' /\ log'[thread[q]][j] = log[thread[q]][j]
    BY <1>2, <2>1, <2>2
  <2> QED
    BY <1>0, <2>1, <2>3 DEF Says
<1>3. ASSUME NEW r \in Requests, NEW role \in {"user", "assistant"},
             Save(r, role),
             phase'[r] \in Saved,
             role = "user" => phase[r] \notin Asking,
             role = "assistant" =>
                phase[r] \in Asking /\ phase'[r] \in Answered,
             \A q \in Requests : phase'[q] \in Asking =>
                phase[q] \in Asking \/ (q = r /\ role = "user")
      PROVE  TurnsAreSaid' /\ QuestionsAreThere'
  <2>1. \A t \in Threads :
          /\ Len(log[t]) \in Nat
          /\ Len(log'[t]) = IF t = thread[r] THEN Len(log[t]) + 1 ELSE Len(log[t])
          /\ \A i \in 1..Len(log[t]) : log'[t][i] = log[t][i]
          /\ t = thread[r] => log'[t][Len(log[t]) + 1] = [role |-> role, of |-> r]
    BY <1>3, SaveAppends
  <2>2. ASSUME NEW t \in Threads, NEW i \in 1..Len(log'[t])
        PROVE  Said(t, i)'
    <3>1. CASE i \in 1..Len(log[t])
      BY <1>1, <2>1, <3>1
    <3>2. CASE i \notin 1..Len(log[t])
      <4>0. thread[r] \in Threads
        BY <1>0
      <4>1. t = thread[r] /\ i = Turns(r) + 1 /\ log'[t][i] = [role |-> role, of |-> r]
        BY <2>1, <2>2, <3>2 DEF Turns
      <4>2. ASSUME role = "assistant"
            PROVE  \E j \in 1..(i - 1) : Says(t, j, "user", r)'
        <5>1. PICK j \in 1..Turns(r) : Says(t, j, "user", r)
          BY <1>3, <4>1, <4>2 DEF QuestionsAreThere
        <5>2. j \in 1..(i - 1) /\ log'[t][j] = log[t][j]
          BY <2>1, <4>1, <5>1 DEF Turns
        <5> QED
          BY <5>1, <5>2 DEF Says
      <4>3. log'[t][i].of = r /\ log'[t][i].role = role
        BY <4>1
      <4> QED
        BY <1>0, <1>3, <4>1, <4>2, <4>3
    <3> QED
      BY <3>1, <3>2
  <2>3. ASSUME NEW q \in Requests, phase'[q] \in Asking
        PROVE  \E j \in 1..Turns(q)' : Says(thread[q], j, "user", q)'
    <3>0. thread[q] \in Threads /\ thread[r] \in Threads /\ thread' = thread
      BY <1>0
    <3>1. CASE phase[q] \in Asking
      <4>1. Len(log'[thread[q]]) \in Nat /\ Len(log'[thread[q]]) >= Turns(q)
        BY <2>1, <3>0 DEF Turns
      <4> QED
        BY <1>2, <2>1, <2>3, <3>0, <3>1, <4>1 DEF Turns
    <3>2. CASE q = r /\ role = "user"
      <4>1. Turns(r) \in Nat /\ Turns(r)' = Turns(r) + 1
        BY <2>1, <3>0 DEF Turns
      <4>2. log'[thread[r]][Turns(r) + 1] = [role |-> "user", of |-> r]
        BY <2>1, <3>0, <3>2 DEF Turns
      <4>3. Turns(r) + 1 \in 1..Turns(r)'
        BY <4>1
      <4> QED
        BY <3>0, <3>2, <4>2, <4>3 DEF Says
    <3> QED
      BY <1>3, <2>3, <3>1, <3>2
  <2>4. TurnsAreSaid'
    BY <2>2 DEF TurnsAreSaid
  <2> QED
    BY <2>3, <2>4 DEF QuestionsAreThere
<1>4. CASE log' = log
  <2>1. ASSUME NEW q \in Requests, phase'[q] \in Asking
        PROVE  phase[q] \in Asking
    <3>1. ~SaveUserTurn(q)
      <4>1. thread[q] \in Threads
        BY <1>0
      <4>2. SUFFICES ASSUME Save(q, "user")
                     PROVE  FALSE
        BY DEF SaveUserTurn
      <4>3. Len(log[thread[q]]) \in Nat
            /\ Len(log'[thread[q]]) = Len(log[thread[q]]) + 1
        BY <4>1, <4>2, SaveAppends
      <4> QED
        BY <1>4, <4>3
    <3> QED
      BY <2>1, <3>1, PhaseMoves
  <2>2. \A q \in Requests : /\ Len(log'[thread[q]]) \in Nat
                              /\ Len(log'[thread[q]]) >= Turns(q)
    BY <1>0, <1>4 DEF Turns, Shape
  <2>3. QuestionsAreThere'
    BY <1>2, <1>4, <2>1, <2>2 DEF QuestionsAreThere
  <2>4. TurnsAreSaid'
    BY <1>1, <1>4 DEF TurnsAreSaid
  <2> QED
    BY <2>3, <2>4
<1>5. ASSUME NEW r \in Requests, SaveUserTurn(r), Save(r, "user")
      PROVE  TurnsAreSaid' /\ QuestionsAreThere'
  <2>1. phase[r] = "saveUser" /\ phase' = [phase EXCEPT ![r] = "start"]
    BY <1>5 DEF SaveUserTurn, At, Goto
  <2> QED
    BY <1>3, <1>5, <2>1 DEF Shape, Saved, Asking, Answered
<1>6. ASSUME NEW r \in Requests, SaveAssistantTurn(r), Save(r, "assistant")
      PROVE  TurnsAreSaid' /\ QuestionsAreThere'
  <2>1. phase[r] = "saveAssistant" /\ phase' = [phase EXCEPT ![r] = "recordSuccess"]
    BY <1>6 DEF SaveAssistantTurn, At, Goto
  <2> QED
    BY <1>3, <1>6, <2>1 DEF Shape, Saved, Asking, Answered
<1> QED
  BY <1>4, <1>5, <1>6, LogGrows

LEMMA ReadStep ==
    ASSUME Shape, PhasesAgree, TurnsAreSaid, AllRead, [Next]_vars
    PROVE  AllRead'
<1> SUFFICES ASSUME NEW q \in Requests
             PROVE  ReadsWhatWasThere(q)'
  BY DEF AllRead
<1> DEFINE t == thread[q]
<1>0. t \in Threads /\ log[t] \in Seq(Turn) /\ Len(log[t]) \in Nat
      /\ history[q].arrived \in Nat /\ history[q].read \in Nat
  BY DEF Shape
<1>9. /\ thread'[q] = t /\ Turns(q) = Len(log[t]) /\ Turns(q)' = Len(log'[t])
  BY ThreadsStay DEF Turns
<1>1. /\ Len(log'[t]) \in Nat
      /\ Len(log[t]) <= Len(log'[t])
      /\ \A i \in 1..Len(log[t]) : log'[t][i] = log[t][i]
  <2>1. CASE log' = log
    BY <1>0, <2>1
  <2>2. ASSUME NEW r \in Requests, NEW role \in {"user", "assistant"}, Save(r, role)
        PROVE  /\ Len(log'[t]) \in Nat
               /\ Len(log[t]) <= Len(log'[t])
               /\ \A i \in 1..Len(log[t]) : log'[t][i] = log[t][i]
    <3>1. /\ Len(log'[t]) = IF t = thread[r] THEN Len(log[t]) + 1 ELSE Len(log[t])
          /\ \A i \in 1..Len(log[t]) : log'[t][i] = log[t][i]
      <4>1. \A x \in Threads :
               /\ Len(log[x]) \in Nat
               /\ Len(log'[x]) = IF x = thread[r] THEN Len(log[x]) + 1 ELSE Len(log[x])
               /\ \A i \in 1..Len(log[x]) : log'[x][i] = log[x][i]
               /\ x = thread[r] => log'[x][Len(log[x]) + 1] = [role |-> role, of |-> r]
        BY <2>2, SaveAppends
      <4> QED
        BY <1>0, <4>1
    <3> QED
      BY <1>0, <3>1
  <2> QED
    BY <2>1, <2>2, LogGrows
<1>2. CASE history'[q] = history[q] /\ ~Arrive(q) /\ ~ResolveConversation(q)
  <2>1. /\ phase'[q] \in {"idempotency", "conversation"} =>
              phase[q] \in {"idempotency", "conversation"}
        /\ phase'[q] \notin Arriving => phase[q] \notin Arriving \/ Refused(q)'
        /\ Refused(q) => Refused(q)'
    BY <1>2, PhaseMoves
  <2>2. ReadsWhatWasThere(q)
    BY DEF AllRead
  <2>3. ASSUME phase'[q] \in {"idempotency", "conversation"}
        PROVE  history'[q].arrived <= Turns(q)'
    BY <1>0, <1>1, <1>2, <1>9, <2>1, <2>2, <2>3 DEF ReadsWhatWasThere
  <2>4. ASSUME phase'[q] \notin Arriving, ~Refused(q)'
        PROVE  /\ history'[q].arrived <= history'[q].read
               /\ history'[q].read <= Turns(q)'
               /\ \A i \in 1..history'[q].read : log'[t][i].of # q
    <3>1. /\ history[q].arrived <= history[q].read
          /\ history[q].read <= Turns(q)
          /\ \A i \in 1..history[q].read : log[t][i].of # q
      BY <2>1, <2>2, <2>4 DEF ReadsWhatWasThere
    <3> QED
      BY <1>0, <1>1, <1>2, <1>9, <3>1
  <2> QED
    BY <1>9, <2>3, <2>4 DEF ReadsWhatWasThere
<1>3. CASE Arrive(q)
  <2>1. /\ history'[q].arrived = Turns(q)
        /\ log' = log
        /\ phase'[q] \in {"idempotency", "conversation"}
    BY <1>3 DEF Arrive, Shape, Goto
  <2> QED
    BY <1>0, <1>9, <2>1 DEF ReadsWhatWasThere, Arriving
<1>4. CASE ResolveConversation(q)
  <2>1. /\ history'[q].arrived = history[q].arrived
        /\ history'[q].read = Turns(q)
        /\ log' = log
        /\ phase[q] = "conversation" /\ phase'[q] = "limit"
    BY <1>4 DEF ResolveConversation, Shape, Goto, At
  <2>2. history[q].arrived <= Turns(q)
    BY <2>1 DEF AllRead, ReadsWhatWasThere
  <2>3. \A i \in 1..Turns(q) : log[t][i].of # q
    BY <1>0, <2>1 DEF TurnsAreSaid, Turns, Saved, Asking, Answered
  <2> QED
    BY <1>0, <1>9, <2>1, <2>2, <2>3 DEF ReadsWhatWasThere, Arriving
<1> QED
  BY <1>2, <1>3, <1>4, PhaseMoves

\* What a request reads is the beginning of a conversation, in which every
\* answer comes after its question.
LEMMA ReadIsCurrent ==
    ASSUME Shape, TurnsAreSaid, AllRead
    PROVE  HistoryIsCurrent
<1> SUFFICES ASSUME NEW r \in Requests, phase[r] \notin Arriving,
                    ~(r \in Keyed /\ keyPc[r] = "conflict")
             PROVE  LET read == SubSeq(log[thread[r]], 1, history[r].read)
                        shown == {read[i] : i \in DOMAIN read}
                    IN  /\ history[r].read >= history[r].arrived
                        /\ \A turn \in shown :
                              /\ turn.of # r
                              /\ [turn EXCEPT !.role = "user"] \in shown
  BY DEF HistoryIsCurrent, Arriving
<1> DEFINE t == thread[r]
           n == history[r].read
           read == SubSeq(log[t], 1, n)
           shown == {read[i] : i \in DOMAIN read}
<1>1. /\ t \in Threads /\ log[t] \in Seq(Turn) /\ n \in Nat /\ Len(log[t]) \in Nat
      /\ history[r].arrived \in Nat
  BY DEF Shape
<1>2. /\ history[r].arrived <= n /\ n <= Len(log[t])
      /\ \A i \in 1..n : log[t][i].of # r
  BY DEF AllRead, ReadsWhatWasThere, Refused, Turns
<1>3. DOMAIN read = 1..n /\ \A i \in 1..n : read[i] = log[t][i]
  BY <1>1, <1>2
<1>4. ASSUME NEW turn \in shown
      PROVE  turn.of # r /\ [turn EXCEPT !.role = "user"] \in shown
  <2>1. PICK i \in 1..n : turn = log[t][i]
    BY <1>3
  <2>2. /\ i \in 1..Len(log[t])
        /\ turn \in Turn
        /\ turn.of # r
    BY <1>1, <1>2, <2>1
  <2>3. CASE turn.role = "user"
    <3>1. [turn EXCEPT !.role = "user"] = turn
      BY <2>2, <2>3 DEF Turn
    <3> QED
      BY <2>2, <3>1
  <2>4. CASE turn.role = "assistant"
    <3>0. t \in Threads /\ log[t][i].role = "assistant" /\ turn.of = log[t][i].of
      BY <1>1, <2>1, <2>4
    <3>1. PICK j \in 1..(i - 1) : log[t][j] = [role |-> "user", of |-> turn.of]
      BY <2>2, <3>0 DEF TurnsAreSaid, Says
    <3>2. j \in 1..n /\ read[j] = [role |-> "user", of |-> turn.of]
      BY <1>1, <1>3, <3>1
    <3>3. [turn EXCEPT !.role = "user"] = [role |-> "user", of |-> turn.of]
      BY <2>2 DEF Turn
    <3>4. j \in DOMAIN read
      BY <1>3, <3>2
    <3> HIDE DEF read
    <3> QED
      BY <2>2, <3>2, <3>3, <3>4
  <2> QED
    BY <2>2, <2>3, <2>4 DEF Turn
<1> HIDE DEF shown, read
<1> QED
  BY <1>1, <1>2, <1>4 DEF shown, read

-----------------------------------------------------------------------------
(* The statistics *)

Streams == {"infer", "saveAssistant", "recordSuccess", "recordError", "finally"}

\* The requests at one of the given phases, and those that were answered.
In(ps)  == {r \in Requests : phase[r] \in ps}
Answers == {r \in Requests : \E t \in Threads : \E i \in 1..Len(log[t]) :
                                Says(t, i, "assistant", r)}

Ledgers ==
    /\ stats.activeStreams = Cardinality(In(Streams))
    /\ stats.totalRequests =
          stats.totalRateLimits + stats.totalErrors + stats.successRows
    /\ stats.totalErrors = stats.errorRows + Cardinality(In({"recordError"}))
    /\ Cardinality(Answers) = stats.successRows + Cardinality(In({"recordSuccess"}))

\* A set of requests with one more, and with one less.
LEMMA OneMoreOrLess ==
    ASSUME NEW S, S \subseteq Requests, NEW r \in Requests
    PROVE  /\ Cardinality(S) \in Nat
           /\ Cardinality(S \cup {r}) = IF r \in S THEN Cardinality(S)
                                                   ELSE Cardinality(S) + 1
           /\ Cardinality(S \ {r}) = IF r \in S THEN Cardinality(S) - 1
                                                ELSE Cardinality(S)
           /\ r \in S => Cardinality(S) > 0
<1>1. IsFiniteSet(S)
  BY GatewayAssumption, FS_Subset
<1>2. Cardinality(S) \in Nat /\ (Cardinality(S) = 0 <=> S = {})
  BY <1>1, FS_CardinalityType, FS_EmptySet
<1>3. Cardinality(S \cup {r}) = IF r \in S THEN Cardinality(S) ELSE Cardinality(S) + 1
  BY <1>1, FS_AddElement
<1>4. Cardinality(S \ {r}) = IF r \in S THEN Cardinality(S) - 1 ELSE Cardinality(S)
  BY <1>1, FS_RemoveElement
<1>5. r \in S => Cardinality(S) > 0
  BY <1>2
<1> QED
  BY <1>2, <1>3, <1>4, <1>5

\* How many are at some phases when one request moves.
LEMMA InMoves ==
    ASSUME Shape, NEW ps, NEW r \in Requests, NEW p,
           phase' = [phase EXCEPT ![r] = p]
    PROVE  /\ Cardinality(In(ps)) \in Nat
           /\ p \in ps /\ phase[r] \notin ps =>
                 Cardinality(In(ps)') = Cardinality(In(ps)) + 1
           /\ p \notin ps /\ phase[r] \in ps =>
                 /\ Cardinality(In(ps)') = Cardinality(In(ps)) - 1
                 /\ Cardinality(In(ps)) > 0
           /\ (p \in ps <=> phase[r] \in ps) => In(ps)' = In(ps)
<1>1. In(ps) \subseteq Requests /\ (r \in In(ps) <=> phase[r] \in ps)
  BY DEF In
<1>2. In(ps)' = IF p \in ps THEN In(ps) \cup {r} ELSE In(ps) \ {r}
  BY DEF In, Shape
<1>3. /\ Cardinality(In(ps)) \in Nat
      /\ Cardinality(In(ps) \cup {r}) = IF r \in In(ps) THEN Cardinality(In(ps))
                                        ELSE Cardinality(In(ps)) + 1
      /\ Cardinality(In(ps) \ {r}) = IF r \in In(ps) THEN Cardinality(In(ps)) - 1
                                     ELSE Cardinality(In(ps))
      /\ r \in In(ps) => Cardinality(In(ps)) > 0
  BY <1>1, OneMoreOrLess
<1>4. (p \in ps <=> phase[r] \in ps) => In(ps)' = In(ps)
  BY <1>1, <1>2
<1> HIDE DEF In
<1> QED
  BY <1>1, <1>2, <1>3, <1>4

\* Only the assistant's turn makes an answer, and makes just one.
LEMMA AnswersGrow ==
    ASSUME Shape, TurnsAreSaid, [Next]_vars
    PROVE  /\ Cardinality(Answers) \in Nat
           /\ log' = log => Answers' = Answers
           /\ \A r \in Requests :
                 /\ Save(r, "user") => Answers' = Answers
                 /\ Save(r, "assistant") /\ phase[r] = "saveAssistant" =>
                       Cardinality(Answers') = Cardinality(Answers) + 1
<1>1. Answers \subseteq Requests /\ Cardinality(Answers) \in Nat
  BY GatewayAssumption, FS_Subset, FS_CardinalityType DEF Answers
<1>2. log' = log => Answers' = Answers
  BY DEF Answers, Says
<1>3. ASSUME NEW r \in Requests, NEW role \in {"user", "assistant"}, Save(r, role)
      PROVE  Answers' = IF role = "assistant" THEN Answers \cup {r} ELSE Answers
  <2>1. \A t \in Threads :
          /\ Len(log[t]) \in Nat
          /\ Len(log'[t]) = IF t = thread[r] THEN Len(log[t]) + 1 ELSE Len(log[t])
          /\ \A i \in 1..Len(log[t]) : log'[t][i] = log[t][i]
          /\ t = thread[r] => log'[t][Len(log[t]) + 1] = [role |-> role, of |-> r]
    BY <1>3, SaveAppends
  <2>2. ASSUME NEW q \in Answers
        PROVE  q \in Answers'
    <3>0. PICK t \in Threads : \E i \in 1..Len(log[t]) : Says(t, i, "assistant", q)
      BY DEF Answers
    <3>1. PICK i \in 1..Len(log[t]) : Says(t, i, "assistant", q)
      BY <3>0
    <3>2. i \in 1..Len(log'[t]) /\ log'[t][i] = log[t][i]
      BY <2>1, <3>1
    <3> QED
      BY <1>1, <3>1, <3>2 DEF Answers, Says
  <2>3. ASSUME NEW q \in Answers'
        PROVE  q \in Answers \/ (q = r /\ role = "assistant")
    <3>0. PICK t \in Threads : \E i \in 1..Len(log'[t]) :
             log'[t][i] = [role |-> "assistant", of |-> q]
      BY DEF Answers, Says
    <3>1. PICK i \in 1..Len(log'[t]) : log'[t][i] = [role |-> "assistant", of |-> q]
      BY <3>0
    <3>2. CASE i \in 1..Len(log[t])
      BY <2>1, <3>1, <3>2 DEF Answers, Says
    <3>3. CASE i \notin 1..Len(log[t])
      <4>1. t = thread[r] /\ i = Len(log[t]) + 1
        BY <2>1, <3>3
      <4>2. [role |-> "assistant", of |-> q] = [role |-> role, of |-> r]
        BY <2>1, <3>1, <4>1
      <4>3. [role |-> "assistant", of |-> q].role = [role |-> role, of |-> r].role
            /\ [role |-> "assistant", of |-> q].of = [role |-> role, of |-> r].of
        BY <4>2
      <4> QED
        BY <4>3
    <3> QED
      BY <3>2, <3>3
  <2>4. ASSUME role = "assistant"
        PROVE  r \in Answers'
    <3>1. thread[r] \in Threads
      BY DEF Shape
    <3>2. /\ Len(log[thread[r]]) + 1 \in 1..Len(log'[thread[r]])
          /\ log'[thread[r]][Len(log[thread[r]]) + 1] = [role |-> "assistant", of |-> r]
      BY <2>1, <2>4, <3>1
    <3> QED
      BY <3>1, <3>2 DEF Answers, Says
  <2> QED
    BY <2>2, <2>3, <2>4
<1>4. ASSUME NEW r \in Requests, phase[r] = "saveAssistant"
      PROVE  r \notin Answers
  <2> SUFFICES ASSUME NEW t \in Threads, NEW i \in 1..Len(log[t]),
                      Says(t, i, "assistant", r)
               PROVE  FALSE
    BY DEF Answers
  <2>1. log[t][i].role = "assistant" /\ log[t][i].of = r
    BY DEF Says
  <2>2. phase[r] \in Answered
    BY <2>1 DEF TurnsAreSaid
  <2> QED
    BY <1>4, <2>2 DEF Answered
<1>5. \A r \in Requests : r \notin Answers =>
         Cardinality(Answers \cup {r}) = Cardinality(Answers) + 1
  BY <1>1, OneMoreOrLess
<1> QED
  BY <1>1, <1>2, <1>3, <1>4, <1>5

\* The books, when a step adds to them what it says it adds.
LEMMA BooksBalance ==
    ASSUME Shape, Shape', Ledgers,
           NEW s \in {-1, 0, 1},    \* streams under way
           NEW l \in {0, 1},        \* rejections
           NEW e \in {0, 1},        \* errors
           NEW x \in {0, 1},        \* rows of errors
           NEW a \in {0, 1},        \* answers
           NEW k \in {0, 1},        \* rows of successes
           stats'.activeStreams = stats.activeStreams + s,
           stats'.totalRateLimits = stats.totalRateLimits + l,
           stats'.totalErrors = stats.totalErrors + e,
           stats'.errorRows = stats.errorRows + x,
           stats'.successRows = stats.successRows + k,
           stats'.totalRequests = stats.totalRequests + l + e + k,
           Cardinality(In(Streams)') = Cardinality(In(Streams)) + s,
           Cardinality(In({"recordError"})') = Cardinality(In({"recordError"})) + e - x,
           Cardinality(In({"recordSuccess"})') = Cardinality(In({"recordSuccess"})) + a - k,
           Cardinality(Answers') = Cardinality(Answers) + a
    PROVE  Ledgers'
<1> DEFINE streams   == Cardinality(In(Streams))
           failing   == Cardinality(In({"recordError"}))
           recording == Cardinality(In({"recordSuccess"}))
           answers   == Cardinality(Answers)
<1>1. /\ stats.activeStreams \in Nat /\ stats.totalRequests \in Nat
      /\ stats.totalErrors \in Nat /\ stats.totalRateLimits \in Nat
      /\ stats.successRows \in Nat /\ stats.errorRows \in Nat
      /\ s \in Int /\ l \in Int /\ e \in Int /\ x \in Int /\ a \in Int /\ k \in Int
  BY DEF Shape, Stats
<1>2. /\ streams \in Nat /\ failing \in Nat /\ recording \in Nat /\ answers \in Nat
      /\ streams' = streams + s
      /\ failing' = failing + e - x
      /\ recording' = recording + a - k
      /\ answers' = answers + a
  BY GatewayAssumption, FS_Subset, FS_CardinalityType DEF In, Answers
<1>3. /\ stats.activeStreams = streams
      /\ stats.totalRequests =
            stats.totalRateLimits + stats.totalErrors + stats.successRows
      /\ stats.totalErrors = stats.errorRows + failing
      /\ answers = stats.successRows + recording
  BY DEF Ledgers
<1> HIDE DEF streams, failing, recording, answers
<1>4. stats'.activeStreams = streams'
  BY <1>1, <1>2, <1>3
<1>5. stats'.totalRequests =
         stats'.totalRateLimits + stats'.totalErrors + stats'.successRows
  BY <1>1, <1>3
<1>6. stats'.totalErrors = stats'.errorRows + failing'
  BY <1>1, <1>2, <1>3
<1>7. answers' = stats'.successRows + recording'
  BY <1>1, <1>2, <1>3
<1> QED
  BY <1>4, <1>5, <1>6, <1>7 DEF Ledgers, streams, failing, recording, answers

\* What a move of r to phase p makes of the counts.
Counted(r, p) ==
    /\ p \in Streams /\ phase[r] \notin Streams =>
          Cardinality(In(Streams)') = Cardinality(In(Streams)) + 1
    /\ p \notin Streams /\ phase[r] \in Streams =>
          /\ Cardinality(In(Streams)') = Cardinality(In(Streams)) - 1
          /\ Cardinality(In(Streams)) > 0
    /\ (p \in Streams <=> phase[r] \in Streams) => In(Streams)' = In(Streams)
    /\ p = "recordError" /\ phase[r] # "recordError" =>
          Cardinality(In({"recordError"})') = Cardinality(In({"recordError"})) + 1
    /\ p # "recordError" /\ phase[r] = "recordError" =>
          Cardinality(In({"recordError"})') = Cardinality(In({"recordError"})) - 1
    /\ (p = "recordError" <=> phase[r] = "recordError") =>
          In({"recordError"})' = In({"recordError"})
    /\ p = "recordSuccess" /\ phase[r] # "recordSuccess" =>
          Cardinality(In({"recordSuccess"})') = Cardinality(In({"recordSuccess"})) + 1
    /\ p # "recordSuccess" /\ phase[r] = "recordSuccess" =>
          Cardinality(In({"recordSuccess"})') = Cardinality(In({"recordSuccess"})) - 1
    /\ (p = "recordSuccess" <=> phase[r] = "recordSuccess") =>
          In({"recordSuccess"})' = In({"recordSuccess"})

\* How the counts of requests move with a phase.
LEMMA CountsMove ==
    ASSUME Shape, NEW r \in Requests, NEW p, phase' = [phase EXCEPT ![r] = p]
    PROVE  Counted(r, p)
<1>1. /\ Cardinality(In(Streams)) \in Nat
      /\ p \in Streams /\ phase[r] \notin Streams =>
            Cardinality(In(Streams)') = Cardinality(In(Streams)) + 1
      /\ p \notin Streams /\ phase[r] \in Streams =>
            /\ Cardinality(In(Streams)') = Cardinality(In(Streams)) - 1
            /\ Cardinality(In(Streams)) > 0
      /\ (p \in Streams <=> phase[r] \in Streams) => In(Streams)' = In(Streams)
  BY InMoves, Zenon
<1>2. /\ Cardinality(In({"recordError"})) \in Nat
      /\ p \in {"recordError"} /\ phase[r] \notin {"recordError"} =>
            Cardinality(In({"recordError"})') = Cardinality(In({"recordError"})) + 1
      /\ p \notin {"recordError"} /\ phase[r] \in {"recordError"} =>
            /\ Cardinality(In({"recordError"})') = Cardinality(In({"recordError"})) - 1
            /\ Cardinality(In({"recordError"})) > 0
      /\ (p \in {"recordError"} <=> phase[r] \in {"recordError"}) => In({"recordError"})' = In({"recordError"})
  BY InMoves, Zenon
<1>3. /\ Cardinality(In({"recordSuccess"})) \in Nat
      /\ p \in {"recordSuccess"} /\ phase[r] \notin {"recordSuccess"} =>
            Cardinality(In({"recordSuccess"})') = Cardinality(In({"recordSuccess"})) + 1
      /\ p \notin {"recordSuccess"} /\ phase[r] \in {"recordSuccess"} =>
            /\ Cardinality(In({"recordSuccess"})') = Cardinality(In({"recordSuccess"})) - 1
            /\ Cardinality(In({"recordSuccess"})) > 0
      /\ (p \in {"recordSuccess"} <=> phase[r] \in {"recordSuccess"}) => In({"recordSuccess"})' = In({"recordSuccess"})
  BY InMoves, Zenon
<1> QED
  BY <1>1, <1>2, <1>3 DEF Counted

LEMMA LedgersStep ==
    ASSUME Shape, AllSound, PhasesAgree, TurnsAreSaid, Ledgers, [Next]_vars
    PROVE  Ledgers'
<1>0. Shape'
  BY TypeStep
<1>1. /\ stats.activeStreams \in Nat /\ stats.totalRequests \in Nat
      /\ stats.totalErrors \in Nat /\ stats.totalRateLimits \in Nat
      /\ stats.successRows \in Nat /\ stats.errorRows \in Nat
      /\ stats = [activeStreams |-> stats.activeStreams,
                  totalRequests |-> stats.totalRequests,
                  totalErrors |-> stats.totalErrors,
                  totalRateLimits |-> stats.totalRateLimits,
                  successRows |-> stats.successRows, errorRows |-> stats.errorRows]
  BY DEF Shape, Stats
<1>2. /\ \A ps : Cardinality(In(ps)) \in Nat
      /\ Cardinality(Answers) \in Nat
  BY GatewayAssumption, FS_Subset, FS_CardinalityType DEF In, Answers
\* Most steps are not in the books.
<1>3. ASSUME stats' = stats, Answers' = Answers, In(Streams)' = In(Streams),
             In({"recordError"})' = In({"recordError"}),
             In({"recordSuccess"})' = In({"recordSuccess"})
      PROVE  Ledgers'
  BY <1>3 DEF Ledgers
<1>4. ASSUME NEW r \in Requests, NEW p, phase' = [phase EXCEPT ![r] = p],
             stats' = stats, Answers' = Answers,
             p \in Streams <=> phase[r] \in Streams,
             p # "recordError" /\ phase[r] # "recordError",
             p # "recordSuccess" /\ phase[r] # "recordSuccess"
      PROVE  Ledgers'
  <2>1. /\ In(Streams)' = In(Streams)
        /\ In({"recordError"})' = In({"recordError"})
        /\ In({"recordSuccess"})' = In({"recordSuccess"})
    <3>1. Counted(r, p)
      BY <1>4, CountsMove
    <3> QED
      BY <1>4, <3>1 DEF Counted
  <2> QED
    BY <1>3, <1>4, <2>1
<1>5. log' = log => Answers' = Answers
  BY AnswersGrow
<1> USE DEF At, Goto, clientVars, storeVars
<1>6. ASSUME NEW r \in Requests,
             \/ Arrive(r) \/ AcquireKey(r) \/ ResolveConversation(r) \/ Route(r)
             \/ RouteThrows(r) \/ RefuseHeaders(r) \/ Complete(r) \/ DropStream(r)
      PROVE  Ledgers'
  <2>1. stats' = stats /\ log' = log
    BY <1>6 DEF Arrive, AcquireKey, ResolveConversation, Route, RouteThrows,
                RefuseHeaders, Complete, DropStream, Throw
  <2>2. \E p \in Phases :
           /\ phase' = [phase EXCEPT ![r] = p]
           /\ p \in Streams <=> phase[r] \in Streams
           /\ p # "recordError" /\ phase[r] # "recordError"
           /\ p # "recordSuccess" /\ phase[r] # "recordSuccess"
    <3> USE DEF Phases, Streams, Shape
    <3>1. CASE \/ Arrive(r) \/ Route(r) \/ ResolveConversation(r)
               \/ RouteThrows(r) \/ RefuseHeaders(r)
      BY <3>1 DEF Arrive, Route, ResolveConversation, RouteThrows, RefuseHeaders
    <3>2. CASE AcquireKey(r)
      BY <3>2 DEF AcquireKey
    <3>3. CASE Complete(r) \/ DropStream(r)
      BY <3>3 DEF Complete, DropStream, Throw
    <3> QED
      BY <1>6, <3>1, <3>2, <3>3
  <2> QED
    BY <1>4, <1>5, <2>1, <2>2
<1>7. ASSUME NEW r \in Requests, CheckLimits(r)
      PROVE  Ledgers'
  <2>1. log' = log /\ phase[r] = "limit"
    BY <1>7 DEF CheckLimits
  <2>2. CASE limitPc'[r] = "rejected"
    <3>1. /\ phase' = [phase EXCEPT ![r] = "ended"]
          /\ stats' = [stats EXCEPT !.totalRequests = @ + 1, !.totalRateLimits = @ + 1]
      BY <1>7, <2>2 DEF CheckLimits
    <3>2. /\ In(Streams)' = In(Streams)
          /\ In({"recordError"})' = In({"recordError"})
          /\ In({"recordSuccess"})' = In({"recordSuccess"})
      <4>1. Counted(r, "ended")
        BY <3>1, CountsMove
      <4> QED
        BY <2>1, <4>1 DEF Counted, Streams
    <3> QED
      BY <1>0, <1>1, <1>2, <1>5, <2>1, <3>1, <3>2, BooksBalance
  <2>3. CASE limitPc'[r] # "rejected"
    <3>1. PICK p \in {"route", "limit"} : phase' = [phase EXCEPT ![r] = p]
      BY <1>7, <2>3 DEF CheckLimits
    <3> QED
      BY <1>4, <1>5, <1>7, <2>1, <2>3, <3>1 DEF CheckLimits, Streams
  <2> QED
    BY <2>2, <2>3
<1>8. ASSUME NEW r \in Requests, SaveUserTurn(r)
      PROVE  Ledgers'
  <2>1. Answers' = Answers
    BY <1>8, AnswersGrow DEF SaveUserTurn
  <2> QED
    BY <1>4, <1>8, <2>1 DEF SaveUserTurn, Streams
<1>9. ASSUME NEW r \in Requests, StartStream(r)
      PROVE  Ledgers'
  <2>0. phase[r] = "start" /\ Counted(r, "infer")
    BY <1>9, CountsMove DEF StartStream
  <2>1. /\ Cardinality(In(Streams)') = Cardinality(In(Streams)) + 1
        /\ In({"recordError"})' = In({"recordError"})
        /\ In({"recordSuccess"})' = In({"recordSuccess"})
    BY <2>0 DEF Counted, Streams
  <2>2. stats' = [stats EXCEPT !.activeStreams = @ + 1] /\ log' = log
    BY <1>9 DEF StartStream
  <2> QED
    BY <1>0, <1>1, <1>2, <1>5, <2>1, <2>2, BooksBalance
<1>10. ASSUME NEW r \in Requests, SaveAssistantTurn(r)
       PROVE  Ledgers'
  <2>0. phase[r] = "saveAssistant" /\ Counted(r, "recordSuccess")
    BY <1>10, CountsMove DEF SaveAssistantTurn
  <2>1. /\ In(Streams)' = In(Streams)
        /\ In({"recordError"})' = In({"recordError"})
        /\ Cardinality(In({"recordSuccess"})') = Cardinality(In({"recordSuccess"})) + 1
    BY <2>0 DEF Counted, Streams
  <2>2. stats' = stats /\ Cardinality(Answers') = Cardinality(Answers) + 1
    BY <1>10, AnswersGrow DEF SaveAssistantTurn
  <2> QED
    BY <1>0, <1>1, <1>2, <2>1, <2>2, BooksBalance
<1>11. ASSUME NEW r \in Requests, RecordSuccess(r)
       PROVE  Ledgers'
  <2>0. phase[r] = "recordSuccess" /\ Counted(r, "finally")
    BY <1>11, CountsMove DEF RecordSuccess
  <2>1. /\ In(Streams)' = In(Streams)
        /\ In({"recordError"})' = In({"recordError"})
        /\ Cardinality(In({"recordSuccess"})') = Cardinality(In({"recordSuccess"})) - 1
    BY <2>0 DEF Counted, Streams
  <2>2. /\ stats' = [stats EXCEPT !.successRows = @ + 1, !.totalRequests = @ + 1]
        /\ log' = log
    BY <1>11 DEF RecordSuccess
  <2> QED
    BY <1>0, <1>1, <1>2, <1>5, <2>1, <2>2, BooksBalance
<1>12. ASSUME NEW r \in Requests, FailStream(r)
       PROVE  Ledgers'
  <2>0. phase[r] = "infer" /\ Counted(r, "recordError")
    BY <1>12, CountsMove DEF FailStream, Throw
  <2>1. /\ In(Streams)' = In(Streams)
        /\ Cardinality(In({"recordError"})') = Cardinality(In({"recordError"})) + 1
        /\ In({"recordSuccess"})' = In({"recordSuccess"})
    BY <2>0 DEF Counted, Streams
  <2>2. /\ stats' = [stats EXCEPT !.totalErrors = @ + 1, !.totalRequests = @ + 1]
        /\ log' = log
    BY <1>12 DEF FailStream, Throw, CountError
  <2> QED
    BY <1>0, <1>1, <1>2, <1>5, <2>1, <2>2, BooksBalance
<1>13. ASSUME NEW r \in Requests, RecordError(r)
       PROVE  Ledgers'
  <2>0. phase[r] = "recordError" /\ Counted(r, "finally")
    BY <1>13, CountsMove DEF RecordError
  <2>1. /\ In(Streams)' = In(Streams)
        /\ Cardinality(In({"recordError"})') = Cardinality(In({"recordError"})) - 1
        /\ In({"recordSuccess"})' = In({"recordSuccess"})
    BY <2>0 DEF Counted, Streams
  <2>2. stats' = [stats EXCEPT !.errorRows = @ + 1] /\ log' = log
    BY <1>13 DEF RecordError
  <2> QED
    BY <1>0, <1>1, <1>2, <1>5, <2>1, <2>2, BooksBalance
\* There is a stream to end, so the counter is not at zero.
<1>14. ASSUME NEW r \in Requests, Finish(r)
       PROVE  Ledgers'
  <2>0. phase[r] = "finally" /\ Counted(r, "release")
    BY <1>14, CountsMove DEF Finish
  <2>1. /\ Cardinality(In(Streams)') = Cardinality(In(Streams)) - 1
        /\ Cardinality(In(Streams)) > 0
        /\ In({"recordError"})' = In({"recordError"})
        /\ In({"recordSuccess"})' = In({"recordSuccess"})
    BY <2>0 DEF Counted, Streams
  <2>2. stats' = [stats EXCEPT !.activeStreams = stats.activeStreams - 1] /\ log' = log
    BY <1>14, <2>1 DEF Finish, Ledgers
  <2> QED
    BY <1>0, <1>1, <1>2, <1>5, <2>1, <2>2, BooksBalance
<1>15. ASSUME NEW r \in Requests, ReleaseLease(r)
       PROVE  Ledgers'
  <2>1. stats' = stats /\ log' = log /\ phase[r] = "release"
    BY <1>15 DEF ReleaseLease
  <2>2. \E p \in {"release", "ended"} : phase' = [phase EXCEPT ![r] = p]
    BY <1>15, <2>1 DEF ReleaseLease, Shape
  <2> QED
    BY <1>4, <1>5, <2>1, <2>2 DEF Streams
<1>16. CASE \/ \E r \in Requests : ClientLeaves(r)
            \/ Tick \/ Observe \/ UNCHANGED vars
  <2>1. stats' = stats /\ log' = log /\ phase' = phase
    BY <1>16 DEF ClientLeaves, Tick, Observe, vars
  <2> QED
    BY <1>3, <1>5, <2>1 DEF In
<1> QED
  BY <1>6, <1>7, <1>8, <1>9, <1>10, <1>11, <1>12, <1>13, <1>14, <1>15, <1>16
     DEF Next, Handle

\* The books and the turns are what the ledgers are about.
LEMMA BooksAreLedgers ==
    ASSUME Shape, TurnsAreSaid, Ledgers
    PROVE  LedgersAgree
<1> DEFINE turns(role) == {r \in Requests : \E t \in Threads :
                 \E i \in 1..Len(log[t]) : log[t][i] = [role |-> role, of |-> r]}
           failing == {r \in Requests : phase[r] = "recordError"}
           saving  == {r \in Requests : phase[r] = "recordSuccess"}
           streaming == {r \in Requests : phase[r] \in {"infer", "saveAssistant",
                           "recordSuccess", "recordError", "finally"}}
<1>1. /\ turns("assistant") = Answers
      /\ failing = In({"recordError"})
      /\ saving = In({"recordSuccess"})
      /\ streaming = In(Streams)
  BY DEF Answers, In, Streams, Says
<1>2. turns("assistant") \subseteq turns("user")
  <2> SUFFICES ASSUME NEW r \in Requests, NEW t \in Threads, NEW i \in 1..Len(log[t]),
                      log[t][i] = [role |-> "assistant", of |-> r]
               PROVE  \E j \in 1..Len(log[t]) : log[t][j] = [role |-> "user", of |-> r]
    OBVIOUS
  <2>1. log[t][i].role = "assistant" /\ log[t][i].of = r /\ Len(log[t]) \in Nat
    BY DEF Shape
  <2>2. PICK j \in 1..(i - 1) : Says(t, j, "user", r)
    BY <2>1 DEF TurnsAreSaid
  <2>3. j \in 1..Len(log[t])
    BY <2>1, <2>2
  <2> QED
    BY <2>2, <2>3 DEF Says
<1> HIDE DEF turns, failing, saving, streaming
<1>3. /\ stats.activeStreams = Cardinality(streaming)
      /\ stats.totalRequests =
            stats.totalRateLimits + stats.totalErrors + stats.successRows
      /\ stats.totalErrors = stats.errorRows + Cardinality(failing)
      /\ Cardinality(turns("assistant")) = stats.successRows + Cardinality(saving)
  BY <1>1 DEF Ledgers
<1> QED
  BY <1>2, <1>3 DEF LedgersAgree, turns, failing, saving, streaming

-----------------------------------------------------------------------------
(* The inductive invariant *)

Invariant ==
    /\ Shape
    /\ AllSound
    /\ PhasesAgree
    /\ ProbesAccounted
    /\ SlotsHeld
    /\ TurnsAreSaid
    /\ QuestionsAreThere
    /\ AllRead
    /\ Ledgers

\* The invariant holds at first, and is kept.
LEMMA InvariantInit == Init => Invariant
<1> SUFFICES ASSUME Init
             PROVE  Invariant
  OBVIOUS
<1> USE GatewayAssumption
<1>1. /\ limitPc = [r \in Requests |-> "idle"] /\ lease = Limiter!Absent
      /\ keyPc = [a \in Keyed |-> "idle"]
      /\ breakers = [m \in Registry |-> Router!NewBreaker]
      /\ call = [r \in Requests |-> Router!Unrouted]
      /\ lastProbe = [m \in Registry |-> Router!NoCall]
  BY DEF Init, Limiter!Init, Idempotency!Init, Router!Init
<1>2. /\ Router!NewBreaker \in Router!Breaker
      /\ ~Router!NewBreaker.isProbeInFlight
  BY DEF Router!NewBreaker, Router!Breaker, Router!CircuitState
<1>3. Router!Unrouted \in Router!CallRecord /\ Router!Unrouted.status = "idle"
  BY DEF Router!Unrouted, Router!CallRecord
<1>4. Limiter!Absent \in LeaseKey /\ Limiter!Absent.value = 0
  BY DEF Limiter!Absent, LeaseKey, Limiter!Exists, Limiter!NoKey
<1>5. Shape
  <2>1. log \in [Threads -> Seq(Turn)]
    BY DEF Init
  <2>2. /\ phase \in [Requests -> Phases]
        /\ thread \in [Requests -> Threads]
        /\ closed \in [Requests -> BOOLEAN]
        /\ aborted \in [Requests -> BOOLEAN]
        /\ history \in [Requests -> [arrived : Nat, read : Nat]]
        /\ stats \in Stats
    BY DEF Init, Phases, Stats
  <2>3. keyPc \in [Keyed -> KeySteps] /\ limitPc \in [Requests -> Limiter!Steps]
    BY <1>1 DEF KeySteps, Limiter!Steps
  <2> QED
    BY <1>1, <1>2, <1>3, <1>4, <2>1, <2>2, <2>3 DEF Shape
<1>6. AllSound /\ ProbesAccounted
  BY <1>1, <1>2 DEF AllSound, Sound, ProbesAccounted
<1>7. PhasesAgree
  BY <1>1, <1>3 DEF Init, PhasesAgree, Agrees, Arriving, Serving, Ending
<1>8. SlotsHeld
  <2>1. Holding = {}
    BY <1>1 DEF Holding, Slots
  <2> QED
    BY <1>1, <1>4, <2>1, FS_EmptySet DEF SlotsHeld
<1>9. \A t \in Threads : Len(log[t]) = 0
  BY DEF Init
<1>10. TurnsAreSaid
  BY <1>9 DEF TurnsAreSaid
<1>11. QuestionsAreThere /\ AllRead
  BY <1>9 DEF Init, QuestionsAreThere, AllRead, ReadsWhatWasThere, Asking, Arriving
<1>12. Ledgers
  <2>1. /\ In(Streams) = {} /\ In({"recordError"}) = {}
        /\ In({"recordSuccess"}) = {} /\ Answers = {}
    BY <1>9 DEF Init, In, Streams, Answers
  <2>2. /\ Cardinality(In(Streams)) = 0 /\ Cardinality(In({"recordError"})) = 0
        /\ Cardinality(In({"recordSuccess"})) = 0 /\ Cardinality(Answers) = 0
    BY <2>1, FS_EmptySet
  <2> QED
    BY <2>2 DEF Init, Ledgers
<1> QED
  BY <1>5, <1>6, <1>7, <1>8, <1>10, <1>11, <1>12 DEF Invariant

LEMMA InvariantNext == Invariant /\ [Next]_vars => Invariant'
BY TypeStep, PhasesStep, ProbesStep, SlotsStep, TurnsStep, ReadStep, LedgersStep
   DEF Invariant

LEMMA InvariantHolds == Spec => []Invariant
BY InvariantInit, InvariantNext, PTL DEF Spec

-----------------------------------------------------------------------------
\* A probe lease is only ever held for a request that passed the limiter and
\* is being served, or that was cut off by its client or thrown out at its
\* headers (chat.ts:139): no interleaving of requests, polls, operators and
\* the clock lets a 409 or a 429 cost a recovering model its probe.
THEOREM ProbeAlwaysServed == Spec => []ProbeIsServed
<1>1. Invariant => ProbeIsServed
  BY AccountedIsServed DEF Invariant
<1> QED
  BY <1>1, InvariantHolds, PTL

\* A handler that ends at its 409, its 429 or its finally block leaves no lease
\* of the limiter, no call and no running attempt behind; and when all are
\* finished the key counts at most those that threw in resolveRoute or at their
\* headers (chat.ts:117, 139), whatever the interleaving of its get, del and incrBy
\* (chat.ts:313-317).
THEOREM NothingEverLeftBehind == Spec => []NothingLeftBehind
<1>1. Invariant => NothingLeftBehind
  BY SlotsAreFreed DEF Invariant
<1> QED
  BY <1>1, InvariantHolds, PTL

\* The dashboard's streams, requests, errors and rejections, the rows of
\* model_requests and the answers in the conversations agree (chat.ts:150-308).
THEOREM LedgersAlwaysAgree == Spec => []LedgersAgree
<1>1. Invariant => LedgersAgree
  BY BooksAreLedgers DEF Invariant
<1> QED
  BY <1>1, InvariantHolds, PTL

\* What getMessages answers (chat.ts:79) has everything the conversation
\* had when the message arrived, not the message itself, and no answer without
\* its question.
THEOREM HistoryAlwaysCurrent == Spec => []HistoryIsCurrent
<1>1. Invariant => HistoryIsCurrent
  BY ReadIsCurrent DEF Invariant
<1> QED
  BY <1>1, InvariantHolds, PTL

-----------------------------------------------------------------------------
(* The handler and its components *)

\* Each step is one of each component, or leaves it alone.
LEMMA IsLimiterStep ==
    ASSUME [Next]_vars
    PROVE  [Limiter!Next]_(Limiter!vars)
<1> USE DEF Limiter!vars, limiterVars
<1>1. ASSUME NEW r \in Requests, Arrive(r) \/ Handle(r) \/ ClientLeaves(r)
      PROVE  \/ Limiter!Check(r) \/ Limiter!Release(r)
             \/ UNCHANGED limiterVars
  BY <1>1 DEF Handle, Arrive, AcquireKey, ResolveConversation, CheckLimits, Route,
              SaveUserTurn, StartStream, RefuseHeaders, RouteThrows, ClientLeaves, Complete,
              SaveAssistantTurn, RecordSuccess, Throw, FailStream, RecordError,
              DropStream, Finish, ReleaseLease, Limiter!Release
<1>2. CASE Tick \/ Observe \/ UNCHANGED vars
  BY <1>2 DEF Tick, Observe, vars, Limiter!Next
<1> QED
  BY <1>1, <1>2 DEF Next, Limiter!Next

LEMMA IsRouterStep ==
    ASSUME [Next]_vars
    PROVE  [Router!Next]_(Router!vars)
<1> USE DEF Router!vars, routerVars
<1>1. ASSUME NEW r \in Requests, Arrive(r) \/ Handle(r) \/ ClientLeaves(r)
      PROVE  \/ Router!RouteSomehow(r)
             \/ Router!Succeed(r) \/ Router!Fail(r) \/ Router!Abort(r)
             \/ UNCHANGED routerVars
  BY <1>1 DEF Handle, Arrive, AcquireKey, ResolveConversation, CheckLimits, Route,
              SaveUserTurn, StartStream, RefuseHeaders, RouteThrows, ClientLeaves, Complete,
              SaveAssistantTurn, RecordSuccess, Throw, FailStream, RecordError,
              DropStream, Finish, ReleaseLease
<1>2. CASE Tick \/ Observe \/ UNCHANGED vars
  BY <1>2 DEF Tick, Observe, vars, Router!Next
<1> QED
  BY <1>1, <1>2 DEF Next, Router!Next

LEMMA IsKeyStep ==
    ASSUME PhasesAgree, [Next]_vars
    PROVE  [Idempotency!Next]_(Idempotency!vars)
<1> USE DEF Idempotency!vars, keyVars
<1>1. ASSUME NEW r \in Requests, Arrive(r) \/ Handle(r) \/ ClientLeaves(r)
      PROVE  \/ /\ r \in Keyed
                /\ \/ Idempotency!Arrive(r) \/ Idempotency!Get(r)
                   \/ Idempotency!Set(r) \/ Idempotency!End(r)
             \/ UNCHANGED keyVars
  <2>1. AcquireKey(r) => r \in Keyed
    BY DEF AcquireKey, At, PhasesAgree, Agrees
  <2> QED
    BY <1>1, <2>1
       DEF Handle, Arrive, AcquireKey, ResolveConversation, CheckLimits, Route,
           SaveUserTurn, StartStream, RefuseHeaders, RouteThrows, ClientLeaves, Complete, SaveAssistantTurn,
           RecordSuccess, Throw, FailStream, RecordError, DropStream, Finish,
           ReleaseLease, EndKey
<1>2. CASE Tick \/ Observe \/ UNCHANGED vars
  BY <1>2 DEF Tick, Observe, vars, Idempotency!Next
<1> QED
  BY <1>1, <1>2 DEF Next, Idempotency!Next

\* What the handler does to a component is what the component's module says
\* can be done to it, and in that order: it sends the limiter's, the router's
\* and the lease's operations (chat.ts:54-320) as their specifications allow,
\* so that what is proved of a component, under that component's assumptions
\* on its constants, holds of it in the handler.
THEOREM HandlerUsesComponents ==
    Spec => Idempotency!Spec /\ Limiter!Spec /\ Router!Spec
<1>1. Init => Idempotency!Init /\ Limiter!Init /\ Router!Init
  BY DEF Init
<1>2. [Next]_vars => [Limiter!Next]_(Limiter!vars) /\ [Router!Next]_(Router!vars)
  BY IsLimiterStep, IsRouterStep
<1>3. Invariant /\ [Next]_vars => [Idempotency!Next]_(Idempotency!vars)
  BY IsKeyStep DEF Invariant
<1> QED
  BY <1>1, <1>2, <1>3, InvariantHolds, PTL
     DEF Spec, Idempotency!Spec, Limiter!Spec, Router!Spec

=============================================================================
