-------------------------- MODULE ModelRouterProofs --------------------------
(***************************************************************************)
(* Who takes a probe lease of ModelRouter, and who holds it, for any       *)
(* registry with the three mock models, any set of calls and any           *)
(* thresholds.                                                             *)
(***************************************************************************)
EXTENDS ModelRouter, BreakerOpsProofs, FiniteSetTheorems

BreakersConsistent == \A m \in Registry : Consistent(breakers[m])

IInv ==
    /\ TypeOK
    /\ BreakersConsistent
    /\ LeaseAccounted
    /\ RefusedGoesToLastResort

-----------------------------------------------------------------------------
(* The route *)

\* What is known of the registry.
LEMMA RegistryFacts ==
    ASSUME NEW id
    PROVE  /\ BreakerOf(id) \in Registry
           /\ LastResort \in Registry /\ BreakerOf(LastResort) = LastResort
           /\ FallbackCandidates(id) \in Seq(Registry)
           /\ Len(FallbackCandidates(id)) <= 2
BY RegistryAssumption DEF BreakerOf, LastResort, FallbackCandidates

\* Asking keeps breakers breakers, and what they agree on.
LEMMA AskKeepsBreakers ==
    ASSUME NEW bs \in [Registry -> Breaker], NEW asked
    PROVE  /\ Ask(bs, asked) \in [Registry -> Breaker]
           /\ (\A m \in Registry : Consistent(bs[m]))
              => \A m \in Registry : Consistent(Ask(bs, asked)[m])
           /\ \A m \in Registry :
                 Ask(bs, asked)[m].isProbeInFlight /\ ~bs[m].isProbeInFlight
                 => m \in asked /\ Admits(bs[m])
<1>1. ASSUME NEW m \in Registry
      PROVE  /\ Ask(bs, asked)[m] \in Breaker
             /\ Consistent(bs[m]) => Consistent(Ask(bs, asked)[m])
             /\ Ask(bs, asked)[m].isProbeInFlight /\ ~bs[m].isProbeInFlight
                => m \in asked /\ Admits(bs[m])
  <2>1. bs[m] \in Breaker
    OBVIOUS
  <2>2. CASE m \in asked
    <3>1. Ask(bs, asked)[m] = CanExecute(bs[m])
      BY <2>2 DEF Ask
    <3> QED
      BY <2>1, <2>2, <3>1, OperationsKeepType, OperationsKeepConsistent,
         LeaseIsTakenByAdmission
  <2>3. CASE m \notin asked
    <3>1. Ask(bs, asked)[m] = bs[m]
      BY <2>3 DEF Ask
    <3> QED
      BY <2>1, <3>1
  <2> QED
    BY <2>2, <2>3
<1>2. Ask(bs, asked) \in [Registry -> Breaker]
  BY <1>1 DEF Ask
<1> QED
  BY <1>1, <1>2

\* Of the candidates asked, the one that grants is the one selected.
LEMMA GrantedIsSelected ==
    ASSUME NEW bs \in [Registry -> Breaker], NEW cs \in Seq(Registry),
           NEW m \in Asked(bs, cs), Admits(bs[m])
    PROVE  FirstHealthy(bs, cs) = m /\ Healthy(bs, cs) # {}
<1>1. PICK i \in 1..Len(cs) :
        m = cs[i] /\ \A j \in 1..(i - 1) : j \notin Healthy(bs, cs)
  BY DEF Asked
<1>2. i \in Healthy(bs, cs)
  BY <1>1 DEF Healthy
<1>3. Healthy(bs, cs) \subseteq 1..Len(cs)
  BY DEF Healthy
<1>4. \A j \in Healthy(bs, cs) : i <= j
  BY <1>1, <1>3
<1> DEFINE first == CHOOSE k \in Healthy(bs, cs) : \A j \in Healthy(bs, cs) : k <= j
<1>5. first \in Healthy(bs, cs) /\ \A j \in Healthy(bs, cs) : first <= j
  BY <1>2, <1>4
<1>6. first = i
  <2>1. first <= i /\ i <= first
    BY <1>2, <1>4, <1>5
  <2>2. first \in Int /\ i \in Int
    BY <1>3, <1>5
  <2> HIDE DEF first
  <2> QED
    BY <2>1, <2>2
<1> QED
  BY <1>1, <1>2, <1>6 DEF FirstHealthy

\* The selected model is one of the candidates or the last resort.
LEMMA FirstHealthyIsKnown ==
    ASSUME NEW bs \in [Registry -> Breaker], NEW cs \in Seq(Registry), Len(cs) <= 2
    PROVE  /\ FirstHealthy(bs, cs) \in Registry
           /\ Healthy(bs, cs) = {} => FirstHealthy(bs, cs) = LastResort
<1>1. CASE Healthy(bs, cs) = {}
  BY <1>1, RegistryFacts DEF FirstHealthy
<1>2. CASE Healthy(bs, cs) # {}
  <2> DEFINE P(k) == k \in Healthy(bs, cs) /\ \A j \in Healthy(bs, cs) : k <= j
  <2>1. Healthy(bs, cs) \subseteq 1..Len(cs)
    BY DEF Healthy
  <2>2. P(1) \/ P(2)
    BY <1>2, <2>1
  <2>3. PICK k \in Healthy(bs, cs) : FirstHealthy(bs, cs) = cs[k]
    BY <1>2, <2>2 DEF FirstHealthy
  <2> QED
    BY <1>2, <2>1, <2>3
<1> QED
  BY <1>1, <1>2

\* A route keeps the breakers typed and consistent, takes a lease of the
\* breaker of the selected model only, and only as a grant; what every
\* breaker refuses goes to the last resort.
LEMMA RouteTakesItsLease ==
    ASSUME NEW bs \in [Registry -> Breaker], NEW target
    PROVE  LET route == ResolveRoute(bs, target)
               m     == BreakerOf(route.selected)
           IN  /\ m \in Registry
               /\ route.granted \in BOOLEAN
               /\ route.breakers \in [Registry -> Breaker]
               /\ (\A x \in Registry : Consistent(bs[x]))
                  => \A x \in Registry : Consistent(route.breakers[x])
               /\ \A x \in Registry :
                     route.breakers[x].isProbeInFlight /\ ~bs[x].isProbeInFlight
                     => route.granted /\ x = m
               /\ ~route.granted => m = LastResort
<1> DEFINE route == ResolveRoute(bs, target)
           own   == BreakerOf(target)
           bs1   == Ask(bs, {own})
           cs    == FallbackCandidates(target)
<1>1. own \in Registry /\ cs \in Seq(Registry) /\ Len(cs) <= 2
  BY RegistryFacts
<1>2. /\ bs1 \in [Registry -> Breaker]
      /\ (\A x \in Registry : Consistent(bs[x]))
         => \A x \in Registry : Consistent(bs1[x])
      /\ \A x \in Registry : bs1[x].isProbeInFlight /\ ~bs[x].isProbeInFlight
                             => x \in {own} /\ Admits(bs[x])
  BY AskKeepsBreakers
<1>3. BreakerOf(route.selected) \in Registry
  BY RegistryFacts
<1>4. CASE Admits(bs[own])
  <2>1. route.granted = TRUE /\ route.selected = target /\ route.breakers = bs1
    BY <1>4 DEF ResolveRoute
  <2> HIDE DEF route, bs1, cs
  <2> QED
    BY <1>2, <1>3, <2>1 DEF route
<1>5. CASE ~Admits(bs[own])
  <2> DEFINE asked == Asked(bs1, cs)
  <2>1. /\ route.granted = (Healthy(bs1, cs) # {})
        /\ route.selected = FirstHealthy(bs1, cs)
        /\ route.breakers = Ask(bs1, asked)
    BY <1>5 DEF ResolveRoute
  <2>2. /\ Ask(bs1, asked) \in [Registry -> Breaker]
        /\ (\A x \in Registry : Consistent(bs1[x]))
           => \A x \in Registry : Consistent(Ask(bs1, asked)[x])
        /\ \A x \in Registry :
              Ask(bs1, asked)[x].isProbeInFlight /\ ~bs1[x].isProbeInFlight
              => x \in asked /\ Admits(bs1[x])
    BY <1>2, AskKeepsBreakers
  <2> HIDE DEF bs1, cs, asked
  <2>3. /\ FirstHealthy(bs1, cs) \in Registry
        /\ Healthy(bs1, cs) = {} => FirstHealthy(bs1, cs) = LastResort
    BY <1>1, <1>2, FirstHealthyIsKnown
  <2>4. BreakerOf(route.selected) = FirstHealthy(bs1, cs)
    BY <2>1, <2>3 DEF BreakerOf
  <2>5. ASSUME NEW x \in Registry,
               route.breakers[x].isProbeInFlight, ~bs[x].isProbeInFlight
        PROVE  route.granted /\ x = BreakerOf(route.selected)
    <3>1. ~bs1[x].isProbeInFlight
      BY <1>2, <1>5, <2>5
    <3>2. x \in asked /\ Admits(bs1[x])
      BY <2>1, <2>2, <2>5, <3>1
    <3>3. FirstHealthy(bs1, cs) = x /\ Healthy(bs1, cs) # {}
      BY <1>1, <1>2, <3>2, GrantedIsSelected DEF asked
    <3> QED
      BY <2>1, <2>4, <3>3
  <2>6. route.granted \in BOOLEAN
    BY <2>1
  <2>7. ~route.granted => BreakerOf(route.selected) = LastResort
    BY <2>1, <2>3, <2>4
  <2>8. /\ route.breakers \in [Registry -> Breaker]
        /\ (\A x \in Registry : Consistent(bs[x]))
           => \A x \in Registry : Consistent(route.breakers[x])
    BY <1>2, <2>1, <2>2
  <2> HIDE DEF route
  <2> QED
    BY <1>3, <2>5, <2>6, <2>7, <2>8 DEF route
<1> QED
  BY <1>4, <1>5

-----------------------------------------------------------------------------
(* The steps *)

Quiet ==
    \/ \E c \in Calls : Succeed(c) \/ Fail(c) \/ Abort(c)
    \/ Poll
    \/ \E id \in Registry : TripCircuit(id)
    \/ ResetCircuits
    \/ Tick

\* What no step but a route does: untype or upset a breaker, take a lease.
LEMMA QuietStepTakesNoLease ==
    ASSUME TypeOK, BreakersConsistent, Quiet
    PROVE  /\ breakers' \in [Registry -> Breaker]
           /\ BreakersConsistent'
           /\ \A m \in Registry :
                 breakers'[m].isProbeInFlight => breakers[m].isProbeInFlight
<1> DEFINE Fine(m, b) == /\ b \in Breaker /\ Consistent(b)
                         /\ b.isProbeInFlight => breakers[m].isProbeInFlight
<1>1. ASSUME NEW m \in Registry
      PROVE  /\ Fine(m, breakers[m])
             /\ Fine(m, RecordSuccess(breakers[m]))
             /\ Fine(m, RecordFailure(breakers[m]))
             /\ Fine(m, GetState(breakers[m]))
             /\ Fine(m, ForceOpen(breakers[m]))
             /\ Fine(m, Reset(breakers[m]))
             /\ Fine(m, Elapse(breakers[m]))
  <2>1. breakers[m] \in Breaker /\ Consistent(breakers[m])
    BY DEF TypeOK, BreakersConsistent
  <2> QED
    BY <2>1, OperationsKeepType, OperationsKeepConsistent,
       LeaseIsTakenByAdmission
<1> HIDE DEF Fine
<1>2. breakers = [m \in Registry |-> breakers[m]]
  BY DEF TypeOK
<1>3. SUFFICES ASSUME TRUE
               PROVE  /\ breakers' = [m \in Registry |-> breakers'[m]]
                      /\ \A m \in Registry : Fine(m, breakers'[m])
  <2>1. ASSUME breakers' = [m \in Registry |-> breakers'[m]],
               \A m \in Registry : breakers'[m] \in Breaker
        PROVE  breakers' \in [Registry -> Breaker]
    BY <2>1
  <2> QED
    BY <2>1 DEF Fine, BreakersConsistent
<1>4. ASSUME NEW c \in Calls, Succeed(c) \/ Fail(c) \/ Abort(c)
      PROVE  /\ breakers' = [m \in Registry |-> breakers'[m]]
             /\ \A m \in Registry : Fine(m, breakers'[m])
  BY <1>1, <1>2, <1>4 DEF Succeed, Fail, Abort
<1>5. CASE Poll
  BY <1>1, <1>5 DEF Poll
<1>6. ASSUME NEW id \in Registry, TripCircuit(id)
      PROVE  /\ breakers' = [m \in Registry |-> breakers'[m]]
             /\ \A m \in Registry : Fine(m, breakers'[m])
  BY <1>1, <1>2, <1>6 DEF TripCircuit
<1>7. CASE ResetCircuits
  BY <1>1, <1>7 DEF ResetCircuits
<1>8. CASE Tick
  BY <1>1, <1>8 DEF Tick
<1> QED
  BY <1>4, <1>5, <1>6, <1>7, <1>8 DEF Quiet

\* A route, seen from the breakers: at most one new lease, at the breaker of
\* the model the call goes to, and recorded.
LEMMA RouteStep ==
    ASSUME TypeOK, BreakersConsistent, NEW c \in Calls, RouteSomehow(c)
    PROVE  \E m \in Registry, granted \in BOOLEAN :
               /\ breakers' \in [Registry -> Breaker]
               /\ BreakersConsistent'
               /\ call[c].status = "idle"
               /\ call' = [call EXCEPT ![c] =
                              [status |-> "running", breaker |-> m,
                               granted |-> granted]]
               /\ lastProbe' = IF granted /\ breakers'[m].isProbeInFlight
                               THEN [lastProbe EXCEPT ![m] = c] ELSE lastProbe
               /\ \A x \in Registry :
                     breakers'[x].isProbeInFlight /\ ~breakers[x].isProbeInFlight
                     => granted /\ x = m
               /\ ~granted => m = LastResort
               /\ RecordSent(m, c)
               /\ UNCHANGED operatorActions
<1>1. PICK requested \in Requested, deep \in BOOLEAN, long \in BOOLEAN :
        Route(c, requested, deep, long)
  BY DEF RouteSomehow
<1> DEFINE route == ResolveRoute(breakers, Target(requested, deep, long))
           m     == BreakerOf(route.selected)
<1>2. /\ call[c].status = "idle"
      /\ breakers' = route.breakers
      /\ call' = [call EXCEPT ![c] = [status |-> "running", breaker |-> m,
                                      granted |-> route.granted]]
      /\ lastProbe' = IF route.granted /\ breakers'[m].isProbeInFlight
                      THEN [lastProbe EXCEPT ![m] = c] ELSE lastProbe
      /\ RecordSent(m, c)
      /\ UNCHANGED operatorActions
  BY <1>1 DEF Route
<1>3. breakers \in [Registry -> Breaker]
  BY DEF TypeOK
<1>4. /\ m \in Registry
      /\ route.granted \in BOOLEAN
      /\ route.breakers \in [Registry -> Breaker]
      /\ (\A x \in Registry : Consistent(breakers[x]))
         => \A x \in Registry : Consistent(route.breakers[x])
      /\ \A x \in Registry :
            route.breakers[x].isProbeInFlight /\ ~breakers[x].isProbeInFlight
            => route.granted /\ x = m
      /\ ~route.granted => m = LastResort
  BY <1>3, RouteTakesItsLease
<1>5. BreakersConsistent'
  BY <1>2, <1>4 DEF BreakersConsistent
<1> HIDE DEF route, m
<1> QED
  BY <1>2, <1>4, <1>5

\* Every step is a route, takes no lease, or makes room for another call.
LEMMA NextIsRouteOrQuiet ==
    Next => \/ \E c \in Calls : RouteSomehow(c)
            \/ Quiet
            \/ \E c \in Calls : CallAgain(c)
BY DEF Next, Quiet

-----------------------------------------------------------------------------
(* The invariant *)

\* The steps keep the types.
LEMMA TypeStep ==
    ASSUME TypeOK, BreakersConsistent, [Next]_vars
    PROVE  TypeOK' /\ BreakersConsistent'
<1>1. ASSUME NEW c \in Calls, RouteSomehow(c)
      PROVE  TypeOK' /\ BreakersConsistent'
  <2>1. PICK m \in Registry, granted \in BOOLEAN :
          /\ breakers' \in [Registry -> Breaker]
          /\ BreakersConsistent'
          /\ call' = [call EXCEPT ![c] =
                         [status |-> "running", breaker |-> m,
                          granted |-> granted]]
          /\ lastProbe' = IF granted /\ breakers'[m].isProbeInFlight
                          THEN [lastProbe EXCEPT ![m] = c] ELSE lastProbe
          /\ RecordSent(m, c)
          /\ UNCHANGED operatorActions
    BY <1>1, RouteStep
  <2>2. call' \in [Calls -> CallRecord]
    BY <2>1 DEF TypeOK, CallRecord
  <2>3. lastProbe' \in [Registry -> Calls \cup {NoCall}]
    BY <2>1 DEF TypeOK
  <2>4. sent' \in [Registry -> SUBSET Calls]
    BY <2>1 DEF TypeOK, RecordSent
  <2> QED
    BY <2>1, <2>2, <2>3, <2>4 DEF TypeOK
<1>2. ASSUME Quiet
      PROVE  TypeOK' /\ BreakersConsistent'
  <2>1. breakers' \in [Registry -> Breaker] /\ BreakersConsistent'
    BY <1>2, QuietStepTakesNoLease
  <2>2. call' \in [Calls -> CallRecord]
    BY <1>2 DEF Quiet, Succeed, Fail, Abort, Poll, TripCircuit, ResetCircuits,
                Tick, OperatorCommand, TypeOK, CallRecord
  <2>3. sent' \in [Registry -> SUBSET Calls]
    BY <1>2 DEF Quiet, Succeed, Fail, Abort, Poll, TripCircuit, ResetCircuits,
                Tick, RecordNothingSent, TypeOK
  <2>4. /\ lastProbe' \in [Registry -> Calls \cup {NoCall}]
        /\ operatorActions' \in 0..MaxOperatorActions
    BY <1>2, CallsAssumption
       DEF Quiet, Succeed, Fail, Abort, Poll, TripCircuit, ResetCircuits,
           Tick, OperatorCommand, TypeOK
  <2> QED
    BY <2>1, <2>2, <2>3, <2>4 DEF TypeOK
<1>3. ASSUME NEW c \in Calls, CallAgain(c)
      PROVE  TypeOK' /\ BreakersConsistent'
  <2>1. call' \in [Calls -> CallRecord]
    BY <1>3 DEF CallAgain, TypeOK, Unrouted, CallRecord
  <2>2. lastProbe' \in [Registry -> Calls \cup {NoCall}]
    BY <1>3 DEF CallAgain, TypeOK
  <2>3. sent' \in [Registry -> SUBSET Calls]
    BY <1>3 DEF CallAgain, TypeOK
  <2> QED
    BY <1>3, <2>1, <2>2, <2>3 DEF CallAgain, TypeOK, BreakersConsistent
<1>4. CASE UNCHANGED vars
  BY <1>4 DEF vars, TypeOK, BreakersConsistent
<1> QED
  BY <1>1, <1>2, <1>3, <1>4, NextIsRouteOrQuiet

\* A held lease stays accounted for: a route records the call that takes it,
\* and that call's report frees it.
LEMMA LeaseStep ==
    ASSUME TypeOK, BreakersConsistent, LeaseAccounted, [Next]_vars
    PROVE  LeaseAccounted'
<1>1. ASSUME NEW c \in Calls, RouteSomehow(c)
      PROVE  LeaseAccounted'
  <2>1. PICK m \in Registry, granted \in BOOLEAN :
          /\ call[c].status = "idle"
          /\ call' = [call EXCEPT ![c] =
                         [status |-> "running", breaker |-> m,
                          granted |-> granted]]
          /\ lastProbe' = IF granted /\ breakers'[m].isProbeInFlight
                          THEN [lastProbe EXCEPT ![m] = c] ELSE lastProbe
          /\ \A x \in Registry :
                breakers'[x].isProbeInFlight /\ ~breakers[x].isProbeInFlight
                => granted /\ x = m
    BY <1>1, RouteStep
  <2> SUFFICES ASSUME NEW x \in Registry, breakers'[x].isProbeInFlight
               PROVE  /\ lastProbe'[x] \in Calls
                      /\ call'[lastProbe'[x]].breaker = x
                      /\ call'[lastProbe'[x]].status \in {"running", "aborted"}
    BY DEF LeaseAccounted
  <2>2. CASE granted /\ x = m
    BY <2>1, <2>2 DEF TypeOK
  <2>3. CASE ~(granted /\ x = m)
    <3>1. breakers[x].isProbeInFlight /\ lastProbe'[x] = lastProbe[x]
      BY <2>1, <2>3 DEF TypeOK
    <3>2. /\ lastProbe[x] \in Calls
          /\ call[lastProbe[x]].breaker = x
          /\ call[lastProbe[x]].status \in {"running", "aborted"}
      BY <3>1 DEF LeaseAccounted
    <3>3. call'[lastProbe[x]] = call[lastProbe[x]]
      BY <2>1, <3>2 DEF TypeOK
    <3> QED
      BY <3>1, <3>2, <3>3
  <2> QED
    BY <2>2, <2>3
<1>2. ASSUME Quiet
      PROVE  LeaseAccounted'
  <2> SUFFICES ASSUME NEW x \in Registry, breakers'[x].isProbeInFlight
               PROVE  /\ lastProbe'[x] \in Calls
                      /\ call'[lastProbe'[x]].breaker = x
                      /\ call'[lastProbe'[x]].status \in {"running", "aborted"}
    BY DEF LeaseAccounted
  <2>1. breakers[x].isProbeInFlight
    BY <1>2, QuietStepTakesNoLease
  <2>2. /\ lastProbe[x] \in Calls
        /\ call[lastProbe[x]].breaker = x
        /\ call[lastProbe[x]].status \in {"running", "aborted"}
    BY <2>1 DEF LeaseAccounted
  <2>3. lastProbe' = lastProbe
    BY <1>2 DEF Quiet, Succeed, Fail, Abort, Poll, TripCircuit, ResetCircuits,
                Tick, OperatorCommand
  <2>4. breakers[x] \in Breaker /\ Consistent(breakers[x])
    BY DEF TypeOK, BreakersConsistent
  <2>5. ASSUME NEW c \in Calls, Succeed(c) \/ Fail(c)
        PROVE  c # lastProbe[x] /\ call' \in [Calls -> CallRecord]
               /\ call'[lastProbe[x]] = call[lastProbe[x]]
    <3>1. call[c].breaker # x
      BY <2>4, <2>5, ReportsFreeTheLease DEF Succeed, Fail, TypeOK
    <3>2. c # lastProbe[x]
      BY <2>2, <3>1
    <3> QED
      BY <2>2, <2>5, <3>2 DEF Succeed, Fail, TypeOK, CallRecord
  <2>6. ASSUME NEW c \in Calls, Abort(c)
        PROVE  /\ call'[lastProbe[x]].breaker = x
               /\ call'[lastProbe[x]].status \in {"running", "aborted"}
    BY <2>2, <2>6 DEF Abort, TypeOK, CallRecord
  <2>7. ASSUME Poll \/ (\E id \in Registry : TripCircuit(id)) \/ ResetCircuits
               \/ Tick
        PROVE  call' = call
    BY <2>7 DEF Poll, TripCircuit, ResetCircuits, Tick, OperatorCommand
  <2> QED
    BY <1>2, <2>2, <2>3, <2>5, <2>6, <2>7 DEF Quiet
<1>3. ASSUME NEW c \in Calls, CallAgain(c)
      PROVE  LeaseAccounted'
  <2> SUFFICES ASSUME NEW x \in Registry, breakers'[x].isProbeInFlight
               PROVE  /\ lastProbe'[x] \in Calls
                      /\ call'[lastProbe'[x]].breaker = x
                      /\ call'[lastProbe'[x]].status \in {"running", "aborted"}
    BY DEF LeaseAccounted
  <2>1. breakers[x].isProbeInFlight /\ lastProbe[x] # c
    BY <1>3 DEF CallAgain
  <2>2. lastProbe'[x] = lastProbe[x]
    BY <1>3, <2>1 DEF CallAgain
  <2>3. /\ lastProbe[x] \in Calls
        /\ call[lastProbe[x]].breaker = x
        /\ call[lastProbe[x]].status \in {"running", "aborted"}
    BY <2>1 DEF LeaseAccounted
  <2>4. call'[lastProbe[x]] = call[lastProbe[x]]
    BY <1>3, <2>1, <2>3 DEF CallAgain, TypeOK
  <2> QED
    BY <2>2, <2>3, <2>4
<1>4. CASE UNCHANGED vars
  BY <1>4 DEF vars, LeaseAccounted
<1> QED
  BY <1>1, <1>2, <1>3, <1>4, NextIsRouteOrQuiet

\* What no breaker granted stays where the route put it.
LEMMA RefusedStep ==
    ASSUME TypeOK, BreakersConsistent, RefusedGoesToLastResort, [Next]_vars
    PROVE  RefusedGoesToLastResort'
<1> USE DEF RefusedGoesToLastResort
<1>1. ASSUME NEW c \in Calls, RouteSomehow(c)
      PROVE  RefusedGoesToLastResort'
  <2>1. PICK m \in Registry, granted \in BOOLEAN :
          /\ call' = [call EXCEPT ![c] =
                         [status |-> "running", breaker |-> m,
                          granted |-> granted]]
          /\ ~granted => m = LastResort
    BY <1>1, RouteStep
  <2> QED
    BY <2>1 DEF TypeOK
<1>2. ASSUME Quiet
      PROVE  RefusedGoesToLastResort'
  <2>1. ASSUME NEW d \in Calls
        PROVE  /\ call'[d].breaker = call[d].breaker
               /\ call'[d].granted = call[d].granted
               /\ call'[d].status # call[d].status => call[d].status # "idle"
    BY <1>2 DEF Quiet, Succeed, Fail, Abort, Running, Poll, TripCircuit,
                ResetCircuits, Tick, OperatorCommand, TypeOK, CallRecord
  <2> QED
    BY <2>1
<1>3. ASSUME NEW c \in Calls, CallAgain(c)
      PROVE  RefusedGoesToLastResort'
  BY <1>3 DEF CallAgain, Unrouted, TypeOK
<1>4. CASE UNCHANGED vars
  BY <1>4 DEF vars
<1> QED
  BY <1>1, <1>2, <1>3, <1>4, NextIsRouteOrQuiet

\* The invariant holds at first, and is kept.
LEMMA InvInductive ==
    /\ Init => IInv
    /\ IInv /\ [Next]_vars => IInv'
<1>1. Init => IInv
  <2> SUFFICES ASSUME Init
               PROVE  IInv
    OBVIOUS
  <2>1. NewBreaker \in Breaker /\ Consistent(NewBreaker)
    BY ThresholdAssumption
       DEF NewBreaker, Breaker, CircuitState, Consistent
  <2>2. TypeOK
    BY <2>1, CallsAssumption DEF Init, TypeOK, Unrouted, CallRecord
  <2>3. BreakersConsistent
    BY <2>1 DEF Init, BreakersConsistent
  <2>4. LeaseAccounted /\ RefusedGoesToLastResort
    BY DEF Init, LeaseAccounted, RefusedGoesToLastResort, NewBreaker, Unrouted
  <2> QED
    BY <2>2, <2>3, <2>4 DEF IInv
<1>2. IInv /\ [Next]_vars => IInv'
  BY TypeStep, LeaseStep, RefusedStep DEF IInv
<1> QED
  BY <1>1, <1>2

LEMMA InvAlways == Spec => []IInv
<1> QED
  BY InvInductive, PTL DEF Spec

-----------------------------------------------------------------------------
(* The theorems *)

\* A lease on a model's breaker that is held is the lease of a call sent to
\* that model, which runs or was dropped by its client: no route, however
\* many breakers it asks (isOpen() and find() in resolveRoute), leaves one
\* behind elsewhere.
THEOREM LeaseAlwaysAccounted == Spec => []LeaseAccounted
<1>1. IInv => LeaseAccounted
  BY DEF IInv
<1> QED
  BY <1>1, InvAlways, PTL

\* A call that no breaker granted is never on a model other than mock-fast
\* (the default of fallbackCandidates.find in resolveRoute).
THEOREM RefusedAlwaysGoToLastResort == Spec => []RefusedGoesToLastResort
<1>1. IInv => RefusedGoesToLastResort
  BY DEF IInv
<1> QED
  BY <1>1, InvAlways, PTL

\* The lease of a model is only ever taken in the step that sends a call to
\* that very model.
THEOREM LeaseAlwaysFollowsRoute == Spec => LeaseFollowsRoute
<1> DEFINE Taken(m) == ~breakers[m].isProbeInFlight /\ breakers'[m].isProbeInFlight
           Sent(m) == \E c \in Calls : /\ call[c].status = "idle"
                                       /\ call'[c].status = "running"
                                       /\ call'[c].breaker = m
<1>1. ASSUME IInv, [Next]_vars
      PROVE  [\A m \in Registry : Taken(m) => Sent(m)]_vars
  <2>1. ASSUME NEW c \in Calls, RouteSomehow(c)
        PROVE  \A m \in Registry : Taken(m) => Sent(m)
    <3>1. PICK m \in Registry, granted \in BOOLEAN :
            /\ call[c].status = "idle"
            /\ call' = [call EXCEPT ![c] =
                           [status |-> "running", breaker |-> m,
                            granted |-> granted]]
            /\ \A x \in Registry :
                  breakers'[x].isProbeInFlight /\ ~breakers[x].isProbeInFlight
                  => granted /\ x = m
      BY <1>1, <2>1, RouteStep DEF IInv
    <3>2. call'[c].status = "running" /\ call'[c].breaker = m
      BY <1>1, <3>1 DEF IInv, TypeOK
    <3> QED
      BY <3>1, <3>2
  <2>2. ASSUME Quiet
        PROVE  \A m \in Registry : Taken(m) => Sent(m)
    BY <1>1, <2>2, QuietStepTakesNoLease DEF IInv
  <2>3. ASSUME NEW c \in Calls, CallAgain(c)
        PROVE  \A m \in Registry : Taken(m) => Sent(m)
    BY <2>3 DEF CallAgain
  <2> QED
    BY <1>1, <2>1, <2>2, <2>3, NextIsRouteOrQuiet
<1> QED
  BY <1>1, InvAlways, PTL DEF Spec, LeaseFollowsRoute

-----------------------------------------------------------------------------
(* The promise *)

Budget(b) == b.consecutiveSuccesses + (IF b.isProbeInFlight THEN 1 ELSE 0)

\* The calls s sent in this visit of b to HALF_OPEN are paid for, all but the
\* current one by a counted success.
Paid(b, s) ==
    /\ b.state # "HALF_OPEN" => s = {}
    /\ Cardinality(s) <= Budget(b)

\* What is left of the history s when b is the breaker.
Visit(b, s) == IF b.state = "HALF_OPEN" THEN s ELSE {}

\* A step of BreakerPromise, or none, from breaker b with n trials to d with k.
Kept(b, n, d, k) ==
    \/ d.state = "OPEN" /\ d.wait = ResetTimeout /\ k = 0
    \/ /\ b.state = "OPEN" /\ b.wait = 0
       /\ d.state = "HALF_OPEN" /\ d.wait = b.wait /\ k \in {0, 1}
    \/ /\ b.state = "HALF_OPEN" /\ n < SuccessThreshold
       /\ d.state = b.state /\ d.wait = b.wait /\ k = n + 1
    \/ d.state = "CLOSED" /\ d.wait \in {0, b.wait} /\ k = 0
    \/ b.wait > 0 /\ d.wait = b.wait - 1 /\ d.state = b.state /\ k = n
    \/ d.state = b.state /\ d.wait = b.wait /\ k = n

SentPaidFor == \A m \in Protected : Paid(breakers[m], sent[m])

\* A breaker that refuses is left as it was.
LEMMA RefusalChangesNothing ==
    ASSUME NEW b \in Breaker, Consistent(b), ~Admits(b)
    PROVE  CanExecute(b) = b
BY DEF Admits, CanExecute, GetState, Breaker, CircuitState, Consistent

\* A report, a poll, a command or the clock keeps what was sent paid for.
LEMMA OperationsKeepPromise ==
    ASSUME NEW b \in Breaker, Consistent(b), NEW s, IsFiniteSet(s), Paid(b, s)
    PROVE  /\ \A d \in {b, GetState(b), RecordSuccess(b), RecordFailure(b),
                        Reset(b), ForceOpen(b)} :
                 /\ Paid(d, Visit(d, s))
                 /\ Kept(b, Cardinality(s), d, Cardinality(Visit(d, s)))
           /\ Paid(Elapse(b), s)
           /\ Kept(b, Cardinality(s), Elapse(b), Cardinality(s))
<1> DEFINE n == Cardinality(s)
<1>0. /\ n \in Nat /\ Cardinality({}) = 0
      /\ n <= b.consecutiveSuccesses + (IF b.isProbeInFlight THEN 1 ELSE 0)
      /\ b.state # "HALF_OPEN" => s = {}
  BY FS_CardinalityType, FS_EmptySet DEF Paid, Budget
<1>1. ASSUME NEW d \in Breaker, d.state # "HALF_OPEN"
      PROVE  Paid(d, Visit(d, s)) /\ Visit(d, s) = {}
  BY <1>0, <1>1 DEF Paid, Visit, Budget, Breaker
<1>2. ASSUME NEW d \in Breaker, d.state = "HALF_OPEN", Budget(d) >= Budget(b)
      PROVE  Paid(d, Visit(d, s)) /\ Visit(d, s) = s
  BY <1>0, <1>2 DEF Paid, Visit, Budget, Breaker
<1> DEFINE Goal(d) == /\ Paid(d, Visit(d, s))
                      /\ Kept(b, n, d, Cardinality(Visit(d, s)))
<1> HIDE DEF n
<1>3. Visit(b, s) = s
  BY <1>0 DEF Visit
<1>4. Goal(b)
  BY <1>3 DEF Kept, n
<1>5. Goal(GetState(b))
  <2>1. CASE b.state = "OPEN" /\ b.wait = 0
    <3> DEFINE d == GetState(b)
    <3>1. d \in Breaker /\ d.state = "HALF_OPEN" /\ d.wait = b.wait
      BY <2>1, OperationsKeepType DEF GetState, Breaker
    <3>2. Visit(d, s) = {}
      BY <1>0, <2>1, <3>1 DEF Visit
    <3>3. Budget(d) >= 0
      BY <3>1 DEF Budget, Breaker
    <3> HIDE DEF d
    <3>4. Paid(d, {}) /\ Kept(b, n, d, 0)
      BY <1>0, <2>1, <3>1, <3>3 DEF Paid, Kept
    <3> QED
      BY <1>0, <3>2, <3>4 DEF d
  <2>2. CASE ~(b.state = "OPEN" /\ b.wait = 0)
    BY <1>4, <2>2 DEF GetState
  <2> QED
    BY <2>1, <2>2
<1>6. Goal(RecordSuccess(b))
  <2> DEFINE d == RecordSuccess(b)
  <2>1. d \in Breaker /\ d.wait = b.wait
    BY OperationsKeepType DEF RecordSuccess, Breaker
  <2>2. CASE d.state = "CLOSED"
    <3> HIDE DEF d
    <3>1. Kept(b, n, d, 0)
      BY <2>1, <2>2 DEF Kept
    <3> QED
      BY <1>0, <1>1, <2>1, <2>2, <3>1 DEF d
  <2>3. CASE d.state # "CLOSED"
    <3>1. /\ b.state = "HALF_OPEN" /\ d.state = "HALF_OPEN"
          /\ d.consecutiveSuccesses = b.consecutiveSuccesses + 1
      BY <2>3 DEF RecordSuccess, Breaker
    <3>2. Budget(d) >= Budget(b)
      BY <2>1, <3>1 DEF Budget, Breaker
    <3> HIDE DEF d
    <3>3. Kept(b, n, d, n)
      BY <2>1, <3>1 DEF Kept
    <3> QED
      BY <1>2, <2>1, <3>1, <3>2, <3>3 DEF d, n
  <2> QED
    BY <2>2, <2>3
<1>7. Goal(RecordFailure(b))
  <2> DEFINE d == RecordFailure(b)
  <2>1. /\ d \in Breaker /\ d.state # "HALF_OPEN"
        /\ \/ d.state = "OPEN" /\ d.wait = ResetTimeout
           \/ d.state = b.state /\ d.wait = b.wait
    BY OperationsKeepType DEF RecordFailure, Breaker
  <2> HIDE DEF d
  <2>2. Kept(b, n, d, 0)
    BY <1>0, <2>1 DEF Kept, n
  <2> QED
    BY <1>0, <1>1, <2>1, <2>2 DEF d
<1>8. Goal(Reset(b))
  <2> DEFINE d == Reset(b)
  <2>1. d \in Breaker /\ d.state = "CLOSED" /\ d.wait = 0
    BY OperationsKeepType DEF Reset, NewBreaker
  <2> HIDE DEF d
  <2>2. Kept(b, n, d, 0)
    BY <2>1 DEF Kept
  <2> QED
    BY <1>0, <1>1, <2>1, <2>2 DEF d
<1>9. Goal(ForceOpen(b))
  <2> DEFINE d == ForceOpen(b)
  <2>1. d \in Breaker /\ d.state = "OPEN" /\ d.wait = ResetTimeout
    BY OperationsKeepType DEF ForceOpen, Breaker
  <2> HIDE DEF d
  <2>2. Kept(b, n, d, 0)
    BY <2>1 DEF Kept
  <2> QED
    BY <1>0, <1>1, <2>1, <2>2 DEF d
<1>10. Paid(Elapse(b), s) /\ Kept(b, n, Elapse(b), n)
  <2> DEFINE d == Elapse(b)
  <2>1. /\ d.state = b.state /\ Budget(d) = Budget(b)
        /\ d.wait = IF b.wait > 0 THEN b.wait - 1 ELSE 0
        /\ b.wait \in 0..ResetTimeout
    BY DEF Elapse, Budget, Breaker
  <2>2. b.wait > 0 \/ b.wait = 0
    BY <2>1, ThresholdAssumption
  <2> HIDE DEF d
  <2>3. Paid(d, s) /\ Kept(b, n, d, n)
    BY <2>1, <2>2 DEF Paid, Kept
  <2> QED
    BY <2>3 DEF d
<1> QED
  BY <1>4, <1>5, <1>6, <1>7, <1>8, <1>9, <1>10 DEF n


\* So does letting a call through: the lease pays for it.
LEMMA AdmissionKeepsPromise ==
    ASSUME NEW b \in Breaker, Consistent(b), NEW s, IsFiniteSet(s), Paid(b, s),
           NEW c, Admits(b)
    PROVE  LET d == CanExecute(b)
               t == Visit(d, s \cup {c})
           IN  Paid(d, t) /\ Kept(b, Cardinality(s), d, Cardinality(t))
<1> DEFINE n == Cardinality(s)
           d == CanExecute(b)
           t == Visit(d, s \cup {c})
           k == Cardinality(t)
<1>0. /\ n \in Nat /\ Cardinality({}) = 0
      /\ n <= b.consecutiveSuccesses + (IF b.isProbeInFlight THEN 1 ELSE 0)
      /\ b.state # "HALF_OPEN" => s = {}
      /\ d \in Breaker
  BY FS_CardinalityType, FS_EmptySet, OperationsKeepType DEF Paid, Budget
<1>1. CASE b.state = "CLOSED"
  <2>1. d = b
    BY <1>1 DEF CanExecute, GetState, Breaker, Consistent
  <2>2. t = {} /\ s = {}
    BY <1>0, <1>1, <2>1 DEF Visit
  <2> QED
    BY <1>0, <1>1, <2>1, <2>2 DEF Paid, Kept
<1>2. CASE b.state # "CLOSED"
  <2>1. /\ d.state = "HALF_OPEN" /\ d.wait = b.wait
        /\ b.state = "OPEN" => b.wait = 0
        /\ ~b.isProbeInFlight /\ d.isProbeInFlight
        /\ d.consecutiveSuccesses = b.consecutiveSuccesses
        /\ b.state \in {"OPEN", "HALF_OPEN"}
    BY <1>2 DEF Admits, CanExecute, GetState, Breaker, CircuitState, Consistent
  <2>2. t = s \cup {c}
    BY <2>1 DEF Visit
  <2> HIDE DEF t, d
  <2>3. k = (IF c \in s THEN n ELSE n + 1) /\ k \in Nat
    BY <1>0, <2>2, FS_AddElement, FS_CardinalityType, Zenon
  <2> HIDE DEF k, n
  <2>4. /\ b.consecutiveSuccesses \in Nat /\ n <= b.consecutiveSuccesses
        /\ n < SuccessThreshold
    BY <1>0, <2>1, ThresholdAssumption DEF Breaker, Consistent
  <2>5. k <= n + 1
    BY <1>0, <2>3
  <2>6. k <= Budget(d)
    BY <1>0, <2>1, <2>3, <2>4, <2>5 DEF Budget
  <2>7. CASE b.state = "OPEN"
    <3>1. n = 0
      BY <1>0, <2>7 DEF n
    <3>2. k \in {0, 1}
      BY <2>3, <3>1
    <3> QED
      BY <2>1, <2>6, <2>7, <3>2 DEF Paid, Kept, k, n, d, t
  <2>8. CASE b.state = "HALF_OPEN"
    <3>1. Kept(b, n, d, k)
      BY <2>1, <2>3, <2>4, <2>8 DEF Kept
    <3> QED
      BY <2>1, <2>6, <3>1 DEF Paid, k, n, d, t
  <2> QED
    BY <2>1, <2>7, <2>8
<1> QED
  BY <1>1, <1>2

-----------------------------------------------------------------------------
\* What is selected is the first candidate that grants, if any does.
LEMMA FirstHealthyIsFirst ==
    ASSUME NEW bs \in [Registry -> Breaker], NEW cs \in Seq(Registry), Len(cs) <= 2,
           FirstHealthy(bs, cs) # LastResort
    PROVE  \E k \in Healthy(bs, cs) :
              /\ FirstHealthy(bs, cs) = cs[k]
              /\ \A j \in Healthy(bs, cs) : k <= j
<1>1. Healthy(bs, cs) # {}
  BY DEF FirstHealthy
<1> DEFINE P(k) == k \in Healthy(bs, cs) /\ \A j \in Healthy(bs, cs) : k <= j
<1>2. Healthy(bs, cs) \subseteq 1..Len(cs)
  BY DEF Healthy
<1>3. P(1) \/ P(2)
  BY <1>1, <1>2
<1> QED
  BY <1>1, <1>3 DEF FirstHealthy

\* No model but the last resort is asked twice in a route, and the one whose
\* breaker grants is the one the call goes to.
LEMMA ProtectedRoute ==
    ASSUME NEW bs \in [Registry -> Breaker],
           \A x \in Registry : Consistent(bs[x]), NEW target,
           NEW x \in Protected
    PROVE  LET route == ResolveRoute(bs, target)
               m     == BreakerOf(route.selected)
           IN  IF x = m
               THEN Admits(bs[x]) /\ route.breakers[x] = CanExecute(bs[x])
               ELSE route.breakers[x] = bs[x]
<1> DEFINE route == ResolveRoute(bs, target)
           m     == BreakerOf(route.selected)
           own   == BreakerOf(target)
           bs1   == Ask(bs, {own})
           cs    == FallbackCandidates(target)
           asked == Asked(bs1, cs)
<1>0. /\ x \in Registry /\ x # LastResort /\ own \in Registry
      /\ bs[x] \in Breaker /\ bs[own] \in Breaker
      /\ Consistent(bs[x]) /\ Consistent(bs[own])
      /\ LastResort \in Registry
  BY RegistryFacts DEF Protected
<1>1. bs1 \in [Registry -> Breaker]
  BY AskKeepsBreakers
<1>2. bs1[x] = IF x = own THEN CanExecute(bs[x]) ELSE bs[x]
  BY <1>0 DEF Ask
<1>3. cs \in Seq(Registry) /\ Len(cs) <= 2
  BY RegistryFacts
<1>4. CASE Admits(bs[own])
  <2>1. route.selected = target /\ route.breakers = bs1
    BY <1>4 DEF ResolveRoute
  <2>2. m = own
    BY <2>1
  <2> QED
    BY <1>2, <1>4, <2>1, <2>2
<1>5. CASE ~Admits(bs[own])
  <2>1. /\ route.selected = FirstHealthy(bs1, cs)
        /\ route.breakers = Ask(bs1, asked)
    BY <1>5 DEF ResolveRoute
  <2>2. bs1[x] = bs[x]
    BY <1>0, <1>2, <1>5, RefusalChangesNothing
  <2>3. FirstHealthy(bs1, cs) \in Registry
    BY <1>1, <1>3, FirstHealthyIsKnown
  <2>4. m = FirstHealthy(bs1, cs)
    BY <2>1, <2>3 DEF BreakerOf
  <2>5. route.breakers[x] = IF x \in asked THEN CanExecute(bs[x]) ELSE bs[x]
    BY <1>0, <2>1, <2>2 DEF Ask
  <2>6. CASE x \in asked /\ Admits(bs[x])
    <3>1. FirstHealthy(bs1, cs) = x
      BY <1>1, <1>3, <2>2, <2>6, GrantedIsSelected
    <3> QED
      BY <2>4, <2>5, <2>6, <3>1
  <2>7. CASE ~(x \in asked /\ Admits(bs[x]))
    <3>1. route.breakers[x] = bs[x]
      BY <1>0, <2>5, <2>7, RefusalChangesNothing
    <3>2. x # m
      <4>1. SUFFICES ASSUME x = FirstHealthy(bs1, cs)
                     PROVE  x \in asked /\ Admits(bs[x])
        BY <2>4, <2>7
      <4>2. PICK k \in Healthy(bs1, cs) :
              /\ x = cs[k]
              /\ \A j \in Healthy(bs1, cs) : k <= j
        BY <1>0, <1>1, <1>3, <4>1, FirstHealthyIsFirst
      <4>3. k \in 1..Len(cs) /\ Admits(bs1[x])
        BY <4>2 DEF Healthy
      <4>4. \A j \in 1..(k - 1) : j \notin Healthy(bs1, cs)
        <5>1. SUFFICES ASSUME NEW j \in 1..(k - 1), j \in Healthy(bs1, cs)
                       PROVE  FALSE
          OBVIOUS
        <5>2. k <= j
          BY <4>2, <5>1
        <5> HIDE DEF bs1, cs
        <5>3. k \in Int /\ j \in Int
          BY <1>3, <4>3
        <5> QED
          BY <5>1, <5>2, <5>3
      <4> QED
        BY <2>2, <4>2, <4>3, <4>4 DEF Asked
    <3> QED
      BY <3>1, <3>2
  <2> QED
    BY <2>6, <2>7
<1> QED
  BY <1>4, <1>5


\* The history of a protected model stays paid for, and its breaker takes a
\* step of the promise or none, in every step of the router.
LEMMA PromiseStep ==
    ASSUME IInv, SentPaidFor, [Next]_vars, NEW x \in Protected
    PROVE  /\ Paid(breakers'[x], sent'[x])
           /\ Kept(breakers[x], Cardinality(sent[x]),
                   breakers'[x], Cardinality(sent'[x]))
<1> DEFINE Goal(d, s) == /\ Paid(d, s)
                         /\ Kept(breakers[x], Cardinality(sent[x]), d, Cardinality(s))
<1>0. /\ x \in Registry /\ x # LastResort
      /\ breakers \in [Registry -> Breaker]
      /\ breakers[x] \in Breaker /\ Consistent(breakers[x])
      /\ \A m \in Registry : Consistent(breakers[m])
      /\ IsFiniteSet(sent[x]) /\ Paid(breakers[x], sent[x])
  BY CallsAssumption, FS_Subset
     DEF IInv, TypeOK, BreakersConsistent, SentPaidFor, Protected
\* What the operations of a breaker do, and what leaves this one alone.
<1>1. \A d \in {breakers[x], GetState(breakers[x]), RecordSuccess(breakers[x]),
                RecordFailure(breakers[x]), Reset(breakers[x]),
                ForceOpen(breakers[x])} : Goal(d, Visit(d, sent[x]))
  BY <1>0, OperationsKeepPromise
<1>2. Visit(breakers[x], sent[x]) = sent[x]
  BY <1>0 DEF Paid, Visit
<1>3. Goal(breakers[x], sent[x])
  BY <1>1, <1>2
<1> HIDE DEF Goal
<1>4. RecordNothingSent => sent'[x] = Visit(breakers'[x], sent[x])
  BY <1>0 DEF RecordNothingSent, Visit
<1> SUFFICES Goal(breakers'[x], sent'[x])
  BY DEF Goal
<1>5. ASSUME NEW c \in Calls, RouteSomehow(c)
      PROVE  Goal(breakers'[x], sent'[x])
  <2>1. PICK requested \in Requested, deep \in BOOLEAN, long \in BOOLEAN :
          Route(c, requested, deep, long)
    BY <1>5 DEF RouteSomehow
  <2> DEFINE route == ResolveRoute(breakers, Target(requested, deep, long))
             m     == BreakerOf(route.selected)
  <2>2. breakers' = route.breakers /\ RecordSent(m, c)
    BY <2>1 DEF Route
  <2>3. IF x = m
        THEN Admits(breakers[x]) /\ route.breakers[x] = CanExecute(breakers[x])
        ELSE route.breakers[x] = breakers[x]
    BY <1>0, ProtectedRoute
  <2> HIDE DEF route, m
  <2>4. CASE x = m
    <3>1. Admits(breakers[x]) /\ breakers'[x] = CanExecute(breakers[x])
      BY <2>2, <2>3, <2>4
    <3>2. sent'[x] = Visit(breakers'[x], sent[x] \cup {c})
      BY <1>0, <2>2, <2>4 DEF RecordSent, Visit
    <3> QED
      BY <1>0, <3>1, <3>2, AdmissionKeepsPromise DEF Goal
  <2>5. CASE x # m
    <3>1. breakers'[x] = breakers[x]
      BY <2>2, <2>3, <2>5
    <3>2. sent'[x] = Visit(breakers[x], sent[x])
      BY <1>0, <2>2, <2>5, <3>1 DEF RecordSent, Visit
    <3> QED
      BY <1>2, <1>3, <3>1, <3>2
  <2> QED
    BY <2>4, <2>5
<1>6. ASSUME NEW c \in Calls, Succeed(c)
      PROVE  Goal(breakers'[x], sent'[x])
  <2>1. breakers'[x] \in {breakers[x], RecordSuccess(breakers[x])}
    BY <1>0, <1>6 DEF Succeed
  <2> QED
    BY <1>1, <1>4, <1>6, <2>1 DEF Succeed
<1>7. ASSUME NEW c \in Calls, Fail(c)
      PROVE  Goal(breakers'[x], sent'[x])
  <2>1. breakers'[x] \in {breakers[x], RecordFailure(breakers[x])}
    BY <1>0, <1>7 DEF Fail
  <2> QED
    BY <1>1, <1>4, <1>7, <2>1 DEF Fail
<1>8. ASSUME NEW c \in Calls, Abort(c)
      PROVE  Goal(breakers'[x], sent'[x])
  BY <1>3, <1>8 DEF Abort
<1>9. CASE Poll
  <2>1. breakers'[x] = GetState(breakers[x])
    BY <1>0, <1>9 DEF Poll
  <2> QED
    BY <1>1, <1>4, <1>9, <2>1 DEF Poll
<1>10. ASSUME NEW id \in Registry, TripCircuit(id)
       PROVE  Goal(breakers'[x], sent'[x])
  <2>1. breakers'[x] \in {breakers[x], ForceOpen(breakers[x])}
    BY <1>0, <1>10 DEF TripCircuit
  <2> QED
    BY <1>1, <1>4, <1>10, <2>1 DEF TripCircuit
<1>11. CASE ResetCircuits
  <2>1. breakers'[x] = Reset(breakers[x])
    BY <1>0, <1>11 DEF ResetCircuits
  <2> QED
    BY <1>1, <1>4, <1>11, <2>1 DEF ResetCircuits
<1>12. CASE Tick
  <2>1. breakers'[x] = Elapse(breakers[x]) /\ sent' = sent
    BY <1>0, <1>12 DEF Tick
  <2> QED
    BY <1>0, <2>1, OperationsKeepPromise DEF Goal
<1>13. ASSUME NEW c \in Calls, CallAgain(c)
       PROVE  Goal(breakers'[x], sent'[x])
  <2>1. breakers' = breakers /\ sent'[x] = sent[x]
    BY <1>0, <1>13 DEF CallAgain
  <2> QED
    BY <1>3, <2>1
<1>14. CASE UNCHANGED vars
  BY <1>3, <1>14 DEF vars
<1> QED
  BY <1>5, <1>6, <1>7, <1>8, <1>9, <1>10, <1>11, <1>12, <1>13, <1>14 DEF Next

\* Every model but mock-fast is promised what BreakerPromise says, with the
\* calls sent to it, by choice or as a fallback, as the trials: the cool-down
\* is respected and a visit to HALF_OPEN sends it at most SuccessThreshold
\* calls (resolveRoute, isOpen and canExecute together).
THEOREM ProtectedAlwaysKeepPromise == Spec => ProtectedKeepPromise
<1>1. Init => SentPaidFor
  BY FS_EmptySet DEF Init, SentPaidFor, Paid, Budget, NewBreaker, Protected
<1>2. IInv /\ SentPaidFor /\ [Next]_vars => SentPaidFor'
  <2> SUFFICES ASSUME IInv, SentPaidFor, [Next]_vars, NEW x \in Protected
               PROVE  Paid(breakers'[x], sent'[x])
    BY DEF SentPaidFor
  <2> QED
    BY PromiseStep
<1>3. ASSUME IInv, SentPaidFor, [Next]_vars, NEW m \in Protected
      PROVE  Promise(m)!Next \/ UNCHANGED Promise(m)!vars
  <2> DEFINE n == Cardinality(sent[m])
  <2>1. Kept(breakers[m], n, breakers'[m], n')
    BY <1>3, PromiseStep
  <2> QED
    BY <2>1 DEF Kept, Promise!Next, Promise!Open, Promise!HalfOpen, Promise!Trial,
                Promise!Close, Promise!Elapse, Promise!vars
<1>4. ASSUME IInv, SentPaidFor, [Next]_vars
      PROVE  [\A m \in Protected :
                 Promise(m)!Next \/ UNCHANGED Promise(m)!vars]_vars
  BY <1>3, <1>4
<1> QED
  BY <1>1, <1>2, <1>4, InvAlways, PTL DEF Spec, ProtectedKeepPromise

=============================================================================
