----------------------------- MODULE RetryProofs -----------------------------
(***************************************************************************)
(* Proofs about the two halves of retry.ts, which share no state: the loop *)
(* of execute (RetryPolicy), for every choice of its options, and          *)
(* acquireIdempotencyLease (IdempotencyLease), for any attempts, time to   *)
(* live and number of flushes.                                             *)
(***************************************************************************)
EXTENDS RetryPolicy, IdempotencyLease, TLAPS

-----------------------------------------------------------------------------
(* RetryPolicy *)

\* What isRetryable says of an error is whether it is transient.
LEMMA Classification ==
    /\ \A error \in Errors : IsRetryable(error) <=> error \in Transient
    /\ Transient \subseteq Thrown /\ "deadline" \notin Transient
BY DEF Errors, Thrown, AppErrors, IsRetryable, Transient

Overrun == Longest(MaxDuration, MaxDelay + MaxLateness)

\* How late the loop can be in each of its places: an attempt runs only if it
\* started by the deadline, a backoff only if it started before.
OnTime ==
    /\ place = "running" => now <= Deadline
    /\ now <= Deadline + Overrun

\* What the last error can be in each place.
ErrorFitsPlace ==
    /\ place \in {"try", "running"} /\ attempt > 0 => lastError \in Transient
    /\ place \in {"caught", "thrown"} => lastError \in Errors
    /\ place \in {"caught", "thrown"} /\ lastError = "deadline" => now > Deadline
    /\ place = "thrown" /\ lastError \in Transient =>
          attempt = MaxRetries \/ now >= Deadline

RetryInv == RetryTypeOK /\ OnTime /\ ErrorFitsPlace /\ RunsCounted

\* The options are natural numbers.
LEMMA OptionsType ==
    /\ MaxRetries \in Nat /\ MaxDelay \in Nat /\ Deadline \in Nat
    /\ MaxDuration \in Nat /\ MaxLateness \in Nat /\ Overrun \in Nat
    /\ MaxDuration <= Overrun /\ MaxDelay + MaxLateness <= Overrun
BY OptionsAssumption, SMT DEF Overrun, Longest

\* The invariant holds at first, and each action keeps it.
LEMMA RetryInvInit == RetryInit => RetryInv
<1> SUFFICES ASSUME RetryInit PROVE RetryInv OBVIOUS
<1> QED BY OptionsType, SMT
        DEF RetryInit, RetryInv, RetryTypeOK, OnTime, ErrorFitsPlace, RunsCounted, NoError

LEMMA StartStep == ASSUME RetryInv, Start PROVE RetryInv'
BY OptionsType, SMT
DEF Start, RetryInv, RetryTypeOK, OnTime, ErrorFitsPlace, RunsCounted, NoError

LEMMA OverdueStep == ASSUME RetryInv, Overdue PROVE RetryInv'
BY OptionsType, SMT
DEF Overdue, RetryInv, RetryTypeOK, OnTime, ErrorFitsPlace, RunsCounted, Errors, Transient

\* An attempt that ends does so within MaxDuration of the deadline.
LEMMA AttemptEnds ==
    ASSUME RetryInv, place = "running", NEW d \in 0..MaxDuration, now' = now + d
    PROVE  now' \in Nat /\ now' <= Deadline + Overrun
BY OptionsType, SMT DEF RetryInv, RetryTypeOK, OnTime

LEMMA SucceedStep == ASSUME RetryInv, Succeed PROVE RetryInv'
<1>1. now' \in Nat /\ now' <= Deadline + Overrun BY AttemptEnds DEF Succeed
<1> QED BY <1>1, OptionsType, SMT
        DEF Succeed, RetryInv, RetryTypeOK, OnTime, ErrorFitsPlace, RunsCounted

LEMMA FailStep == ASSUME RetryInv, Fail PROVE RetryInv'
<1>1. now' \in Nat /\ now' <= Deadline + Overrun BY AttemptEnds DEF Fail
<1>2. lastError' \in Errors /\ lastError' # "deadline" BY DEF Fail, Errors, Thrown
<1> QED BY <1>1, <1>2, OptionsType, SMT
        DEF Fail, RetryInv, RetryTypeOK, OnTime, ErrorFitsPlace, RunsCounted

LEMMA GiveUpStep == ASSUME RetryInv, GiveUp PROVE RetryInv'
<1>1. lastError \in Transient => attempt = MaxRetries \/ now >= Deadline
    BY Classification DEF GiveUp, GivesUp, RetryInv, ErrorFitsPlace
<1> QED BY <1>1, OptionsType, SMT
        DEF GiveUp, RetryInv, RetryTypeOK, OnTime, ErrorFitsPlace, RunsCounted

LEMMA BackOffStep == ASSUME RetryInv, BackOff PROVE RetryInv'
<1>1. lastError \in Transient /\ attempt # MaxRetries /\ now < Deadline
    BY Classification, OptionsType, SMT
    DEF BackOff, GivesUp, RetryInv, RetryTypeOK, ErrorFitsPlace
<1>2. PICK delay \in 0..MaxDelay, late \in 0..MaxLateness : now' = now + delay + late
    BY DEF BackOff, JitterDelays
<1>3. now' \in Nat /\ now' <= Deadline + Overrun
    BY <1>1, <1>2, OptionsType, SMT DEF RetryInv, RetryTypeOK
<1>4. attempt' \in 0..MaxRetries
    BY <1>1, OptionsType, SMT DEF BackOff, RetryInv, RetryTypeOK
<1>5. /\ place = "caught" /\ place' = "try" /\ attempt' = attempt + 1
      /\ lastError' = lastError /\ runs' = runs
    BY DEF BackOff
<1>6. runs = attempt + 1 BY <1>1, <1>5, Classification DEF RetryInv, RunsCounted
<1>7. RetryTypeOK' BY <1>3, <1>4, <1>5 DEF RetryInv, RetryTypeOK
<1>8. OnTime' BY <1>3, <1>5, OptionsType, SMT DEF OnTime
<1>9. ErrorFitsPlace'
    BY <1>1, <1>5, <1>6, <1>4, SMT DEF ErrorFitsPlace, RetryInv, RetryTypeOK
<1>10. RunsCounted' BY <1>5, <1>6 DEF RunsCounted
<1> QED BY <1>7, <1>8, <1>9, <1>10 DEF RetryInv

LEMMA RetryInvNext == RetryInv /\ [RetryNext]_retryVars => RetryInv'
<1> SUFFICES ASSUME RetryInv, [RetryNext]_retryVars PROVE RetryInv' OBVIOUS
<1>1. CASE Start BY <1>1, StartStep
<1>2. CASE Overdue BY <1>2, OverdueStep
<1>3. CASE Succeed BY <1>3, SucceedStep
<1>4. CASE Fail BY <1>4, FailStep
<1>5. CASE GiveUp BY <1>5, GiveUpStep
<1>6. CASE BackOff BY <1>6, BackOffStep
<1>7. CASE UNCHANGED retryVars
    BY <1>7 DEF retryVars, RetryInv, RetryTypeOK, OnTime, Overrun, ErrorFitsPlace, RunsCounted
<1> QED BY <1>1, <1>2, <1>3, <1>4, <1>5, <1>6, <1>7 DEF RetryNext

\* The inductive invariant holds throughout a call.
THEOREM RetryInvHolds == RetrySpec => []RetryInv
BY RetryInvInit, RetryInvNext, PTL DEF RetrySpec

\* A call overruns its deadline by one attempt or one backoff at most
\* (retry.ts 64 and 71).
THEOREM OverrunAlwaysBounded == RetrySpec => []OverrunBounded
<1>1. RetryInv => OverrunBounded BY DEF RetryInv, OnTime, OverrunBounded, Overrun
<1> QED BY RetryInvHolds, <1>1, PTL

\* The caller sees a retryable error, or the deadline's, only when there is
\* nothing left to do (retry.ts 71).
THEOREM ErrorsAreFinal == RetrySpec => []ErrorIsFinal
<1>1. ASSUME RetryInv PROVE ErrorIsFinal
    BY <1>1, OptionsType, SMT
    DEF RetryInv, RetryTypeOK, ErrorFitsPlace, RunsCounted, ErrorIsFinal, Transient
<1> QED BY RetryInvHolds, <1>1, PTL

\* No run follows an error that is not retryable (retry.ts 30-46, 71).
THEOREM RetriesAreOfTransientErrors == RetrySpec => OnlyTransientIsRetried
<1> DEFINE Step == runs' > runs /\ runs > 0 => lastError \in Transient
<1>1. ASSUME RetryInv, [RetryNext]_retryVars PROVE [Step]_retryVars
    <2> SUFFICES ASSUME RetryNext, runs' > runs, runs > 0
                 PROVE  lastError \in Transient
        BY <1>1
    <2>1. runs \in Nat BY <1>1 DEF RetryInv, RetryTypeOK
    <2>2. runs' # runs BY <2>1, SMT
    <2>3. Start BY <2>2 DEF RetryNext, Overdue, Succeed, Fail, GiveUp, BackOff
    <2>4. place = "try" /\ attempt > 0
        BY <1>1, <2>1, <2>3, SMT DEF Start, RetryInv, RetryTypeOK, RunsCounted
    <2> QED BY <1>1, <2>4 DEF RetryInv, ErrorFitsPlace
<1> QED BY RetryInvHolds, <1>1, PTL DEF RetrySpec, OnlyTransientIsRetried

-----------------------------------------------------------------------------
(* IdempotencyLease *)

\* The key has an expiry whenever it exists, and the two facts about its
\* time to live carry each other.
LeaseInv ==
    /\ TypeOK
    /\ lease.ttl \in {NoKey} \cup 1..LeaseTtl
    /\ LeaseOfYoungest

\* The lease and the ages are within bounds.
LEMMA TtlFacts ==
    ASSUME LeaseInv
    PROVE  /\ LeaseTtl \in Nat \ {0}
           /\ lease.ttl \in Int
           /\ Exists(lease) <=> lease.ttl \in 1..LeaseTtl
           /\ \A a \in Attempts : age[a] \in Int /\ age[a] >= -1 /\ age[a] <= LeaseTtl
BY AttemptsAssumption, SMT DEF LeaseInv, TypeOK, Exists, NoKey, NotStarted, KeyOf, NoExpiry

\* The state predicate behind the theorem LeaseAlwaysCoversRecent.
LEMMA CoversFromYoungest ==
    ASSUME LeaseInv
    PROVE  LeaseCoversRecent
<1>1. ASSUME Exists(lease) PROVE Recent # {}
    BY <1>1 DEF LeaseInv, LeaseOfYoungest
<1>2. ASSUME NEW a \in Recent PROVE Exists(lease)
    <2>1. lease.ttl >= LeaseTtl - age[a] BY <1>2 DEF LeaseInv, LeaseOfYoungest
    <2>2. a \in Attempts /\ age[a] >= 0 /\ age[a] < LeaseTtl
        BY TtlFacts, <1>2, SMT DEF Recent
    <2> QED BY <2>1, <2>2, TtlFacts, SMT DEF Exists, NoKey
<1> QED BY <1>1, <1>2 DEF LeaseCoversRecent

\* The invariant holds at first, and each action keeps it.
LEMMA LeaseInvInit == Init => LeaseInv
<1> SUFFICES ASSUME Init PROVE LeaseInv OBVIOUS
<1>1. TypeOK
    BY AttemptsAssumption, SMT
    DEF Init, TypeOK, KeyOf, Absent, NoKey, NotStarted
<1>2. LeaseOfYoungest
    BY AttemptsAssumption, SMT
    DEF Init, LeaseOfYoungest, Recent, Exists, Absent, NoKey, NotStarted
<1> QED BY <1>1, <1>2 DEF LeaseInv, Init, Absent

\* Steps that touch neither the key nor the ages.
LEMMA QuietStep ==
    ASSUME LeaseInv, lease' = lease, age' = age, flushes' = flushes,
           pc' \in [Attempts ->
               {"idle", "get", "set", "running", "ended", "conflict"}]
    PROVE  LeaseInv'
BY DEF LeaseInv, TypeOK, LeaseOfYoungest, Recent, Exists

LEMMA SetStep ==
    ASSUME LeaseInv, NEW a \in Attempts, Set(a)
    PROVE  LeaseInv'
<1>1. /\ lease' = [value |-> Processing, ttl |-> LeaseTtl]
      /\ age' = [age EXCEPT ![a] = 0]
    BY DEF Set, SetEx
<1>2. lease'.ttl = LeaseTtl BY <1>1
<1>3. TypeOK'
    <2>1. lease' \in KeyOf({0, Processing}, LeaseTtl)
        BY <1>1, TtlFacts, SMT DEF KeyOf, Processing, NoKey
    <2>2. age' \in [Attempts -> NotStarted..LeaseTtl]
        BY <1>1, TtlFacts, SMT DEF LeaseInv, TypeOK, NotStarted
    <2> QED BY <2>1, <2>2 DEF LeaseInv, TypeOK, Set, Goto
<1>4. LeaseOfYoungest'
    <2>1. age'[a] = 0 BY <1>1 DEF LeaseInv, TypeOK
    <2>2. a \in Recent' BY <2>1, TtlFacts, SMT DEF Recent
    <2>3. \A b \in Recent' : lease'.ttl >= LeaseTtl - age'[b]
        <3> SUFFICES ASSUME NEW b \in Recent' PROVE lease'.ttl >= LeaseTtl - age'[b]
            OBVIOUS
        <3>1. age'[b] \in 0..(LeaseTtl - 1) BY DEF Recent
        <3> QED BY <3>1, <1>2, TtlFacts, SMT
    <2>4. lease'.ttl = LeaseTtl - age'[a] BY <1>2, <2>1, TtlFacts, SMT
    <2> QED BY <2>2, <2>3, <2>4 DEF LeaseOfYoungest
<1>5. lease'.ttl \in {NoKey} \cup 1..LeaseTtl
    BY <1>2, TtlFacts, SMT
<1> QED BY <1>3, <1>4, <1>5 DEF LeaseInv

\* Time ages the key and the attempts together, so the key goes with the
\* youngest of them.
LEMMA TickStep ==
    ASSUME LeaseInv, Tick
    PROVE  LeaseInv'
<1> DEFINE T == lease.ttl
<1>0. LeaseInv /\ lease' = Age(lease) BY DEF Tick
<1>1. /\ LeaseTtl \in Nat \ {0} /\ T \in {NoKey} \cup 1..LeaseTtl
      /\ lease.value \in {0, Processing}
    BY TtlFacts DEF LeaseInv, TypeOK, KeyOf
<1>2. ASSUME NEW b \in Attempts
      PROVE  /\ age[b] \in NotStarted..LeaseTtl
             /\ age'[b] = IF age[b] \in 0..(LeaseTtl - 1) THEN age[b] + 1 ELSE age[b]
    BY <1>2 DEF Tick, LeaseInv, TypeOK
<1>3. /\ lease'.ttl = IF T > 1 THEN T - 1 ELSE NoKey
      /\ lease'.value \in {0, Processing}
      /\ lease' = [value |-> lease'.value, ttl |-> lease'.ttl]
    <2>1. lease = [value |-> lease.value, ttl |-> lease.ttl]
        BY DEF LeaseInv, TypeOK, KeyOf
    <2>2. CASE T > 1
        BY <2>1, <2>2, <1>0, <1>1, SMT DEF Age
    <2>3. CASE ~(T > 1)
        <3>1. T = 1 \/ T = NoKey BY <2>3, <1>1, SMT DEF NoKey
        <3>2. CASE T = 1
            BY <3>2, <1>0, <1>1, SMT DEF Age, Absent, NoKey
        <3>3. CASE T = NoKey
            BY <3>3, <2>1, <1>0, <1>1, SMT DEF Age, Absent, NoKey
        <3> QED BY <3>1, <3>2, <3>3
    <2> QED BY <2>2, <2>3
<1>4. lease'.ttl \in {NoKey} \cup 1..LeaseTtl
    BY <1>1, <1>3, SMT DEF NoKey
<1>5. TypeOK'
    <2>1. lease' \in KeyOf({0, Processing}, LeaseTtl)
        <3>1. lease'.ttl \in NoKey..LeaseTtl BY <1>4, <1>1, SMT DEF NoKey
        <3> QED BY <3>1, <1>3 DEF KeyOf
    <2>2. \A b \in Attempts : age'[b] \in NotStarted..LeaseTtl
        BY <1>2, <1>1, SMT DEF NotStarted
    <2>3. age' \in [Attempts -> NotStarted..LeaseTtl]
        <3>1. age' = [b \in Attempts |-> age'[b]] BY DEF Tick
        <3> HIDE DEF T
        <3> QED BY <3>1, <2>2
    <2> QED BY <2>1, <2>3 DEF LeaseInv, TypeOK, Tick
<1>6. \A b \in Recent' : lease'.ttl >= LeaseTtl - age'[b]
    <2> SUFFICES ASSUME NEW b \in Recent' PROVE lease'.ttl >= LeaseTtl - age'[b]
        OBVIOUS
    <2>1. b \in Attempts /\ age'[b] \in 0..(LeaseTtl - 1) BY DEF Recent
    <2>2. age[b] \in 0..(LeaseTtl - 1) /\ age'[b] = age[b] + 1
        BY <2>1, <1>2, <1>1, SMT DEF NotStarted
    <2>3. T >= LeaseTtl - age[b]
        BY <2>1, <2>2 DEF LeaseInv, LeaseOfYoungest, Recent
    <2>4. LeaseTtl - age[b] > 1 BY <2>1, <2>2, <1>1, SMT
    <2> QED BY <2>2, <2>3, <2>4, <1>1, <1>3, SMT DEF NoKey
<1>7. Exists(lease)' => \E b \in Recent' : lease'.ttl = LeaseTtl - age'[b]
    <2> SUFFICES ASSUME lease'.ttl # NoKey
                 PROVE  \E b \in Recent' : lease'.ttl = LeaseTtl - age'[b]
        BY DEF Exists
    <2>1. T > 1 /\ lease'.ttl = T - 1 BY <1>3
    <2>2. PICK b \in Recent : T = LeaseTtl - age[b]
        BY <2>1, <1>1, SMT DEF LeaseInv, LeaseOfYoungest, Exists, NoKey
    <2>3. b \in Attempts /\ age[b] \in 0..(LeaseTtl - 1) BY DEF Recent
    <2>4. age'[b] = age[b] + 1 BY <2>3, <1>2
    <2>5. age'[b] \in 0..(LeaseTtl - 1) BY <2>1, <2>2, <2>3, <2>4, <1>1, SMT
    <2>6. b \in Recent' BY <2>3, <2>5 DEF Recent
    <2>7. lease'.ttl = LeaseTtl - age'[b] BY <2>1, <2>2, <2>3, <2>4, <1>1, SMT
    <2> QED BY <2>6, <2>7
<1> QED BY <1>4, <1>5, <1>6, <1>7 DEF LeaseInv, LeaseOfYoungest

LEMMA FlushStep ==
    ASSUME LeaseInv, Flush
    PROVE  LeaseInv'
<1>1. lease' = [value |-> 0, ttl |-> NoKey] BY DEF Flush, Absent
<1>2. age' = [a \in Attempts |-> NotStarted] BY DEF Flush
<1>3. Recent' = {} BY <1>2, TtlFacts, SMT DEF Recent, NotStarted
<1>4. LeaseOfYoungest' BY <1>1, <1>3 DEF LeaseOfYoungest, Exists
<1>5. lease' \in KeyOf({0, Processing}, LeaseTtl)
    BY <1>1, TtlFacts, SMT DEF KeyOf, NoKey
<1>6. age' \in [Attempts -> NotStarted..LeaseTtl]
    BY <1>2, TtlFacts, SMT DEF NotStarted
<1>7. flushes' \in 0..MaxFlushes
    BY AttemptsAssumption, SMT DEF Flush, LeaseInv, TypeOK
<1> QED BY <1>1, <1>4, <1>5, <1>6, <1>7 DEF LeaseInv, TypeOK, Flush

LEMMA LeaseInvNext == LeaseInv /\ [Next]_vars => LeaseInv'
<1> SUFFICES ASSUME LeaseInv, [Next]_vars PROVE LeaseInv' OBVIOUS
<1>1. ASSUME NEW a \in Attempts, Arrive(a) PROVE LeaseInv'
    <2>1. pc' \in [Attempts ->
               {"idle", "get", "set", "running", "ended", "conflict"}]
        BY <1>1 DEF Arrive, Goto, LeaseInv, TypeOK
    <2> QED BY <1>1, <2>1, QuietStep DEF Arrive
<1>2. ASSUME NEW a \in Attempts, Get(a) PROVE LeaseInv'
    <2>1. pc' \in [Attempts ->
               {"idle", "get", "set", "running", "ended", "conflict"}]
        BY <1>2 DEF Get, Goto, LeaseInv, TypeOK
    <2> QED BY <1>2, <2>1, QuietStep DEF Get
<1>3. ASSUME NEW a \in Attempts, Set(a) PROVE LeaseInv' BY <1>3, SetStep
<1>4. ASSUME NEW a \in Attempts, End(a) PROVE LeaseInv'
    <2>1. pc' \in [Attempts ->
               {"idle", "get", "set", "running", "ended", "conflict"}]
        BY <1>4 DEF End, Goto, LeaseInv, TypeOK
    <2> QED BY <1>4, <2>1, QuietStep DEF End
<1>5. CASE Tick BY <1>5, TickStep
<1>6. CASE Flush BY <1>6, FlushStep
<1>7. CASE UNCHANGED vars BY <1>7, QuietStep DEF vars, LeaseInv, TypeOK
<1> QED BY <1>1, <1>2, <1>3, <1>4, <1>5, <1>6, <1>7 DEF Next

\* The inductive invariant holds in every reachable state.
THEOREM LeaseInvHolds == Spec => []LeaseInv
BY LeaseInvInit, LeaseInvNext, PTL DEF Spec

\* The key's time to live is that of the attempt that set it last, however
\* the GETs and SETs of the attempts interleave (retry.ts 93-97).
THEOREM LeaseAlwaysOfYoungest == Spec => []LeaseOfYoungest
<1>1. LeaseInv => LeaseOfYoungest BY DEF LeaseInv
<1> QED BY LeaseInvHolds, <1>1, PTL

\* The key is there exactly while some attempt was let through less than
\* LeaseTtl ago.
THEOREM LeaseAlwaysCoversRecent == Spec => []LeaseCoversRecent
<1>1. LeaseInv => LeaseCoversRecent BY CoversFromYoungest
<1> QED BY LeaseInvHolds, <1>1, PTL
=============================================================================
