-------------------------- MODULE RateLimiterProofs --------------------------
(***************************************************************************)
(* The rate limiter for any set of requests, any limits and expiries, and  *)
(* any number of crashes and flushes, on Redis, on the map and from one to *)
(* the other: what passes on a minute's keys in time is bounded by the     *)
(* limits, the concurrency key never overcounts, and the streams above its *)
(* limit are those that were overtaken, or the key went from under them.   *)
(***************************************************************************)
EXTENDS RateLimiter, TLAPS, FiniteSetTheorems

Total(p) == p.within + p.late

\* A request's minute has begun.
WindowsBegun == \A r \in Requests : window[r] * TicksPerMinute <= now

\* In time, a key that is there stays until its minute closes ...
StaysOpen(k, m) == k.ttl \in {NoKey, NoExpiry} \/ now + k.ttl >= Closes(m)

\* ... and counts what passed; afterwards the history is empty.
Counts(k, p, m) ==
    /\ InTime(m) => Total(p) <= k.value /\ StaysOpen(k, m)
    /\ ~InTime(m) => Total(p) = 0

WindowsCounted ==
    \A m \in Minutes : Counts(rpm[m], passed[m], m) /\ Counts(tpm[m], granted[m], m)

\* Orphans are in a key, and a key that was not lost counts exactly.
CountsExactly ==
    /\ orphans > 0 => Exists(lease)
    /\ ~keyLost => lease.value = Cardinality(Holders) + orphans

\* Who has found room and was not overtaken since still has it.
CheckedRoom ==
    \A r \in Requests \ overtaken : pc[r] \in Checked => lease.value < MaxConcurrent

IInv ==
    /\ TypeOK
    /\ WindowsBegun
    /\ WindowsCounted
    /\ WindowBounds
    /\ NeverOvercounts
    /\ CountsExactly
    /\ CheckedRoom
    /\ OnlyOvertakenExceed

-----------------------------------------------------------------------------
\* A clock reading names a minute of the behaviour.
LEMMA ClockNamesMinute ==
    ASSUME NEW t \in 0..MaxTick
    PROVE  MinuteOf(t) \in Minutes
BY DEF Minutes

\* The commands keep a key a key, and a missing key is worth 0.
LEMMA CommandsKeepKeys ==
    ASSUME NEW k \in KeyOf(Int, LeaseTtl), NEW n \in Int,
           ~Exists(k) => k.value = 0
    PROVE  /\ IncrBy(k, n) \in KeyOf(Int, LeaseTtl) /\ Exists(IncrBy(k, n))
           /\ IncrBy(k, n).value = k.value + n
           /\ IncrInMap(k, n, LeaseTtl) \in KeyOf(Int, LeaseTtl)
           /\ Exists(IncrInMap(k, n, LeaseTtl))
           /\ IncrInMap(k, n, LeaseTtl).value = k.value + n
           /\ Expire(k, LeaseTtl) \in KeyOf(Int, LeaseTtl)
           /\ Expire(k, LeaseTtl).value = k.value
           /\ Exists(Expire(k, LeaseTtl)) <=> Exists(k)
           /\ Delete(k) \in KeyOf(Int, LeaseTtl) /\ ~Exists(Delete(k))
           /\ Delete(k).value = 0
           /\ Age(k) \in KeyOf(Int, LeaseTtl)
           /\ IF Exists(Age(k)) THEN Age(k).value = k.value
                                ELSE Age(k).value = 0
<1> USE LimitsAssumption DEF KeyOf, Exists, NoKey, NoExpiry
<1>0. /\ k.value + n \in Int
      /\ LeaseTtl \in NoKey..LeaseTtl /\ NoExpiry \in NoKey..LeaseTtl
      /\ NoKey \in NoKey..LeaseTtl /\ 0 \in Int
      /\ k.ttl > 1 => k.ttl - 1 \in NoKey..LeaseTtl /\ k.ttl - 1 # NoKey
  OBVIOUS
<1>1. /\ IncrBy(k, n) \in KeyOf(Int, LeaseTtl) /\ Exists(IncrBy(k, n))
      /\ IncrBy(k, n).value = k.value + n
  BY <1>0 DEF IncrBy
<1>5. /\ IncrInMap(k, n, LeaseTtl) \in KeyOf(Int, LeaseTtl)
      /\ Exists(IncrInMap(k, n, LeaseTtl))
      /\ IncrInMap(k, n, LeaseTtl).value = k.value + n
  BY <1>0 DEF IncrInMap
<1>2. /\ Expire(k, LeaseTtl) \in KeyOf(Int, LeaseTtl)
      /\ Expire(k, LeaseTtl).value = k.value
      /\ Exists(Expire(k, LeaseTtl)) <=> Exists(k)
  BY <1>0 DEF Expire
<1>3. /\ Delete(k) \in KeyOf(Int, LeaseTtl) /\ ~Exists(Delete(k))
      /\ Delete(k).value = 0
  BY <1>0 DEF Delete, Absent
<1>4. /\ Age(k) \in KeyOf(Int, LeaseTtl)
      /\ IF Exists(Age(k)) THEN Age(k).value = k.value
                           ELSE Age(k).value = 0
  BY <1>0 DEF Age, Absent
<1> QED
  BY <1>1, <1>2, <1>3, <1>4, <1>5

\* The same for a key that is only counted up.
LEMMA CommandsKeepWindows ==
    ASSUME NEW k \in KeyOf(Nat, WindowTtl), NEW n \in Nat,
           ~Exists(k) => k.value = 0
    PROVE  /\ Counted(k, n) \in KeyOf(Nat, WindowTtl) /\ Exists(Counted(k, n))
           /\ Counted(k, n).value = k.value + n
           /\ Counted(k, n).ttl \in {k.ttl, NoExpiry, WindowTtl}
           /\ Expire(k, WindowTtl) \in KeyOf(Nat, WindowTtl)
           /\ Expire(k, WindowTtl).value = k.value
           /\ Exists(Expire(k, WindowTtl)) <=> Exists(k)
           /\ Expire(k, WindowTtl).ttl \in {NoKey, WindowTtl}
           /\ Age(k) \in KeyOf(Nat, WindowTtl)
           /\ ~Exists(Age(k)) => Age(k).value = 0
           /\ k.ttl \in {NoKey, NoExpiry} => Age(k) = k
           /\ k.ttl > 1 => Age(k).ttl = k.ttl - 1 /\ Age(k).value = k.value
<1> USE LimitsAssumption DEF KeyOf, Exists, NoKey, NoExpiry
<1>0. /\ k.value + n \in Nat
      /\ WindowTtl \in NoKey..WindowTtl /\ NoExpiry \in NoKey..WindowTtl
      /\ NoKey \in NoKey..WindowTtl /\ 0 \in Nat
      /\ k.ttl > 1 => k.ttl - 1 \in NoKey..WindowTtl /\ k.ttl - 1 # NoKey
  OBVIOUS
<1>1. /\ Counted(k, n) \in KeyOf(Nat, WindowTtl) /\ Exists(Counted(k, n))
      /\ Counted(k, n).value = k.value + n
      /\ Counted(k, n).ttl \in {k.ttl, NoExpiry, WindowTtl}
  BY <1>0 DEF Counted, IncrBy, IncrInMap
<1>2. /\ Expire(k, WindowTtl) \in KeyOf(Nat, WindowTtl)
      /\ Expire(k, WindowTtl).value = k.value
      /\ Exists(Expire(k, WindowTtl)) <=> Exists(k)
      /\ Expire(k, WindowTtl).ttl \in {NoKey, WindowTtl}
  BY <1>0 DEF Expire
<1>3. /\ Age(k) \in KeyOf(Nat, WindowTtl)
      /\ ~Exists(Age(k)) => Age(k).value = 0
      /\ k.ttl \in {NoKey, NoExpiry} => Age(k) = k
      /\ k.ttl > 1 => Age(k).ttl = k.ttl - 1 /\ Age(k).value = k.value
  BY <1>0 DEF Age, Absent
<1> QED
  BY <1>1, <1>2, <1>3

\* What passes is added, in time, to the history of its minute.
LEMMA PassAdds ==
    ASSUME NEW sofar \in [Minutes -> Passed], NEW m \in Minutes, NEW n \in Nat
    PROVE  /\ Pass(sofar, m, n) \in [Minutes -> Passed]
           /\ \A k \in Minutes \ {m} : Pass(sofar, m, n)[k] = sofar[k]
           /\ Total(Pass(sofar, m, n)[m]) =
                IF InTime(m) THEN Total(sofar[m]) + n ELSE Total(sofar[m])
BY DEF Pass, Passed, Total

LEMMA HistoryIsTyped ==
    ASSUME NEW sofar \in [Minutes -> Passed]
    PROVE  /\ Forget(sofar) \in [Minutes -> Passed]
           /\ \A m \in Minutes :
                /\ sofar[m].within \in Nat /\ sofar[m].late \in Nat
                /\ Total(sofar[m]) \in Nat
           /\ NothingPassed \in Passed /\ Total(NothingPassed) = 0
BY DEF Forget, Passed, NothingPassed, Total

\* A store that begins empty is well typed.
EmptiedIsTyped ==
    /\ lease \in KeyOf(Int, LeaseTtl)
    /\ ~Exists(lease) /\ lease.value = 0
    /\ rpm \in [Minutes -> KeyOf(Nat, WindowTtl)]
    /\ tpm \in [Minutes -> KeyOf(Nat, WindowTtl)]
    /\ \A m \in Minutes : rpm[m].value = 0 /\ tpm[m].value = 0
    /\ passed \in [Minutes -> Passed] /\ granted \in [Minutes -> Passed]
    /\ orphans = 0

LEMMA EmptyStoreIsTyped == EmptyStore => EmptiedIsTyped'
<1> SUFFICES ASSUME EmptyStore
             PROVE  EmptiedIsTyped'
  OBVIOUS
<1>1. /\ Absent \in KeyOf(Int, LeaseTtl) /\ Absent \in KeyOf(Nat, WindowTtl)
      /\ ~Exists(Absent) /\ Absent.value = 0
      /\ NothingPassed \in Passed
  BY LimitsAssumption DEF Absent, KeyOf, Exists, NoKey, Passed, NothingPassed
<1> QED
  BY <1>1 DEF EmptyStore, EmptiedIsTyped

-----------------------------------------------------------------------------
\* The number of leases held: a finite number, which moves by one when one
\* request takes or gives back its lease.
LEMMA HoldersFinite == IsFiniteSet(Holders) /\ Cardinality(Holders) \in Nat
BY LimitsAssumption, FS_Subset, FS_CardinalityType DEF Holders

\* How the holders change with the step of a request: not at all, by one
\* more, by one less.
LEMMA HoldersSteady ==
    ASSUME TypeOK, NEW r \in Requests, NEW step, Goto(r, step),
           step \in Live \cup Releasing <=> pc[r] \in Live \cup Releasing
    PROVE  Holders' = Holders
BY DEF TypeOK, Goto, Holders

LEMMA HolderJoins ==
    ASSUME TypeOK, NEW r \in Requests, NEW step, Goto(r, step),
           step \in Live \cup Releasing, pc[r] \notin Live \cup Releasing
    PROVE  Cardinality(Holders') = Cardinality(Holders) + 1
<1>1. Holders' = Holders \cup {r} /\ r \notin Holders
  BY DEF TypeOK, Goto, Holders
<1> QED
  BY <1>1, HoldersFinite, FS_AddElement, Zenon

LEMMA HolderLeaves ==
    ASSUME TypeOK, NEW r \in Requests, NEW step, Goto(r, step),
           step \notin Live \cup Releasing, pc[r] \in Live \cup Releasing
    PROVE  Cardinality(Holders') = Cardinality(Holders) - 1
<1>1. Holders' = Holders \ {r} /\ r \in Holders
  BY DEF TypeOK, Goto, Holders
<1> QED
  BY <1>1, HoldersFinite, FS_RemoveElement, Zenon

\* A crash moves the leases of the gateway that goes down from the holders
\* to the orphans, when there is a key to hold them.
LEMMA CrashCounts ==
    ASSUME TypeOK, Crash
    PROVE  /\ orphans' \in Nat
           /\ Holders' \subseteq Holders
           /\ connected /\ Exists(lease)
              => Cardinality(Holders') + orphans' = Cardinality(Holders) + orphans
           /\ ~(connected /\ Exists(lease)) => orphans' = 0
<1>1. PICK down \in SUBSET {r \in Requests : pc[r] \notin {"idle"} \cup Ended} :
         /\ pc' = [r \in Requests |-> IF r \in down THEN "crashed" ELSE pc[r]]
         /\ \/ /\ connected
               /\ orphans' = IF Exists(lease)
                             THEN orphans + Cardinality(Holders \cap down) ELSE 0
            \/ ~connected /\ orphans' = 0
  BY DEF Crash, EmptyStore
<1>2. Holders' = Holders \ down
  BY <1>1 DEF TypeOK, Holders, Live, Releasing
<1>3. /\ IsFiniteSet(Holders)
      /\ Cardinality(Holders) \in Nat /\ Cardinality(Holders \cap down) \in Nat
      /\ Cardinality(Holders \ down) =
            Cardinality(Holders) - Cardinality(Holders \cap down)
  BY HoldersFinite, FS_Difference, FS_Intersection, FS_CardinalityType
<1>4. orphans \in Nat
  BY DEF TypeOK
<1> HIDE DEF Exists
<1> QED
  BY <1>1, <1>2, <1>3, <1>4

-----------------------------------------------------------------------------
\* Each step keeps the types.
LEMMA TypeStep == TypeOK /\ [Next]_vars => TypeOK'
<1> SUFFICES ASSUME TypeOK, [Next]_vars
             PROVE  TypeOK'
  OBVIOUS
<1> USE LimitsAssumption DEF TypeOK, Steps, Checking, Checked, Live, Releasing, Ended,
                             Goto, keys, passes, leases, history, world, TrackLoss
<1>1. ASSUME NEW r \in Requests, Check(r)
      PROVE  TypeOK'
  <2>1. CASE Begin(r)
    BY <2>1, ClockNamesMinute DEF Begin
  <2>2. CASE CheckConcurrency(r)
    BY <2>2 DEF CheckConcurrency
  <2>3. CASE CountRequest(r)
    <3>1. rpm' \in [Minutes -> KeyOf(Nat, WindowTtl)]
          /\ \A m \in Minutes : ~Exists(rpm'[m]) => rpm'[m].value = 0
      <4>1. /\ rpm[window[r]] \in KeyOf(Nat, WindowTtl) /\ 1 \in Nat
            /\ ~Exists(rpm[window[r]]) => rpm[window[r]].value = 0
        OBVIOUS
      <4>2. /\ Counted(rpm[window[r]], 1) \in KeyOf(Nat, WindowTtl)
            /\ Exists(Counted(rpm[window[r]], 1))
        BY <4>1, CommandsKeepWindows
      <4>3. rpm' = [rpm EXCEPT ![window[r]] = Counted(rpm[window[r]], 1)]
        BY <2>3 DEF CountRequest
      <4> QED
        BY <4>2, <4>3
    <3>2. passed' \in [Minutes -> Passed]
      BY <2>3, PassAdds DEF CountRequest
    <3>3. pc' \in [Requests -> Steps]
      BY <2>3 DEF CountRequest
    <3> QED
      BY <2>3, <3>1, <3>2, <3>3 DEF CountRequest
  <2>4. CASE CountTokens(r)
    <3>1. tpm' \in [Minutes -> KeyOf(Nat, WindowTtl)]
          /\ \A m \in Minutes : ~Exists(tpm'[m]) => tpm'[m].value = 0
      <4>1. /\ tpm[window[r]] \in KeyOf(Nat, WindowTtl) /\ Tokens[r] \in Nat
            /\ ~Exists(tpm[window[r]]) => tpm[window[r]].value = 0
        OBVIOUS
      <4>2. /\ Counted(tpm[window[r]], Tokens[r]) \in KeyOf(Nat, WindowTtl)
            /\ Exists(Counted(tpm[window[r]], Tokens[r]))
        BY <4>1, CommandsKeepWindows
      <4>3. tpm' = [tpm EXCEPT ![window[r]] = Counted(tpm[window[r]], Tokens[r])]
        BY <2>4 DEF CountTokens
      <4> QED
        BY <4>2, <4>3
    <3>2. granted' \in [Minutes -> Passed]
      BY <2>4, PassAdds DEF CountTokens
    <3>3. pc' \in [Requests -> Steps]
      BY <2>4 DEF CountTokens
    <3> QED
      BY <2>4, <3>1, <3>2, <3>3 DEF CountTokens
  <2>7. CASE ExpireRequests(r)
    BY <2>7, CommandsKeepWindows DEF ExpireRequests
  <2>8. CASE ExpireTokens(r)
    BY <2>8, CommandsKeepWindows DEF ExpireTokens
  <2>5. CASE Acquire(r)
    <3>1. /\ lease' \in {IncrBy(lease, 1), IncrInMap(lease, 1, LeaseTtl)}
          /\ \E step \in Live : Goto(r, step)
      BY <2>5 DEF Acquire
    <3>2. lease' \in KeyOf(Int, LeaseTtl) /\ Exists(lease')
      <4>1. /\ lease \in KeyOf(Int, LeaseTtl) /\ 1 \in Int /\ -1 \in Int
            /\ ~Exists(lease) => lease.value = 0
        OBVIOUS
      <4>2. /\ IncrBy(lease, 1) \in KeyOf(Int, LeaseTtl)
            /\ Exists(IncrBy(lease, 1))
            /\ IncrInMap(lease, 1, LeaseTtl) \in KeyOf(Int, LeaseTtl)
            /\ Exists(IncrInMap(lease, 1, LeaseTtl))
        BY <4>1, CommandsKeepKeys
      <4> HIDE DEF TypeOK
      <4> QED
        BY <3>1, <4>2
    <3>3. pc' \in [Requests -> Steps]
      BY <3>1
    <3> QED
      BY <2>5, <3>2, <3>3 DEF Acquire
  <2>6. CASE SetExpiry(r)
    BY <2>6, CommandsKeepKeys DEF SetExpiry
  <2> QED
    BY <1>1, <2>1, <2>2, <2>3, <2>4, <2>5, <2>6, <2>7, <2>8 DEF Check
<1>2. ASSUME NEW r \in Requests, Release(r)
      PROVE  TypeOK'
  <2>1. CASE EndStream(r)
    BY <2>1 DEF EndStream
  <2>2. CASE ReadForRelease(r)
    BY <2>2 DEF ReadForRelease
  <2>3. CASE DeleteLease(r)
    <3>1. lease' \in KeyOf(Int, LeaseTtl) /\ lease'.value = 0
      BY <2>3, CommandsKeepKeys DEF DeleteLease
    <3> QED
      BY <2>3, <3>1 DEF DeleteLease
  <2>4. CASE DecrementLease(r)
    <3>1. /\ lease' \in {IncrBy(lease, -1), IncrInMap(lease, -1, LeaseTtl)}
          /\ \E step \in {"expireAgain", "done"} : Goto(r, step)
      BY <2>4 DEF DecrementLease
    <3>2. lease' \in KeyOf(Int, LeaseTtl) /\ Exists(lease')
      <4>1. /\ lease \in KeyOf(Int, LeaseTtl) /\ 1 \in Int /\ -1 \in Int
            /\ ~Exists(lease) => lease.value = 0
        OBVIOUS
      <4>2. /\ IncrBy(lease, -1) \in KeyOf(Int, LeaseTtl)
            /\ Exists(IncrBy(lease, -1))
            /\ IncrInMap(lease, -1, LeaseTtl) \in KeyOf(Int, LeaseTtl)
            /\ Exists(IncrInMap(lease, -1, LeaseTtl))
        BY <4>1, CommandsKeepKeys
      <4> HIDE DEF TypeOK
      <4> QED
        BY <3>1, <4>2
    <3>3. pc' \in [Requests -> Steps]
      BY <3>1
    <3> QED
      BY <2>4, <3>2, <3>3 DEF DecrementLease
  <2>5. CASE SetExpiryAgain(r)
    BY <2>5, CommandsKeepKeys DEF SetExpiryAgain
  <2> QED
    BY <1>2, <2>1, <2>2, <2>3, <2>4, <2>5 DEF Release
<1>3. ASSUME Tick
      PROVE  TypeOK'
  <2>1. /\ lease' \in KeyOf(Int, LeaseTtl)
        /\ ~Exists(lease') => lease'.value = 0
    BY <1>3, CommandsKeepKeys DEF Tick
  <2>2. /\ rpm' \in [Minutes -> KeyOf(Nat, WindowTtl)]
        /\ tpm' \in [Minutes -> KeyOf(Nat, WindowTtl)]
        /\ \A m \in Minutes : /\ ~Exists(rpm'[m]) => rpm'[m].value = 0
                              /\ ~Exists(tpm'[m]) => tpm'[m].value = 0
    BY <1>3, CommandsKeepWindows DEF Tick
  <2>3. passed' \in [Minutes -> Passed] /\ granted' \in [Minutes -> Passed]
    BY <1>3, HistoryIsTyped DEF Tick
  <2>4. now' \in 0..MaxTick
    BY <1>3 DEF Tick
  <2> QED
    BY <1>3, <2>1, <2>2, <2>3, <2>4 DEF Tick
<1>4. ASSUME Crash
      PROVE  TypeOK'
  <2>2. orphans' \in Nat
    BY <1>4, CrashCounts DEF EmptyStore
  <2>3. faults' \in [crashes : 0..MaxCrashes, flushes : 0..MaxFlushes]
    BY <1>4 DEF Crash
  <2>4. pc' \in [Requests -> Steps]
    BY <1>4 DEF Crash
  <2>5. CASE connected
    BY <1>4, <2>2, <2>3, <2>4, <2>5 DEF Crash
  <2>6. CASE ~connected
    <3>1. EmptyStore
      BY <1>4, <2>6 DEF Crash
    <3>2. EmptiedIsTyped'
      BY <3>1, EmptyStoreIsTyped
    <3> QED
      BY <1>4, <2>3, <2>4, <3>2 DEF Crash, EmptiedIsTyped
  <2> QED
    BY <2>5, <2>6
<1>5. ASSUME Flush
      PROVE  TypeOK'
  <2>1. EmptiedIsTyped'
    BY <1>5, EmptyStoreIsTyped DEF Flush
  <2> QED
    BY <1>5, <2>1 DEF Flush, EmptiedIsTyped
<1>7. ASSUME LoseRedis
      PROVE  TypeOK'
  <2>1. pc' \in [Requests -> Steps]
    BY <1>7 DEF LoseRedis, Retried
  <2>2. EmptiedIsTyped'
    BY <1>7, EmptyStoreIsTyped DEF LoseRedis
  <2> QED
    BY <1>7, <2>1, <2>2 DEF LoseRedis, EmptiedIsTyped
<1>6. CASE UNCHANGED vars
  BY <1>6 DEF vars
<1> QED
  BY <1>1, <1>2, <1>3, <1>4, <1>5, <1>6, <1>7 DEF Next

-----------------------------------------------------------------------------
\* A minute has begun when the clock names it.
LEMMA MinuteBegun ==
    ASSUME NEW t \in Nat
    PROVE  /\ MinuteOf(t) \in Nat
           /\ MinuteOf(t) * TicksPerMinute <= t
BY LimitsAssumption DEF MinuteOf

\* Each request's minute goes on having begun.
LEMMA BegunStep ==
    ASSUME TypeOK, WindowsBegun, [Next]_vars
    PROVE  WindowsBegun'
<1>0. /\ now \in Nat /\ now' \in Nat /\ now <= now'
      /\ \A m \in Minutes : m * TicksPerMinute \in Nat
  <2>1. ASSUME NEW m \in Minutes
        PROVE  m * TicksPerMinute \in Nat
    BY MinuteBegun, LimitsAssumption DEF Minutes
  <2>2. now \in Nat
    BY LimitsAssumption DEF TypeOK
  <2>3. now' = now \/ now' = now + 1
    BY DEF Next, Check, Release, Begin, CheckConcurrency, CountRequest,
           ExpireRequests, CountTokens, ExpireTokens, Acquire, SetExpiry,
           EndStream, ReadForRelease, DeleteLease, DecrementLease,
           SetExpiryAgain, Tick, Crash, Flush, LoseRedis, world, vars
  <2> QED
    BY <2>1, <2>2, <2>3
<1>1. ASSUME UNCHANGED window
      PROVE  WindowsBegun'
  BY <1>0, <1>1 DEF WindowsBegun, TypeOK
<1>2. ASSUME NEW r \in Requests, Begin(r)
      PROVE  WindowsBegun'
  <2>1. MinuteOf(now) * TicksPerMinute <= now
    BY <1>0, MinuteBegun
  <2> QED
    BY <1>2, <2>1 DEF Begin, WindowsBegun, TypeOK, world
<1>3. (\E r \in Requests : Begin(r)) \/ UNCHANGED window
  BY DEF Next, Check, Release, CheckConcurrency, CountRequest,
         ExpireRequests, CountTokens, ExpireTokens, Acquire, SetExpiry,
         EndStream, ReadForRelease, DeleteLease, DecrementLease,
         SetExpiryAgain, Tick, Crash, Flush, LoseRedis, vars
<1> QED
  BY <1>1, <1>2, <1>3

\* A count is kept by the commands on the key of a minute that has begun: by
\* the increment, with what it lets pass or without, and by its EXPIRE.
LEMMA CountingStep ==
    ASSUME NEW m \in Minutes, now \in Nat, m * TicksPerMinute \in Nat,
           Closes(m) <= now + WindowTtl,
           NEW key \in KeyOf(Nat, WindowTtl), ~Exists(key) => key.value = 0,
           NEW p \in Passed, Counts(key, p, m)
    PROVE  /\ \A n \in Nat, q \in Passed :
                Total(q) \in {Total(p), IF InTime(m) THEN Total(p) + n ELSE Total(p)}
                => Counts(Counted(key, n), q, m)
           /\ Counts(Expire(key, WindowTtl), p, m)
<1>1. /\ key.value \in Nat /\ key.ttl \in Int /\ WindowTtl \in Nat
      /\ Closes(m) \in Nat /\ Total(p) \in Nat
  BY LimitsAssumption DEF KeyOf, NoKey, Closes, Passed, Total
<1>2. ASSUME NEW n \in Nat, NEW q \in Passed,
             Total(q) \in {Total(p), IF InTime(m) THEN Total(p) + n ELSE Total(p)}
      PROVE  Counts(Counted(key, n), q, m)
  <2>1. /\ Counted(key, n).value = key.value + n
        /\ Counted(key, n).ttl \in {key.ttl, NoExpiry, WindowTtl}
    BY <1>2, CommandsKeepWindows
  <2>2. StaysOpen(Counted(key, n), m) \/ ~InTime(m)
    BY <1>1, <2>1 DEF Counts, StaysOpen
  <2>3. InTime(m) => Total(q) <= key.value + n
    BY <1>1, <1>2 DEF Counts
  <2> QED
    BY <1>2, <2>1, <2>2, <2>3 DEF Counts
<1>3. Counts(Expire(key, WindowTtl), p, m)
  <2>1. /\ Expire(key, WindowTtl).value = key.value
        /\ Expire(key, WindowTtl).ttl \in {NoKey, WindowTtl}
    BY LimitsAssumption DEF KeyOf, Expire, Exists, NoKey
  <2> QED
    BY <1>1, <2>1 DEF Counts, StaysOpen
<1> QED
  BY <1>2, <1>3

\* The keys of a minute count what passes in time, within the limits.
LEMMA WindowStep ==
    ASSUME TypeOK, TypeOK', WindowsBegun, WindowsCounted, WindowBounds, [Next]_vars
    PROVE  WindowsCounted' /\ WindowBounds'
<1> DEFINE windows == <<rpm, tpm, passed, granted, now>>
<1>0. /\ \A m \in Minutes : m * TicksPerMinute \in Nat
      /\ \A r \in Requests : Closes(window[r]) <= now + WindowTtl
  <2>1. ASSUME NEW m \in Minutes
        PROVE  m * TicksPerMinute \in Nat
    BY MinuteBegun, LimitsAssumption DEF Minutes
  <2>2. ASSUME NEW r \in Requests
        PROVE  Closes(window[r]) <= now + WindowTtl
    BY <2>1, LimitsAssumption DEF WindowsBegun, TypeOK, Closes
  <2> QED
    BY <2>1, <2>2
<1>n. /\ now \in Nat
      /\ \A r \in Requests : window[r] * TicksPerMinute \in Nat
  BY <1>0, LimitsAssumption DEF TypeOK
<1>b. /\ \A m \in Minutes : Total(passed[m]) <= RpmLimit /\ Total(granted[m]) <= TpmLimit
      /\ (\A m \in Minutes : Total(passed[m]) <= RpmLimit /\ Total(granted[m]) <= TpmLimit)'
         => WindowBounds'
  BY DEF WindowBounds, Total
<1>1. ASSUME UNCHANGED windows
      PROVE  WindowsCounted' /\ WindowBounds'
  BY <1>1 DEF WindowsCounted, WindowBounds, Counts, InTime, StaysOpen
<1>2. ASSUME NEW r \in Requests, CountRequest(r)
      PROVE  WindowsCounted' /\ WindowBounds'
  <2> DEFINE m == window[r]
  <2> DEFINE after == Counted(rpm[m], 1)
  <2>1. /\ m \in Minutes /\ m * TicksPerMinute \in Nat /\ Closes(m) <= now + WindowTtl
        /\ rpm \in [Minutes -> KeyOf(Nat, WindowTtl)] /\ passed \in [Minutes -> Passed]
        /\ rpm[m] \in KeyOf(Nat, WindowTtl) /\ passed[m] \in Passed
        /\ ~Exists(rpm[m]) => rpm[m].value = 0
        /\ Counts(rpm[m], passed[m], m)
    BY <1>0, LimitsAssumption DEF TypeOK, WindowsCounted
  <2>2. /\ rpm' = [rpm EXCEPT ![m] = after]
        /\ passed' = IF after.value <= RpmLimit THEN Pass(passed, m, 1) ELSE passed
        /\ UNCHANGED <<tpm, granted, now>>
    BY <1>2 DEF CountRequest, world
  <2> HIDE DEF m
  <2>3. Counts(after, passed'[m], m) /\ Total(passed'[m]) <= RpmLimit
    <3>1. CASE after.value <= RpmLimit
      <4>1. Total(passed'[m]) = IF InTime(m) THEN Total(passed[m]) + 1 ELSE Total(passed[m])
        BY <2>1, <2>2, <3>1, PassAdds
      <4>2. passed'[m] \in Passed
        BY <2>1, <2>2, <3>1, PassAdds
      <4>3. Counts(after, passed'[m], m)
        BY <1>n, <2>1, <4>1, <4>2, CountingStep
      <4>4. Total(passed'[m]) = 0 \/ Total(passed'[m]) <= after.value
        BY <4>3 DEF Counts
      <4>5. after.value \in Nat /\ Total(passed'[m]) \in Nat
        <5>1. after \in KeyOf(Nat, WindowTtl)
          BY <2>1, CommandsKeepWindows
        <5> HIDE DEF after
        <5> QED
          BY <4>2, <5>1 DEF KeyOf, Passed, Total
      <4> HIDE DEF after
      <4> QED
        BY <3>1, <4>3, <4>4, <4>5, LimitsAssumption
    <3>2. CASE ~(after.value <= RpmLimit)
      <4>1. passed' = passed
        BY <2>2, <3>2
      <4>2. Counts(after, passed[m], m)
        BY <1>n, <2>1, CountingStep
      <4>3. Total(passed[m]) <= RpmLimit
        BY <1>b, <2>1
      <4> QED
        BY <4>1, <4>2, <4>3
    <3> QED
      BY <3>1, <3>2
  <2> HIDE DEF after
  <2>4. ASSUME NEW q \in Minutes
        PROVE  Counts(rpm'[q], passed'[q], q) /\ Total(passed'[q]) <= RpmLimit
    <3>1. CASE q = m
      BY <2>1, <2>2, <2>3, <3>1
    <3>2. CASE q # m
      <4>1. rpm'[q] = rpm[q] /\ passed'[q] = passed[q]
        BY <2>1, <2>2, <3>2, PassAdds
      <4> QED
        BY <1>b, <4>1 DEF WindowsCounted
    <3> QED
      BY <3>1, <3>2
  <2>5. ASSUME NEW q \in Minutes
        PROVE  (Counts(rpm[q], passed[q], q) /\ Counts(tpm[q], granted[q], q))'
    BY <2>2, <2>4 DEF WindowsCounted, Counts, InTime, StaysOpen
  <2>6. ASSUME NEW q \in Minutes
        PROVE  (Total(passed[q]) <= RpmLimit /\ Total(granted[q]) <= TpmLimit)'
    BY <1>b, <2>2, <2>4
  <2> QED
    BY <1>b, <2>5, <2>6 DEF WindowsCounted
<1>3. ASSUME NEW r \in Requests, CountTokens(r)
      PROVE  WindowsCounted' /\ WindowBounds'
  <2> DEFINE m == window[r]
  <2> DEFINE after == Counted(tpm[m], Tokens[r])
  <2>1. /\ m \in Minutes /\ m * TicksPerMinute \in Nat
        /\ Tokens[r] \in Nat /\ Closes(m) <= now + WindowTtl
        /\ tpm \in [Minutes -> KeyOf(Nat, WindowTtl)] /\ granted \in [Minutes -> Passed]
        /\ tpm[m] \in KeyOf(Nat, WindowTtl) /\ granted[m] \in Passed
        /\ ~Exists(tpm[m]) => tpm[m].value = 0
        /\ Counts(tpm[m], granted[m], m)
    BY <1>0, LimitsAssumption DEF TypeOK, WindowsCounted
  <2>2. /\ tpm' = [tpm EXCEPT ![m] = after]
        /\ granted' = IF after.value <= TpmLimit THEN Pass(granted, m, Tokens[r]) ELSE granted
        /\ UNCHANGED <<rpm, passed, now>>
    BY <1>3 DEF CountTokens, world
  <2> HIDE DEF m
  <2>3. Counts(after, granted'[m], m) /\ Total(granted'[m]) <= TpmLimit
    <3>1. CASE after.value <= TpmLimit
      <4>1. Total(granted'[m]) = IF InTime(m) THEN Total(granted[m]) + Tokens[r] ELSE Total(granted[m])
        BY <2>1, <2>2, <3>1, PassAdds
      <4>2. granted'[m] \in Passed
        BY <2>1, <2>2, <3>1, PassAdds
      <4>3. Counts(after, granted'[m], m)
        BY <1>n, <2>1, <4>1, <4>2, CountingStep
      <4>4. Total(granted'[m]) = 0 \/ Total(granted'[m]) <= after.value
        BY <4>3 DEF Counts
      <4>5. after.value \in Nat /\ Total(granted'[m]) \in Nat
        <5>1. after \in KeyOf(Nat, WindowTtl)
          BY <2>1, CommandsKeepWindows
        <5> HIDE DEF after
        <5> QED
          BY <4>2, <5>1 DEF KeyOf, Passed, Total
      <4> HIDE DEF after
      <4> QED
        BY <3>1, <4>3, <4>4, <4>5, LimitsAssumption
    <3>2. CASE ~(after.value <= TpmLimit)
      <4>1. granted' = granted
        BY <2>2, <3>2
      <4>2. Counts(after, granted[m], m)
        BY <1>n, <2>1, CountingStep
      <4>3. Total(granted[m]) <= TpmLimit
        BY <1>b, <2>1
      <4> QED
        BY <4>1, <4>2, <4>3
    <3> QED
      BY <3>1, <3>2
  <2> HIDE DEF after
  <2>4. ASSUME NEW q \in Minutes
        PROVE  Counts(tpm'[q], granted'[q], q) /\ Total(granted'[q]) <= TpmLimit
    <3>1. CASE q = m
      BY <2>1, <2>2, <2>3, <3>1
    <3>2. CASE q # m
      <4>1. tpm'[q] = tpm[q] /\ granted'[q] = granted[q]
        BY <2>1, <2>2, <3>2, PassAdds
      <4> QED
        BY <1>b, <4>1 DEF WindowsCounted
    <3> QED
      BY <3>1, <3>2
  <2>5. ASSUME NEW q \in Minutes
        PROVE  (Counts(tpm[q], granted[q], q) /\ Counts(rpm[q], passed[q], q))'
    BY <2>2, <2>4 DEF WindowsCounted, Counts, InTime, StaysOpen
  <2>6. ASSUME NEW q \in Minutes
        PROVE  (Total(passed[q]) <= RpmLimit /\ Total(granted[q]) <= TpmLimit)'
    BY <1>b, <2>2, <2>4
  <2> QED
    BY <1>b, <2>5, <2>6 DEF WindowsCounted
<1>4. ASSUME NEW r \in Requests, ExpireRequests(r)
      PROVE  WindowsCounted' /\ WindowBounds'
  <2>1. /\ window[r] \in Minutes /\ Closes(window[r]) <= now + WindowTtl
        /\ rpm \in [Minutes -> KeyOf(Nat, WindowTtl)]
        /\ rpm[window[r]] \in KeyOf(Nat, WindowTtl) /\ passed[window[r]] \in Passed
        /\ ~Exists(rpm[window[r]]) => rpm[window[r]].value = 0
        /\ Counts(rpm[window[r]], passed[window[r]], window[r])
    BY <1>0, LimitsAssumption DEF TypeOK, WindowsCounted
  <2>2. Counts(Expire(rpm[window[r]], WindowTtl), passed[window[r]], window[r])
    BY <1>n, <2>1, CountingStep
  <2>3. /\ rpm' = [rpm EXCEPT ![window[r]] = Expire(rpm[window[r]], WindowTtl)]
        /\ UNCHANGED <<tpm, passed, granted, now>>
    BY <1>4 DEF ExpireRequests, world, history, passes
  <2>4. ASSUME NEW q \in Minutes
        PROVE  Counts(rpm'[q], passed[q], q)
    BY <2>1, <2>2, <2>3 DEF WindowsCounted
  <2>5. ASSUME NEW q \in Minutes
        PROVE  (Counts(rpm[q], passed[q], q) /\ Counts(tpm[q], granted[q], q))'
    BY <2>3, <2>4 DEF WindowsCounted, Counts, InTime, StaysOpen
  <2>6. ASSUME NEW q \in Minutes
        PROVE  (Total(passed[q]) <= RpmLimit /\ Total(granted[q]) <= TpmLimit)'
    BY <1>b, <2>3, <2>4
  <2> QED
    BY <1>b, <2>5, <2>6 DEF WindowsCounted
<1>5. ASSUME NEW r \in Requests, ExpireTokens(r)
      PROVE  WindowsCounted' /\ WindowBounds'
  <2>1. /\ window[r] \in Minutes /\ Closes(window[r]) <= now + WindowTtl
        /\ tpm \in [Minutes -> KeyOf(Nat, WindowTtl)]
        /\ tpm[window[r]] \in KeyOf(Nat, WindowTtl) /\ granted[window[r]] \in Passed
        /\ ~Exists(tpm[window[r]]) => tpm[window[r]].value = 0
        /\ Counts(tpm[window[r]], granted[window[r]], window[r])
    BY <1>0, LimitsAssumption DEF TypeOK, WindowsCounted
  <2>2. Counts(Expire(tpm[window[r]], WindowTtl), granted[window[r]], window[r])
    BY <1>n, <2>1, CountingStep
  <2>3. /\ tpm' = [tpm EXCEPT ![window[r]] = Expire(tpm[window[r]], WindowTtl)]
        /\ UNCHANGED <<rpm, passed, granted, now>>
    BY <1>5 DEF ExpireTokens, world, history, passes
  <2>4. ASSUME NEW q \in Minutes
        PROVE  Counts(tpm'[q], granted[q], q)
    BY <2>1, <2>2, <2>3 DEF WindowsCounted
  <2>5. ASSUME NEW q \in Minutes
        PROVE  (Counts(tpm[q], granted[q], q) /\ Counts(rpm[q], passed[q], q))'
    BY <2>3, <2>4 DEF WindowsCounted, Counts, InTime, StaysOpen
  <2>6. ASSUME NEW q \in Minutes
        PROVE  (Total(passed[q]) <= RpmLimit /\ Total(granted[q]) <= TpmLimit)'
    BY <1>b, <2>3, <2>4
  <2> QED
    BY <1>b, <2>5, <2>6 DEF WindowsCounted
<1>6. ASSUME Tick
      PROVE  WindowsCounted' /\ WindowBounds'
  <2>1. ASSUME NEW m \in Minutes, NEW k \in KeyOf(Nat, WindowTtl),
               NEW p \in Passed, Counts(k, p, m), InTime(m)'
        PROVE  /\ Total(p) <= Age(k).value
               /\ Age(k).ttl \in {NoKey, NoExpiry} \/ now' + Age(k).ttl >= Closes(m)
    <3>1. /\ now' = IF now < MaxTick THEN now + 1 ELSE now
          /\ MaxTick \in Nat /\ Closes(m) \in Nat /\ k.ttl \in Int
      BY <1>0, <1>6, LimitsAssumption DEF Tick, Closes, KeyOf, NoKey
    <3>2. InTime(m) /\ now' = now + 1 /\ now + 1 < Closes(m)
      BY <1>n, <2>1, <3>1 DEF InTime, Closes
    <3>3. Total(p) <= k.value /\ StaysOpen(k, m)
      BY <2>1, <3>2 DEF Counts
    <3>4. CASE k.ttl \in {NoKey, NoExpiry}
      <4>1. Age(k) = k
        BY <3>4 DEF Age, NoKey, NoExpiry
      <4> QED
        BY <3>3, <3>4, <4>1
    <3>5. CASE now + k.ttl >= Closes(m) /\ k.ttl \notin {NoKey, NoExpiry}
      <4>1. k.ttl > 1
        BY <1>n, <3>1, <3>2, <3>5
      <4>2. Age(k).ttl = k.ttl - 1 /\ Age(k).value = k.value
        BY <2>1, <4>1 DEF Age, KeyOf
      <4> QED
        BY <1>n, <3>1, <3>2, <3>3, <3>5, <4>2
    <3> QED
      BY <3>3, <3>4, <3>5 DEF StaysOpen
  <2>2. ASSUME NEW m \in Minutes
        PROVE  (Counts(rpm[m], passed[m], m) /\ Counts(tpm[m], granted[m], m))'
    <3>1. /\ rpm[m] \in KeyOf(Nat, WindowTtl) /\ passed[m] \in Passed
          /\ tpm[m] \in KeyOf(Nat, WindowTtl) /\ granted[m] \in Passed
          /\ Counts(rpm[m], passed[m], m) /\ Counts(tpm[m], granted[m], m)
      BY DEF TypeOK, WindowsCounted
    <3>2. /\ rpm'[m] = Age(rpm[m]) /\ tpm'[m] = Age(tpm[m])
          /\ passed'[m] = IF InTime(m)' THEN passed[m] ELSE NothingPassed
          /\ granted'[m] = IF InTime(m)' THEN granted[m] ELSE NothingPassed
      BY <1>6 DEF Tick, Forget
    <3>3. CASE InTime(m)'
      <4>1. /\ Total(passed[m]) <= Age(rpm[m]).value
            /\ \/ Age(rpm[m]).ttl \in {NoKey, NoExpiry}
               \/ now' + Age(rpm[m]).ttl >= Closes(m)
        BY <2>1, <3>1, <3>3
      <4>2. /\ Total(granted[m]) <= Age(tpm[m]).value
            /\ \/ Age(tpm[m]).ttl \in {NoKey, NoExpiry}
               \/ now' + Age(tpm[m]).ttl >= Closes(m)
        BY <2>1, <3>1, <3>3
      <4> QED
        BY <3>2, <3>3, <4>1, <4>2 DEF Counts, StaysOpen, Closes, Total
    <3>4. CASE ~InTime(m)'
      <4>1. passed'[m] = NothingPassed /\ granted'[m] = NothingPassed
        BY <3>2, <3>4
      <4> QED
        BY <3>4, <4>1 DEF Counts, NothingPassed, Total
    <3> QED
      BY <3>3, <3>4
  <2>3. ASSUME NEW m \in Minutes
        PROVE  (Total(passed[m]) <= RpmLimit /\ Total(granted[m]) <= TpmLimit)'
    <3>1. /\ passed'[m] \in {passed[m], NothingPassed}
          /\ granted'[m] \in {granted[m], NothingPassed}
      BY <1>6 DEF Tick, Forget
    <3>2. 0 <= RpmLimit /\ 0 <= TpmLimit
      BY LimitsAssumption
    <3> QED
      BY <1>b, <3>1, <3>2 DEF Total, NothingPassed
  <2> QED
    BY <1>b, <2>2, <2>3 DEF WindowsCounted
<1>7. ASSUME EmptyStore
      PROVE  WindowsCounted' /\ WindowBounds'
  <2>1. ASSUME NEW m \in Minutes
        PROVE  /\ rpm'[m] = Absent /\ tpm'[m] = Absent
               /\ passed'[m] = NothingPassed /\ granted'[m] = NothingPassed
    BY <1>7 DEF EmptyStore
  <2>2. ASSUME NEW m \in Minutes
        PROVE  (Counts(rpm[m], passed[m], m) /\ Counts(tpm[m], granted[m], m))'
    BY <2>1 DEF Counts, StaysOpen, Absent, Total, NothingPassed
  <2>3. ASSUME NEW m \in Minutes
        PROVE  (Total(passed[m]) <= RpmLimit /\ Total(granted[m]) <= TpmLimit)'
    BY <2>1, LimitsAssumption DEF Total, NothingPassed
  <2> QED
    BY <1>b, <2>2, <2>3 DEF WindowsCounted
<1>8. ASSUME NEW r \in Requests,
             Check(r), ~(CountRequest(r) \/ CountTokens(r)
                         \/ ExpireRequests(r) \/ ExpireTokens(r))
      PROVE  UNCHANGED windows
  BY <1>8 DEF Check, Begin, CheckConcurrency, Acquire, SetExpiry, keys, history,
              passes, world
<1>9. ASSUME NEW r \in Requests, Release(r)
      PROVE  UNCHANGED windows
  BY <1>9 DEF Release, EndStream, ReadForRelease, DeleteLease, DecrementLease,
              SetExpiryAgain, keys, history, passes, world
<1>10. ASSUME Crash \/ Flush \/ LoseRedis
       PROVE  EmptyStore \/ UNCHANGED windows
  BY <1>10 DEF Crash, Flush, LoseRedis, keys, passes
<1>11. CASE UNCHANGED vars
  BY <1>1, <1>11 DEF vars
<1> QED
  BY <1>1, <1>2, <1>3, <1>4, <1>5, <1>6, <1>7, <1>8, <1>9, <1>10, <1>11 DEF Next

-----------------------------------------------------------------------------
\* A step either keeps the difference between the key and the leases it
\* should count, or leaves no key.
Kept ==
    /\ \E d \in Int : /\ lease'.value = lease.value + d
                     /\ Cardinality(Holders') + orphans' =
                            Cardinality(Holders) + orphans + d
    /\ keyLost' = keyLost
    /\ orphans' > 0 => Exists(lease')

Emptied ==
    /\ ~Exists(lease') /\ lease'.value = 0
    /\ orphans' = 0
    /\ keyLost' = (Holders' # {})

LEMMA LeaseMoves ==
    ASSUME TypeOK, TypeOK', CountsExactly, [Next]_vars
    PROVE  Kept \/ Emptied
<1>k. /\ lease \in KeyOf(Int, LeaseTtl) /\ lease.value \in Int
      /\ ~Exists(lease) => lease.value = 0
      /\ orphans \in Nat /\ Cardinality(Holders) \in Nat
      /\ orphans > 0 => Exists(lease)
      /\ 1 \in Int /\ -1 \in Int /\ 0 \in Int
  BY HoldersFinite DEF TypeOK, KeyOf, CountsExactly
\* Nothing moves.
<1>1. ASSUME lease'.value = lease.value, Exists(lease') <=> Exists(lease),
             Holders' = Holders, UNCHANGED <<orphans, keyLost>>
      PROVE  Kept
  <2>1. /\ lease'.value = lease.value + 0
        /\ Cardinality(Holders') + orphans' = Cardinality(Holders) + orphans + 0
    BY <1>k, <1>1
  <2> QED
    BY <1>k, <1>1, <2>1 DEF Kept
<1>2. ASSUME NEW r \in Requests, Check(r)
      PROVE  Kept
  <2>1. CASE Acquire(r)
    <3>1. /\ lease'.value = lease.value + 1 /\ Exists(lease')
          /\ UNCHANGED <<orphans, keyLost>>
      <4>1. /\ IncrBy(lease, 1).value = lease.value + 1
            /\ IncrInMap(lease, 1, LeaseTtl).value = lease.value + 1
            /\ Exists(IncrBy(lease, 1)) /\ Exists(IncrInMap(lease, 1, LeaseTtl))
        BY <1>k, CommandsKeepKeys
      <4>2. /\ lease' \in {IncrBy(lease, 1), IncrInMap(lease, 1, LeaseTtl)}
            /\ UNCHANGED <<orphans, keyLost>>
        BY <2>1 DEF Acquire
      <4> QED
        BY <4>1, <4>2
    <3>2. Cardinality(Holders') = Cardinality(Holders) + 1
      <4>1. pc[r] = "acquire" /\ \E step \in {"expire", "streaming"} : Goto(r, step)
        BY <2>1 DEF Acquire
      <4> QED
        BY <4>1, HolderJoins DEF Live, Releasing
    <3>3. Cardinality(Holders') + orphans' = Cardinality(Holders) + orphans + 1
      BY <1>k, <3>1, <3>2
    <3> QED
      BY <1>k, <3>1, <3>3 DEF Kept
  <2>2. CASE SetExpiry(r)
    <3>1. lease' = Expire(lease, LeaseTtl) /\ UNCHANGED <<orphans, keyLost>>
      BY <2>2 DEF SetExpiry, history, leases
    <3>2. Holders' = Holders
      BY <2>2, HoldersSteady DEF SetExpiry, Live, Releasing
    <3>3. lease'.value = lease.value /\ (Exists(lease') <=> Exists(lease))
      BY <1>k, <3>1, CommandsKeepKeys
    <3> QED
      BY <1>1, <3>1, <3>2, <3>3
  <2>3. CASE ~Acquire(r) /\ ~SetExpiry(r)
    <3>1. UNCHANGED <<lease, orphans, keyLost>>
      BY <1>2, <2>3 DEF Check, Begin, CheckConcurrency, CountRequest, ExpireRequests,
         CountTokens, ExpireTokens, keys, history, leases
    <3>2. \E step : Goto(r, step) /\ step \notin Live \cup Releasing
      BY <1>2, <2>3 DEF Check, Begin, CheckConcurrency, CountRequest, ExpireRequests,
         CountTokens, ExpireTokens, Goto, Live, Releasing
    <3>3. pc[r] \notin Live \cup Releasing
      BY <1>2, <2>3 DEF Check, Begin, CheckConcurrency, CountRequest, ExpireRequests,
         CountTokens, ExpireTokens, Live, Releasing
    <3>4. Holders' = Holders
      BY <3>2, <3>3, HoldersSteady
    <3> QED
      BY <1>1, <3>1, <3>4
  <2> QED
    BY <2>1, <2>2, <2>3
<1>3. ASSUME NEW r \in Requests, Release(r)
      PROVE  Kept \/ Emptied
  <2>1. CASE EndStream(r)
    <3>1. UNCHANGED <<lease, orphans, keyLost>>
      BY <2>1 DEF EndStream, keys, history, leases
    <3>2. Holders' = Holders
      BY <2>1, HoldersSteady DEF EndStream, Live, Releasing
    <3> QED
      BY <1>1, <3>1, <3>2
  <2>2. CASE ReadForRelease(r)
    <3>1. UNCHANGED <<lease, orphans>> /\ TrackLoss
      BY <2>2 DEF ReadForRelease, keys
    <3>2. CASE ~Exists(lease)
      BY <1>k, <3>1, <3>2 DEF Emptied, TrackLoss
    <3>3. CASE Exists(lease)
      <4>1. \E step : Goto(r, step) /\ step \in Releasing
        BY <2>2, <3>3 DEF ReadForRelease, Goto, Releasing
      <4>2. Holders' = Holders
        BY <2>2, <4>1, HoldersSteady DEF ReadForRelease, Releasing
      <4>3. UNCHANGED keyLost
        BY <3>1, <3>3 DEF TrackLoss
      <4> QED
        BY <1>1, <3>1, <4>2, <4>3
    <3> QED
      BY <3>2, <3>3
  <2>3. CASE DeleteLease(r)
    <3>1. ~Exists(lease') /\ lease'.value = 0
      BY <1>k, <2>3, CommandsKeepKeys DEF DeleteLease
    <3> QED
      BY <2>3, <3>1 DEF DeleteLease, TrackLoss, Emptied
  <2>4. CASE DecrementLease(r)
    <3>1. /\ lease'.value = lease.value + (-1) /\ Exists(lease')
          /\ UNCHANGED <<orphans, keyLost>>
      <4>1. /\ IncrBy(lease, -1).value = lease.value + (-1)
            /\ IncrInMap(lease, -1, LeaseTtl).value = lease.value + (-1)
            /\ Exists(IncrBy(lease, -1)) /\ Exists(IncrInMap(lease, -1, LeaseTtl))
        BY <1>k, CommandsKeepKeys
      <4>2. /\ lease' \in {IncrBy(lease, -1), IncrInMap(lease, -1, LeaseTtl)}
            /\ UNCHANGED <<orphans, keyLost>>
        BY <2>4 DEF DecrementLease, history, leases
      <4> QED
        BY <4>1, <4>2
    <3>2. Cardinality(Holders') = Cardinality(Holders) - 1
      <4>1. pc[r] = "decrement" /\ \E step \in {"expireAgain", "done"} : Goto(r, step)
        BY <2>4 DEF DecrementLease
      <4> QED
        BY <4>1, HolderLeaves DEF Live, Releasing
    <3>3. Cardinality(Holders') + orphans' = Cardinality(Holders) + orphans + (-1)
      BY <1>k, <3>1, <3>2
    <3> QED
      BY <1>k, <3>1, <3>3 DEF Kept
  <2>5. CASE SetExpiryAgain(r)
    <3>1. lease' = Expire(lease, LeaseTtl) /\ UNCHANGED <<orphans, keyLost>>
      BY <2>5 DEF SetExpiryAgain, history, leases
    <3>2. Holders' = Holders
      BY <2>5, HoldersSteady DEF SetExpiryAgain, Live, Releasing
    <3>3. lease'.value = lease.value /\ (Exists(lease') <=> Exists(lease))
      BY <1>k, <3>1, CommandsKeepKeys
    <3> QED
      BY <1>1, <3>1, <3>2, <3>3
  <2> QED
    BY <1>3, <2>1, <2>2, <2>3, <2>4, <2>5 DEF Release
<1>4. ASSUME Tick
      PROVE  Kept \/ Emptied
  <2>1. Holders' = Holders
    BY <1>4 DEF Tick, Holders
  <2>2. CASE Exists(lease')
    <3>1. lease'.value = lease.value /\ UNCHANGED <<orphans, keyLost>>
      BY <1>k, <1>4, <2>2, CommandsKeepKeys DEF Tick, TrackLoss
    <3>2. Exists(lease)
      BY <1>4, <2>2 DEF Tick, Age, Exists, NoKey, Absent
    <3> QED
      BY <1>1, <2>1, <2>2, <3>1, <3>2
  <2>3. CASE ~Exists(lease')
    <3>1. lease'.value = 0 /\ orphans' = 0
      BY <1>k, <1>4, <2>3, CommandsKeepKeys DEF Tick
    <3> QED
      BY <1>4, <2>3, <3>1 DEF Tick, TrackLoss, Emptied
  <2> QED
    BY <2>2, <2>3
<1>5. ASSUME Crash, connected
      PROVE  Kept \/ Emptied
  <2>1. UNCHANGED lease /\ TrackLoss
    BY <1>5 DEF Crash, keys
  <2>2. CASE Exists(lease)
    <3>1. /\ lease'.value = lease.value + 0
          /\ Cardinality(Holders') + orphans' = Cardinality(Holders) + orphans + 0
      BY <1>5, <1>k, <2>1, <2>2, CrashCounts
    <3> QED
      BY <1>k, <2>1, <2>2, <3>1 DEF Kept, TrackLoss
  <2>3. CASE ~Exists(lease)
    BY <1>5, <1>k, <2>1, <2>3, CrashCounts DEF Emptied, TrackLoss
  <2> QED
    BY <2>2, <2>3
<1>6. ASSUME (Crash /\ ~connected) \/ Flush \/ LoseRedis
      PROVE  Emptied
  <2>1. EmptyStore /\ TrackLoss
    BY <1>6 DEF Crash, Flush, LoseRedis
  <2> QED
    BY <2>1, EmptyStoreIsTyped DEF EmptiedIsTyped, TrackLoss, Emptied
<1>7. CASE UNCHANGED vars
  <2>1. UNCHANGED <<lease, orphans, keyLost>> /\ Holders' = Holders
    BY <1>7 DEF vars, Holders
  <2> QED
    BY <1>1, <2>1
<1> QED
  BY <1>2, <1>3, <1>4, <1>5, <1>6, <1>7 DEF Next

\* So the key does not overcount, and counts exactly until it is lost.
LEMMA LeaseStep ==
    ASSUME TypeOK, TypeOK', NeverOvercounts, CountsExactly, [Next]_vars
    PROVE  NeverOvercounts' /\ CountsExactly'
<1>0. /\ lease.value \in Int /\ orphans \in Nat /\ Cardinality(Holders) \in Nat
      /\ orphans' \in Nat
      /\ IsFiniteSet(Holders') /\ Cardinality(Holders') \in Nat
  <2>1. IsFiniteSet(Holders') /\ Cardinality(Holders') \in Nat
    BY LimitsAssumption, FS_Subset, FS_CardinalityType DEF Holders
  <2> QED
    BY <2>1, HoldersFinite DEF TypeOK, KeyOf
<1>1. CASE Kept
  <2>1. PICK d \in Int : /\ lease'.value = lease.value + d
                         /\ Cardinality(Holders') + orphans' =
                                Cardinality(Holders) + orphans + d
    BY <1>1 DEF Kept
  <2> QED
    BY <1>0, <1>1, <2>1 DEF Kept, NeverOvercounts, CountsExactly
<1>2. CASE Emptied
  <2>1. Holders' = {} => Cardinality(Holders') = 0
    BY <1>0, FS_EmptySet
  <2>2. ~keyLost' => Holders' = {}
    BY <1>2, Zenon DEF Emptied
  <2>3. /\ ~Exists(lease') /\ lease'.value = 0
        /\ orphans' = 0
    BY <1>2 DEF Emptied
  <2> QED
    BY <1>0, <2>1, <2>2, <2>3 DEF NeverOvercounts, CountsExactly
<1> QED
  BY <1>1, <1>2, LeaseMoves

-----------------------------------------------------------------------------
\* A step other than Acquire adds nothing to the key, and a history that is
\* forgotten leaves no stream.
LEMMA OtherSteps ==
    ASSUME TypeOK, [Next]_vars, \A r \in Requests : ~Acquire(r)
    PROVE  /\ overtaken' = overtaken
           /\ LiveStreams' \subseteq LiveStreams
           /\ keyLost => keyLost' \/ LiveStreams' = {}
           /\ lease'.value <= lease.value \/ lease'.value = 0
<1> USE DEF LiveStreams, Live
<1>0. /\ pc \in [Requests -> Steps] /\ keyLost \in BOOLEAN
      /\ lease \in KeyOf(Int, LeaseTtl) /\ lease.value \in Int
      /\ ~Exists(lease) => lease.value = 0
      /\ -1 \in Int /\ lease.value + (-1) <= lease.value
  BY DEF TypeOK, KeyOf
<1>l. TrackLoss => (keyLost => keyLost' \/ LiveStreams' = {})
  BY DEF TrackLoss, Holders
<1>1. ASSUME NEW r \in Requests, Check(r)
      PROVE  /\ overtaken' = overtaken /\ keyLost' = keyLost
             /\ LiveStreams' \subseteq LiveStreams
             /\ lease'.value = lease.value
  <2>1. CASE SetExpiry(r)
    <3>1. lease'.value = lease.value
      BY <1>0, <2>1, CommandsKeepKeys DEF SetExpiry
    <3> QED
      BY <1>0, <2>1, <3>1 DEF SetExpiry, Goto, history, leases
  <2>2. CASE ~SetExpiry(r)
    BY <1>0, <1>1, <2>2 DEF Check, Begin, CheckConcurrency, CountRequest,
       ExpireRequests, CountTokens, ExpireTokens, Goto, keys, history, leases
  <2> QED
    BY <2>1, <2>2
<1>2. ASSUME NEW r \in Requests, Release(r)
      PROVE  /\ overtaken' = overtaken
             /\ LiveStreams' \subseteq LiveStreams
             /\ keyLost => keyLost' \/ LiveStreams' = {}
             /\ lease'.value <= lease.value \/ lease'.value = 0
  <2>1. CASE EndStream(r)
    BY <1>0, <2>1 DEF EndStream, Goto, keys, history, leases
  <2>2. CASE ReadForRelease(r)
    BY <1>0, <1>l, <2>2 DEF ReadForRelease, Goto, keys
  <2>3. CASE DeleteLease(r)
    BY <1>0, <1>l, <2>3 DEF DeleteLease, Goto, Delete, Absent
  <2>4. CASE DecrementLease(r)
    <3>1. lease'.value = lease.value + (-1)
      BY <2>4 DEF DecrementLease, IncrBy, IncrInMap
    <3> QED
      BY <1>0, <2>4, <3>1 DEF DecrementLease, Goto, history, leases
  <2>5. CASE SetExpiryAgain(r)
    <3>1. lease'.value = lease.value
      BY <1>0, <2>5, CommandsKeepKeys DEF SetExpiryAgain
    <3> QED
      BY <1>0, <2>5, <3>1 DEF SetExpiryAgain, Goto, history, leases
  <2> QED
    BY <1>2, <2>1, <2>2, <2>3, <2>4, <2>5 DEF Release
<1>3. ASSUME Tick
      PROVE  /\ overtaken' = overtaken
             /\ LiveStreams' \subseteq LiveStreams
             /\ keyLost => keyLost' \/ LiveStreams' = {}
             /\ lease'.value <= lease.value \/ lease'.value = 0
  <2>1. lease'.value = lease.value \/ lease'.value = 0
    BY <1>0, <1>3, CommandsKeepKeys DEF Tick
  <2> QED
    BY <1>0, <1>l, <1>3, <2>1 DEF Tick
<1>4. ASSUME Crash \/ Flush \/ LoseRedis
      PROVE  /\ overtaken' = overtaken
             /\ LiveStreams' \subseteq LiveStreams
             /\ keyLost => keyLost' \/ LiveStreams' = {}
             /\ lease'.value <= lease.value \/ lease'.value = 0
  <2>1. overtaken' = overtaken /\ TrackLoss
    BY <1>4 DEF Crash, Flush, LoseRedis
  <2>2. LiveStreams' \subseteq LiveStreams
    <3>1. CASE Crash
      BY <1>0, <3>1 DEF Crash
    <3>2. CASE Flush
      BY <3>2 DEF Flush
    <3>3. CASE LoseRedis
      BY <1>0, <3>3 DEF LoseRedis, Retried
    <3> QED
      BY <1>4, <3>1, <3>2, <3>3
  <2>3. lease' = lease \/ lease'.value = 0
    <3>1. lease' = lease \/ EmptyStore
      BY <1>4 DEF Crash, Flush, LoseRedis, keys
    <3> QED
      BY <3>1 DEF EmptyStore, Absent
  <2> QED
    BY <1>0, <1>l, <2>1, <2>2, <2>3
<1>5. CASE UNCHANGED vars
  BY <1>0, <1>5 DEF vars
<1> QED
  BY <1>0, <1>1, <1>2, <1>3, <1>4, <1>5 DEF Next

\* Who has found room and was not overtaken still has it.
LEMMA RoomStep ==
    ASSUME TypeOK, TypeOK', CheckedRoom, [Next]_vars
    PROVE  CheckedRoom'
<1> SUFFICES ASSUME NEW r \in Requests, r \notin overtaken', pc'[r] \in Checked
             PROVE  lease'.value < MaxConcurrent
  BY DEF CheckedRoom
<1>0. /\ pc \in [Requests -> Steps]
      /\ lease.value \in Int /\ lease'.value \in Int
      /\ MaxConcurrent \in Nat /\ 0 < MaxConcurrent
  BY LimitsAssumption DEF TypeOK, KeyOf
<1>1. ASSUME NEW q \in Requests, Acquire(q)
      PROVE  FALSE
  <2>1. pc'[r] = pc[r] /\ r # q
    BY <1>0, <1>1 DEF Acquire, Goto, Checked
  <2> QED
    BY <1>1, <2>1 DEF Acquire
<1>2. CASE CheckConcurrency(r)
  <2>1. lease.value < MaxConcurrent /\ lease' = lease
    BY <1>0, <1>2 DEF CheckConcurrency, Goto, Checked, keys
  <2> QED
    BY <1>0, <2>1
<1>3. CASE /\ ~CheckConcurrency(r)
           /\ \A q \in Requests : ~Acquire(q)
  <2>1. /\ overtaken' = overtaken
        /\ lease'.value <= lease.value \/ lease'.value = 0
    BY <1>3, OtherSteps
  <2>2. pc[r] \in Checked \/ lease'.value = 0
    <3>1. ASSUME NEW q \in Requests, Check(q) \/ Release(q)
          PROVE  pc[r] \in Checked
      BY <1>0, <1>3, <3>1 DEF Check, Release, Begin, CheckConcurrency, CountRequest,
         ExpireRequests, CountTokens, ExpireTokens, SetExpiry, EndStream,
         ReadForRelease, DeleteLease, DecrementLease, SetExpiryAgain, Goto, Checked
    <3>2. ASSUME Tick \/ Flush \/ Crash
          PROVE  pc[r] \in Checked
      BY <1>0, <3>2 DEF Tick, Flush, Crash, Checked
    <3>3. ASSUME LoseRedis
          PROVE  lease'.value = 0
      BY <3>3 DEF LoseRedis, EmptyStore, Absent
    <3> QED
      BY <3>1, <3>2, <3>3 DEF Next, vars
  <2> QED
    BY <1>0, <2>1, <2>2 DEF CheckedRoom
<1> QED
  BY <1>1, <1>2, <1>3

\* The streams that were not overtaken stay within the limit.
LEMMA ExceedStep ==
    ASSUME TypeOK, TypeOK', CountsExactly, CheckedRoom, OnlyOvertakenExceed, [Next]_vars
    PROVE  OnlyOvertakenExceed'
<1>0. /\ \A S \in SUBSET Requests : IsFiniteSet(S) /\ Cardinality(S) \in Nat
      /\ \A S, T \in SUBSET Requests : S \subseteq T => Cardinality(S) <= Cardinality(T)
      /\ LiveStreams \subseteq Requests /\ LiveStreams' \subseteq Requests
      /\ MaxConcurrent \in Nat /\ 0 < MaxConcurrent
  BY LimitsAssumption, FS_Subset, FS_CardinalityType DEF LiveStreams
<1>1. ASSUME \A r \in Requests : ~Acquire(r)
      PROVE  OnlyOvertakenExceed'
  <2>1. /\ LiveStreams' \ overtaken' \subseteq LiveStreams \ overtaken
        /\ keyLost => keyLost' \/ LiveStreams' = {}
    BY <1>1, OtherSteps
  <2>2. Cardinality(LiveStreams' \ overtaken') <= Cardinality(LiveStreams \ overtaken)
    BY <1>0, <2>1
  <2>3. LiveStreams' = {} => Cardinality(LiveStreams' \ overtaken') = 0
    BY FS_EmptySet
  <2>4. /\ Cardinality(LiveStreams' \ overtaken') \in Nat
        /\ Cardinality(LiveStreams \ overtaken) \in Nat
    BY <1>0
  <2> QED
    BY <1>0, <2>1, <2>2, <2>3, <2>4 DEF OnlyOvertakenExceed
<1>2. ASSUME NEW r \in Requests, Acquire(r)
      PROVE  OnlyOvertakenExceed'
  <2>1. /\ pc[r] = "acquire" /\ keyLost' = keyLost
        /\ overtaken \subseteq overtaken'
        /\ overtaken' \subseteq overtaken \cup (Requests \ {r})
        /\ LiveStreams' = LiveStreams \cup {r}
        /\ \E step \in Live : Goto(r, step)
    BY <1>2 DEF Acquire, TypeOK, LiveStreams, Live, Goto
  <2>2. CASE r \in overtaken
    <3>1. LiveStreams' \ overtaken' \subseteq LiveStreams \ overtaken
      BY <2>1, <2>2
    <3>2. Cardinality(LiveStreams' \ overtaken') <= Cardinality(LiveStreams \ overtaken)
      BY <1>0, <3>1
    <3>3. /\ Cardinality(LiveStreams' \ overtaken') \in Nat
          /\ Cardinality(LiveStreams \ overtaken) \in Nat
      BY <1>0
    <3> QED
      BY <1>0, <2>1, <3>2, <3>3 DEF OnlyOvertakenExceed
  <2>3. CASE r \notin overtaken /\ ~keyLost
    <3>1. lease.value < MaxConcurrent
      BY <2>1, <2>3 DEF CheckedRoom, Checked
    <3>2. Cardinality(Holders') = Cardinality(Holders) + 1
      BY <2>1, HolderJoins DEF Live, Releasing
    <3>3. lease.value = Cardinality(Holders) + orphans /\ orphans \in Nat
      BY <2>3 DEF CountsExactly, TypeOK
    <3>4. LiveStreams' \ overtaken' \subseteq Holders' /\ Holders' \subseteq Requests
      BY DEF LiveStreams, Holders
    <3>5. Cardinality(LiveStreams' \ overtaken') <= Cardinality(Holders')
      BY <1>0, <3>4
    <3>6. /\ Cardinality(LiveStreams' \ overtaken') \in Nat
          /\ Cardinality(Holders') \in Nat /\ Cardinality(Holders) \in Nat
      BY <1>0, <3>4, HoldersFinite
    <3> QED
      BY <1>0, <3>1, <3>2, <3>3, <3>5, <3>6 DEF OnlyOvertakenExceed
  <2>4. CASE keyLost
    BY <2>1, <2>4 DEF OnlyOvertakenExceed
  <2> QED
    BY <2>2, <2>3, <2>4
<1> QED
  BY <1>1, <1>2

-----------------------------------------------------------------------------
\* The invariant holds at first.
LEMMA InitIInv == Init => IInv
<1> SUFFICES ASSUME Init
             PROVE  IInv
  OBVIOUS
<1> USE LimitsAssumption DEF Init
<1>1. MinuteOf(0) \in Minutes /\ MinuteOf(0) * TicksPerMinute <= 0
  BY ClockNamesMinute, MinuteBegun
<1>2. /\ Absent \in KeyOf(Int, LeaseTtl) /\ Absent \in KeyOf(Nat, WindowTtl)
      /\ ~Exists(Absent) /\ Absent.value = 0 /\ Absent.ttl = NoKey
      /\ NothingPassed \in Passed
      /\ NothingPassed.within = 0 /\ NothingPassed.late = 0
  BY DEF Absent, KeyOf, Exists, NoKey, Passed, NothingPassed
<1>3. TypeOK
  <2>1. /\ lease \in KeyOf(Int, LeaseTtl)
        /\ ~Exists(lease) => lease.value = 0
    BY <1>2
  <2>2. /\ rpm \in [Minutes -> KeyOf(Nat, WindowTtl)]
        /\ tpm \in [Minutes -> KeyOf(Nat, WindowTtl)]
        /\ \A m \in Minutes : rpm[m].value = 0 /\ tpm[m].value = 0
        /\ passed \in [Minutes -> Passed] /\ granted \in [Minutes -> Passed]
    BY <1>2
  <2>3. /\ pc \in [Requests -> Steps]
        /\ window \in [Requests -> Minutes]
    BY <1>1 DEF Steps
  <2>4. faults \in [crashes : 0..MaxCrashes, flushes : 0..MaxFlushes]
    OBVIOUS
  <2>5. now \in 0..MaxTick /\ orphans \in Nat /\ overtaken \subseteq Requests
    OBVIOUS
  <2>6. connected \in BOOLEAN /\ keyLost \in BOOLEAN
    BY Zenon
  <2> HIDE DEF Init
  <2> QED
    BY <2>1, <2>2, <2>3, <2>4, <2>5, <2>6 DEF TypeOK
<1>4. WindowBounds /\ WindowsCounted /\ WindowsBegun
  BY <1>1, <1>2 DEF WindowBounds, WindowsCounted, WindowsBegun, Counts, StaysOpen, Total
<1>5. Holders = {} /\ LiveStreams = {} /\ Cardinality({}) = 0
  BY FS_EmptySet DEF Holders, LiveStreams, Live, Releasing
<1>6. NeverOvercounts /\ CountsExactly
  BY <1>2, <1>5 DEF NeverOvercounts, CountsExactly
<1>7. CheckedRoom /\ OnlyOvertakenExceed
  <2>1. LiveStreams \ overtaken = {}
    BY <1>5
  <2> QED
    BY <1>5, <2>1 DEF CheckedRoom, OnlyOvertakenExceed, Checked
<1> QED
  BY <1>3, <1>4, <1>6, <1>7 DEF IInv

\* IInv is an invariant of the limiter.
THEOREM Invariance == Spec => []IInv
<1>1. IInv /\ [Next]_vars => IInv'
  BY TypeStep, BegunStep, WindowStep, LeaseStep, RoomStep, ExceedStep DEF IInv
<1> QED
  BY InitIInv, <1>1, PTL DEF Spec

\* What passes on a minute's keys in time is within the rpm and the tpm limit.
THEOREM WindowsAlwaysBounded == Spec => []WindowBounds
<1>1. IInv => WindowBounds
  BY DEF IInv
<1> QED
  BY Invariance, <1>1, PTL

\* The concurrency key never overcounts.
THEOREM LeaseNeverOvercounts == Spec => []NeverOvercounts
<1>1. IInv => NeverOvercounts
  BY DEF IInv
<1> QED
  BY Invariance, <1>1, PTL

\* Streams above the concurrency limit were overtaken, or the key was lost.
THEOREM OvertakenOnlyExceed == Spec => []OnlyOvertakenExceed
<1>1. IInv => OnlyOvertakenExceed
  BY DEF IInv
<1> QED
  BY Invariance, <1>1, PTL
=============================================================================
