----------------------------- MODULE RateLimiter -----------------------------
(***************************************************************************)
(* RateLimiter.checkAndAcquire and releaseConcurrency                      *)
(* (modules/ratelimit/rate-limiter.ts) for the requests of one user, on a  *)
(* Redis shared by the gateways, or on the map of RedisCacheService in the *)
(* one gateway that cannot reach Redis.  Every key carries the user's id,  *)
(* so users do not interact.                                               *)
(*                                                                         *)
(* Each await is a step boundary: a request is a program counter over the  *)
(* commands it sends, and the commands of different requests interleave    *)
(* freely, with any time between two of one request.  Time is counted in   *)
(* ticks, TicksPerMinute to a minute.  The clock stops at MaxTick, which   *)
(* stands for any later time, while the keys go on ageing.                 *)
(*                                                                         *)
(* On the map the get and the set of incrBy are one step: the promises     *)
(* they await are settled, so no other request runs in between.            *)
(***************************************************************************)
EXTENDS RedisKey, FiniteSets

CONSTANTS Requests,         \* the requests of a behaviour, each made once
          Tokens,           \* estimatedTokens of each request
          MaxConcurrent,    \* the user's maxConcurrentRequests
          RpmLimit,         \* the user's rpmLimit
          TpmLimit,         \* the user's tpmLimit
          LeaseTtl,         \* expiry of the concurrency key (120 s), in ticks
          WindowTtl,        \* expiry of the window keys (65 s), in ticks
          TicksPerMinute,
          MaxTick,          \* when the clock stops
          MaxCrashes,       \* gateway crashes in a behaviour
          MaxFlushes        \* flush_cache commands in a behaviour

ASSUME LimitsAssumption ==
    /\ IsFiniteSet(Requests)
    /\ Tokens \in [Requests -> Nat]
    /\ MaxConcurrent \in Nat \ {0}
    /\ RpmLimit \in Nat \ {0}
    /\ TpmLimit \in Nat \ {0}
    /\ LeaseTtl \in Nat \ {0}
    /\ WindowTtl \in Nat \ {0}
    /\ TicksPerMinute \in Nat \ {0}
    /\ MaxTick \in Nat
    /\ MaxCrashes \in Nat
    /\ MaxFlushes \in Nat

VARIABLES pc,         \* the command each request sends next
          window,     \* nowMinute of each request
          lease,      \* the key ratelimit:concurrent:<user>
          rpm, tpm,   \* the keys ratelimit:rpm / tpm:<user>:<minute>
          now,        \* the clock
          connected,  \* redis.isConnected, and the connection has not ended
          faults,     \* crashes and flushes so far
          passed,     \* history: requests let through and tokens granted,
          granted,    \* per minute whose keys were read: see WindowBounds
          orphans,    \* history: leases in the key whose gateway crashed
          overtaken,  \* history: requests that others were admitted before,
                      \* after their own check of the concurrency key
          keyLost     \* history: the key went while leases were held

vars == <<pc, window, lease, rpm, tpm, now, connected, faults,
          passed, granted, orphans, overtaken, keyLost>>

keys    == <<lease, rpm, tpm>>
passes  == <<passed, granted>>
leases  == <<orphans, overtaken, keyLost>>
history == <<passes, leases>>
world   == <<now, connected, faults>>

MinuteOf(t) == t \div TicksPerMinute
Minutes == {MinuteOf(t) : t \in 0..MaxTick}

Checked   == {"rpm", "rpmExpire", "tpm", "tpmExpire", "acquire"}
Checking  == {"concurrency"} \cup Checked
Live      == {"expire", "streaming"}
Releasing == {"release", "delete", "decrement"}
Ended     == {"done", "rejected", "crashed"}
Steps     == {"idle", "expireAgain"} \cup Checking \cup Live \cup Releasing \cup Ended

\* The requests that have put their unit in the key and not taken it back.
Holders     == {r \in Requests : pc[r] \in Live \cup Releasing}
LiveStreams == {r \in Requests : pc[r] \in Live}

\* What passed in the minute whose keys it was counted in, and after it.
Passed == [within : Nat, late : Nat]
NothingPassed == [within |-> 0, late |-> 0]

TypeOK ==
    /\ pc \in [Requests -> Steps]
    /\ window \in [Requests -> Minutes]
    /\ lease \in KeyOf(Int, LeaseTtl)
    /\ ~Exists(lease) => lease.value = 0
    /\ rpm \in [Minutes -> KeyOf(Nat, WindowTtl)]
    /\ tpm \in [Minutes -> KeyOf(Nat, WindowTtl)]
    /\ \A m \in Minutes : /\ ~Exists(rpm[m]) => rpm[m].value = 0
                          /\ ~Exists(tpm[m]) => tpm[m].value = 0
    /\ now \in 0..MaxTick
    /\ connected \in BOOLEAN
    /\ faults \in [crashes : 0..MaxCrashes, flushes : 0..MaxFlushes]
    /\ passed \in [Minutes -> Passed]
    /\ granted \in [Minutes -> Passed]
    /\ orphans \in Nat
    /\ overtaken \subseteq Requests
    /\ keyLost \in BOOLEAN

Init ==
    /\ pc = [r \in Requests |-> "idle"]
    /\ window = [r \in Requests |-> MinuteOf(0)]
    /\ lease = Absent
    /\ rpm = [m \in Minutes |-> Absent]
    /\ tpm = [m \in Minutes |-> Absent]
    /\ now = 0
    /\ connected \in BOOLEAN
    /\ faults = [crashes |-> 0, flushes |-> 0]
    /\ passed = [m \in Minutes |-> NothingPassed]
    /\ granted = [m \in Minutes |-> NothingPassed]
    /\ orphans = 0
    /\ overtaken = {}
    /\ keyLost = FALSE

-----------------------------------------------------------------------------
(* checkAndAcquire *)

Goto(r, step) == pc' = [pc EXCEPT ![r] = step]

\* getUser, then nowMinute and the names of the keys.
Begin(r) ==
    /\ pc[r] = "idle"
    /\ window' = [window EXCEPT ![r] = MinuteOf(now)]
    /\ Goto(r, "concurrency")
    /\ UNCHANGED <<keys, world, history>>

CheckConcurrencyAllowingOneMore(r) ==
    /\ pc[r] = "concurrency"
    /\ Goto(r, IF lease.value > MaxConcurrent THEN "rejected" ELSE "rpm")
    /\ UNCHANGED <<window, keys, world, history>>

\* GET the concurrency key; a missing key counts as 0.
CheckConcurrency(r) ==
    /\ pc[r] = "concurrency"
    /\ Goto(r, IF lease.value >= MaxConcurrent THEN "rejected" ELSE "rpm")
    /\ UNCHANGED <<window, keys, world, history>>

\* incrBy of a window key, up to its EXPIRE, which only the increment goes on
\* to that finds no count (val === amount).  On the map each renews the expiry.
Counted(k, n) ==
    IF connected THEN IncrBy(k, n) ELSE IncrInMap(k, n, WindowTtl)

\* A key of minute m that has been counted in is there until then: it is made
\* in its minute at the earliest.
Closes(m) == m * TicksPerMinute + WindowTtl
InTime(m) == now < MaxTick /\ now < Closes(m)

\* The history of what passes on the keys of minute m while they are there.
Pass(sofar, m, n) ==
    IF ~InTime(m) THEN sofar
    ELSE IF MinuteOf(now) = m THEN [sofar EXCEPT ![m].within = @ + n]
    ELSE [sofar EXCEPT ![m].late = @ + n]

\* INCRBY the rpm window, and reject when the result is over the limit; a
\* rejected request has been counted all the same.
CountRequest(r) ==
    LET key == Counted(rpm[window[r]], 1)
        allowed == key.value <= RpmLimit
    IN  /\ pc[r] = "rpm"
        /\ rpm' = [rpm EXCEPT ![window[r]] = key]
        /\ Goto(r, IF connected /\ key.value = 1 THEN "rpmExpire"
                   ELSE IF allowed THEN "tpm" ELSE "rejected")
        /\ passed' = IF allowed THEN Pass(passed, window[r], 1) ELSE passed
        /\ UNCHANGED <<window, lease, tpm, world, granted, leases>>

ExpireRequestsEarly(r) ==
    /\ pc[r] = "rpmExpire"
    /\ rpm' = [rpm EXCEPT ![window[r]] = Expire(@, TicksPerMinute)]
    /\ Goto(r, "tpm")
    /\ UNCHANGED <<window, lease, tpm, world, history>>

ExpireRequests(r) ==
    /\ pc[r] = "rpmExpire"
    /\ rpm' = [rpm EXCEPT ![window[r]] = Expire(@, WindowTtl)]
    /\ Goto(r, "tpm")
    /\ UNCHANGED <<window, lease, tpm, world, history>>

\* INCRBY the tpm window by the estimate, likewise.
CountTokens(r) ==
    LET key == Counted(tpm[window[r]], Tokens[r])
        allowed == key.value <= TpmLimit
    IN  /\ pc[r] = "tpm"
        /\ tpm' = [tpm EXCEPT ![window[r]] = key]
        /\ Goto(r, IF connected /\ key.value = Tokens[r] THEN "tpmExpire"
                   ELSE IF allowed THEN "acquire" ELSE "rejected")
        /\ granted' = IF allowed THEN Pass(granted, window[r], Tokens[r]) ELSE granted
        /\ UNCHANGED <<window, lease, rpm, world, passed, leases>>

ExpireTokens(r) ==
    /\ pc[r] = "tpmExpire"
    /\ tpm' = [tpm EXCEPT ![window[r]] = Expire(@, WindowTtl)]
    /\ Goto(r, IF Tokens[r] <= TpmLimit THEN "acquire" ELSE "rejected")
    /\ UNCHANGED <<window, lease, rpm, world, history>>

\* INCRBY the concurrency key; only the increment that made it 1 goes on to
\* EXPIRE.
Acquire(r) ==
    /\ pc[r] = "acquire"
    /\ \/ /\ connected
          /\ lease' = IncrBy(lease, 1)
          /\ Goto(r, IF lease'.value = 1 THEN "expire" ELSE "streaming")
       \/ /\ ~connected
          /\ lease' = IncrInMap(lease, 1, LeaseTtl)
          /\ Goto(r, "streaming")
    /\ overtaken' = overtaken \cup {q \in Requests \ {r} : pc[q] \in Checked}
    /\ UNCHANGED <<window, rpm, tpm, world, passes, orphans, keyLost>>

SetExpiry(r) ==
    /\ pc[r] = "expire"
    /\ lease' = Expire(lease, LeaseTtl)
    /\ Goto(r, "streaming")
    /\ UNCHANGED <<window, rpm, tpm, world, history>>

-----------------------------------------------------------------------------
(* releaseConcurrency *)

\* The history of the key's losses: while there is no key, the leases that
\* are held are not counted, nor are they in the key that comes next.
TrackLoss == keyLost' = IF Exists(lease') THEN keyLost ELSE Holders' # {}

EndStream(r) ==
    /\ pc[r] = "streaming"
    /\ Goto(r, "release")
    /\ UNCHANGED <<window, keys, world, history>>

ReadForReleaseIgnoringRest(r) ==
    /\ pc[r] = "release"
    /\ Goto(r, IF Exists(lease) /\ lease.value <= 1 THEN "delete" ELSE "done")
    /\ UNCHANGED <<window, keys, world, passes, orphans, overtaken>>
    /\ TrackLoss

\* GET the key: nothing to do when it is gone, DEL it for the last lease,
\* else INCRBY -1, in a later step.
ReadForRelease(r) ==
    /\ pc[r] = "release"
    /\ Goto(r, IF ~Exists(lease) THEN "done"
               ELSE IF lease.value <= 1 THEN "delete" ELSE "decrement")
    /\ UNCHANGED <<window, keys, world, passes, orphans, overtaken>>
    /\ TrackLoss

DeleteLease(r) ==
    /\ pc[r] = "delete"
    /\ lease' = Delete(lease)
    /\ orphans' = 0
    /\ Goto(r, "done")
    /\ UNCHANGED <<window, rpm, tpm, world, passes, overtaken>>
    /\ TrackLoss

\* The key may have gone since it was read: then it becomes -1, which is
\* again val === amount, and gets an expiry.
DecrementLease(r) ==
    /\ pc[r] = "decrement"
    /\ \/ /\ connected
          /\ lease' = IncrBy(lease, -1)
          /\ Goto(r, IF lease'.value = -1 THEN "expireAgain" ELSE "done")
       \/ /\ ~connected
          /\ lease' = IncrInMap(lease, -1, LeaseTtl)
          /\ Goto(r, "done")
    /\ UNCHANGED <<window, rpm, tpm, world, history>>

SetExpiryAgain(r) ==
    /\ pc[r] = "expireAgain"
    /\ lease' = Expire(lease, LeaseTtl)
    /\ Goto(r, "done")
    /\ UNCHANGED <<window, rpm, tpm, world, history>>

-----------------------------------------------------------------------------
(* The environment *)

\* A minute's history is forgotten when its keys may be gone.
Forget(sofar) == [m \in Minutes |-> IF InTime(m)' THEN sofar[m] ELSE NothingPassed]

Tick ==
    /\ now' = IF now < MaxTick THEN now + 1 ELSE now
    /\ lease' = Age(lease)
    /\ rpm' = [m \in Minutes |-> Age(rpm[m])]
    /\ tpm' = [m \in Minutes |-> Age(tpm[m])]
    /\ passed' = Forget(passed)
    /\ granted' = Forget(granted)
    /\ orphans' = IF Exists(lease') THEN orphans ELSE 0
    /\ UNCHANGED <<pc, window, connected, faults, overtaken>>
    /\ TrackLoss

\* A store with nothing in it takes the place of the one in use.
EmptyStore ==
    /\ lease' = Absent
    /\ rpm' = [m \in Minutes |-> Absent]
    /\ tpm' = [m \in Minutes |-> Absent]
    /\ passed' = [m \in Minutes |-> NothingPassed]
    /\ granted' = [m \in Minutes |-> NothingPassed]
    /\ orphans' = 0

\* A gateway goes down: its requests are gone, the keys stay in Redis, and
\* the map goes with its gateway, where all the requests on it are.
Crash ==
    LET Running == {r \in Requests : pc[r] \notin {"idle"} \cup Ended}
    IN  /\ faults.crashes < MaxCrashes
        /\ faults' = [faults EXCEPT !.crashes = @ + 1]
        /\ \E down \in SUBSET Running :
            /\ pc' = [r \in Requests |-> IF r \in down THEN "crashed" ELSE pc[r]]
            /\ \/ /\ connected
                  /\ orphans' = IF Exists(lease)
                                THEN orphans + Cardinality(Holders \cap down) ELSE 0
                  /\ UNCHANGED <<keys, passes>>
               \/ ~connected /\ down = Running /\ EmptyStore
        /\ UNCHANGED <<window, now, connected, overtaken>>
        /\ TrackLoss

\* flush_cache of POST /api/simulate-failure: FLUSHALL, and the map is cleared.
Flush ==
    /\ faults.flushes < MaxFlushes
    /\ faults' = [faults EXCEPT !.flushes = @ + 1]
    /\ EmptyStore
    /\ UNCHANGED <<pc, window, now, connected, overtaken>>
    /\ TrackLoss

\* Where an incrBy begins again whose EXPIRE throws.
Retried ==
    [rpmExpire |-> "rpm", tpmExpire |-> "tpm",
     expire |-> "acquire", expireAgain |-> "decrement"]

\* The connection to Redis ends, for good (retryStrategy): every command from
\* now on throws and goes to the map instead, and an incrBy that was at its
\* EXPIRE begins again there.
LoseRedis ==
    /\ connected
    /\ connected' = FALSE
    /\ pc' = [r \in Requests |->
                IF pc[r] \in DOMAIN Retried THEN Retried[pc[r]] ELSE pc[r]]
    /\ EmptyStore
    /\ UNCHANGED <<window, now, faults, overtaken>>
    /\ TrackLoss

Check(r) ==
    \/ Begin(r) \/ CheckConcurrency(r)
    \/ CountRequest(r) \/ ExpireRequests(r)
    \/ CountTokens(r) \/ ExpireTokens(r)
    \/ Acquire(r) \/ SetExpiry(r)

Release(r) ==
    \/ EndStream(r) \/ ReadForRelease(r) \/ DeleteLease(r)
    \/ DecrementLease(r) \/ SetExpiryAgain(r)

Next ==
    \/ \E r \in Requests : Check(r) \/ Release(r)
    \/ Tick
    \/ Crash
    \/ Flush
    \/ LoseRedis

Spec == Init /\ [][Next]_vars

\* Time passes and a running gateway carries on with its requests.
FairSpec ==
    /\ Spec
    /\ WF_vars(Tick)
    /\ \A r \in Requests : WF_vars(Check(r) \/ Release(r))

-----------------------------------------------------------------------------
\* Of the requests that took a minute's keys, no more than rpmLimit pass and
\* no more than tpmLimit tokens are granted, however their commands interleave
\* and also when they come after the minute is over, for as long as they come
\* within 65 s of its beginning (and counting from the last flush or the loss
\* of Redis).
WindowBounds ==
    \A m \in Minutes :
        /\ passed[m].within + passed[m].late <= RpmLimit
        /\ granted[m].within + granted[m].late <= TpmLimit

\* The key never counts more than the leases held and those a crash
\* orphaned: lost races, expiry, flushes and the loss of Redis only undercount.
NeverOvercounts == lease.value <= Cardinality(Holders) + orphans

\* The check is three commands and more before the increment, so a user may
\* have more streams than the limit; but each of them too many is one that
\* was overtaken between the two, or the key went while leases were held (it
\* expired, was deleted by a release that had read it before, or was flushed).
OnlyOvertakenExceed ==
    keyLost \/ Cardinality(LiveStreams \ overtaken) <= MaxConcurrent

\* When the expiry is in place, orphaned leases go away with it, although
\* the requests of other gateways go on incrementing and decrementing the key.
OrphansExpire ==
    (orphans > 0 /\ lease.ttl # NoExpiry) ~> (orphans = 0)

-----------------------------------------------------------------------------
\* Claims the code does not keep.

\* "Rate limits and active concurrency are strictly enforced cluster-wide"
\* (architecture/decisions/ADR-003-redis.md:28).
StrictConcurrency == Cardinality(LiveStreams) <= MaxConcurrent

\* "Distributed Sliding Window Rate Limiting (RPM, TPM, Concurrency)"
\* (architecture/decisions/ADR-003-redis.md:11; docs/claims-audit.md:14): no 60
\* seconds see more requests than rpmLimit.
SlidingWindow ==
    \A m \in Minutes \ {0} : passed[m].within + passed[m - 1].late <= RpmLimit

\* "TTL safety fallback 120s" (rate-limiter.ts:88): an orphaned lease goes
\* away by itself.
OrphansAlwaysExpire == (orphans > 0) ~> (orphans = 0)
=============================================================================
