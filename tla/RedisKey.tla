------------------------------ MODULE RedisKey ------------------------------
(***************************************************************************)
(* One key of RedisCacheService (redis/index.ts): a value and a time to    *)
(* live, with the two special values the TTL command itself has.  Each     *)
(* operator is one Redis command and therefore atomic; get-then-set and    *)
(* incrBy's INCRBY-then-EXPIRE are two commands and two steps of whoever   *)
(* issues them.  The map that stands in for Redis drops an entry when it   *)
(* is read after its expiry, which nobody can tell from dropping it then.  *)
(***************************************************************************)
EXTENDS Integers

NoKey    == -2    \* the key does not exist
NoExpiry == -1    \* it exists and never expires

KeyOf(values, maxTtl) == [value : values, ttl : NoKey..maxTtl]

Absent == [value |-> 0, ttl |-> NoKey]

Exists(k) == k.ttl # NoKey

\* SET key value EX ttl
SetEx(k, v, ttl) == [value |-> v, ttl |-> ttl]

\* DEL key
Delete(k) == Absent

IncrByDroppingTtl(k, n) == [value |-> k.value + n, ttl |-> NoExpiry]

\* INCRBY creates a missing key, without an expiry, and keeps the expiry of
\* an existing one.
IncrBy(k, n) ==
    [value |-> k.value + n,
     ttl   |-> IF Exists(k) THEN k.ttl ELSE NoExpiry]

\* incrBy on the map: a get, an addition and a set that renews the expiry.
IncrInMap(k, n, ttl) == [value |-> k.value + n, ttl |-> ttl]

\* EXPIRE has no effect on a missing key.
Expire(k, ttl) == IF Exists(k) THEN [k EXCEPT !.ttl = ttl] ELSE k

\* Time passing by one unit.
Age(k) ==
    IF k.ttl > 1 THEN [k EXCEPT !.ttl = @ - 1]
    ELSE IF k.ttl \in {0, 1} THEN Absent
    ELSE k
=============================================================================
