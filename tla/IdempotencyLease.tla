-------------------------- MODULE IdempotencyLease --------------------------
(***************************************************************************)
(* RetryPolicy.acquireIdempotencyLease (application/resilience/retry.ts)   *)
(* and its use by POST /api/chat (routes/chat.ts 54-63), for the attempts  *)
(* a client makes with one idempotency key.                                *)
(*                                                                         *)
(* The lease is a GET followed by a SET, two awaited commands; nothing     *)
(* ever removes the key but its expiry and a flush, so the lease outlives  *)
(* a failed, rejected or crashed attempt and may expire before a slow one  *)
(* ends.                                                                   *)
(***************************************************************************)
EXTENDS RedisKey, FiniteSets

CONSTANTS Attempts,     \* requests carrying the key, each made once
          LeaseTtl,     \* ttlSeconds (60), in ticks
          MaxFlushes    \* flush_cache commands in a behaviour

ASSUME AttemptsAssumption ==
    /\ IsFiniteSet(Attempts)
    /\ LeaseTtl \in Nat \ {0}
    /\ MaxFlushes \in Nat

VARIABLES pc,        \* where each attempt is
          lease,     \* the key idempotency:<key>
          flushes,   \* flush_cache commands so far
          age        \* history: ticks since each attempt's SET, if it has
                     \* been made since the last flush and is LeaseTtl ago at most

vars == <<pc, lease, flushes, age>>

NotStarted == -1
Processing == 1    \* the value 'processing'

TypeOK ==
    /\ pc \in [Attempts -> {"idle", "get", "set", "running", "ended", "conflict"}]
    /\ lease \in KeyOf({0, Processing}, LeaseTtl)
    /\ flushes \in 0..MaxFlushes
    /\ age \in [Attempts -> NotStarted..LeaseTtl]

Init ==
    /\ pc = [a \in Attempts |-> "idle"]
    /\ lease = Absent
    /\ flushes = 0
    /\ age = [a \in Attempts |-> NotStarted]

Goto(a, step) == pc' = [pc EXCEPT ![a] = step]

\* The request arrives and passes validation.
Arrive(a) ==
    /\ pc[a] = "idle"
    /\ Goto(a, "get")
    /\ UNCHANGED <<lease, flushes, age>>

\* GET: an existing key, whoever set it and whatever became of it, is
\* answered with 409.
Get(a) ==
    /\ pc[a] = "get"
    /\ Goto(a, IF Exists(lease) THEN "conflict" ELSE "set")
    /\ UNCHANGED <<lease, flushes, age>>

SetWithoutExpiry(a) ==
    /\ pc[a] = "set"
    /\ lease' = [value |-> Processing, ttl |-> NoExpiry]
    /\ age' = [age EXCEPT ![a] = 0]
    /\ Goto(a, "running")
    /\ UNCHANGED flushes

SetOnlyOnce(a) ==
    /\ pc[a] = "set"
    /\ lease' = IF Exists(lease) THEN lease ELSE SetEx(lease, Processing, LeaseTtl)
    /\ age' = [age EXCEPT ![a] = 0]
    /\ Goto(a, "running")
    /\ UNCHANGED flushes

\* SET ... EX, over whatever is there by now; then the handler goes on.
Set(a) ==
    /\ pc[a] = "set"
    /\ lease' = SetEx(lease, Processing, LeaseTtl)
    /\ age' = [age EXCEPT ![a] = 0]
    /\ Goto(a, "running")
    /\ UNCHANGED flushes

\* The attempt ends: a stream, a 429, an error, a disconnect or a crash.
\* None of them touches the lease.
End(a) ==
    /\ pc[a] = "running"
    /\ Goto(a, "ended")
    /\ UNCHANGED <<lease, flushes, age>>

Tick ==
    /\ lease' = Age(lease)
    /\ age' = [a \in Attempts |->
                 IF age[a] \in 0..(LeaseTtl - 1) THEN age[a] + 1 ELSE age[a]]
    /\ UNCHANGED <<pc, flushes>>

Flush ==
    /\ flushes < MaxFlushes
    /\ flushes' = flushes + 1
    /\ lease' = Absent
    /\ age' = [a \in Attempts |-> NotStarted]
    /\ UNCHANGED pc

Next ==
    \/ \E a \in Attempts : Arrive(a) \/ Get(a) \/ Set(a) \/ End(a)
    \/ Tick
    \/ Flush

Spec == Init /\ [][Next]_vars

\* Time passes and a request under way sends its next command.
FairSpec ==
    /\ Spec
    /\ WF_vars(Tick)
    /\ \A a \in Attempts : WF_vars(Get(a) \/ Set(a))

-----------------------------------------------------------------------------
\* The attempts whose 60 seconds are not over.
Recent == {a \in Attempts : age[a] \in 0..(LeaseTtl - 1)}

\* The key is there exactly while some attempt set it less than LeaseTtl ago
\* (and no flush since), racing attempts included: so a duplicate is answered
\* 409 if and only if an attempt was let through that recently, finished or
\* not.
LeaseCoversRecent == Exists(lease) <=> Recent # {}

\* What makes it inductive: the key expires with the youngest of them.
LeaseOfYoungest ==
    /\ \A a \in Recent : lease.ttl >= LeaseTtl - age[a]
    /\ Exists(lease) => \E a \in Recent : lease.ttl = LeaseTtl - age[a]

\* A key never blocks its client for ever.
KeyIsFreed == Exists(lease) ~> ~Exists(lease)

-----------------------------------------------------------------------------
\* A claim the code does not keep: "Redis atomic lease idempotency:<key>
\* rejecting duplicate concurrent retries with HTTP 409"
\* (docs/claims-audit.md:19).
AtMostOneRunning == Cardinality({a \in Attempts : pc[a] = "running"}) <= 1
=============================================================================
