----------------------------- MODULE ChatGateway -----------------------------
(***************************************************************************)
(* The handler of POST /api/chat (routes/chat.ts): the requests of one     *)
(* user through the idempotency lease, the rate limiter, the model router  *)
(* and its breakers, the conversation store, the statistics and the        *)
(* stream, with clients that may leave at any moment.                      *)
(*                                                                         *)
(* The components are the modules IdempotencyLease, RateLimiter and        *)
(* ModelRouter, instantiated: an action of the handler takes the action of *)
(* the component it calls and leaves the other components alone.  "phase"  *)
(* is the await each request is at.                                        *)
(***************************************************************************)
EXTENDS Integers, Sequences, FiniteSets

CONSTANTS Requests,        \* the requests of a behaviour
          Keyed,           \* those that carry the (same) idempotency key
          Threads,         \* conversation ids
          Malformed,       \* those that no HTTP header may carry
          Named,           \* the ids each request may be for
          Fresh,           \* requests without a conversationId
          AllowAbort,      \* whether clients may leave
          Tokens, MaxConcurrent, RpmLimit, TpmLimit,      \* rate limiter
          StreamTtl, WindowTtl, TicksPerMinute, MaxTick,
          KeyTtl,                                         \* idempotency
          Registry, Requested, MaxOperatorActions,        \* router
          FailureThreshold, ResetTimeout, SuccessThreshold

ASSUME GatewayAssumption ==
    /\ IsFiniteSet(Requests)
    /\ Keyed \subseteq Requests
    /\ Fresh \subseteq Requests
    /\ Named \in [Requests -> SUBSET Threads]
    /\ \A r \in Fresh : Named[r] \cap Malformed = {}   \* conv_ and a UUID
    /\ StreamTtl \in Nat /\ ResetTimeout \in Nat
    /\ {"mock-fast", "mock-standard"} \subseteq Registry

VARIABLES phase,      \* where each request's handler is
          thread,     \* the conversation it is for
          closed,     \* whether its client has left
          aborted,    \* abortController.signal.aborted
          threads,    \* the conversations that exist
          log,        \* the turns of each conversation
          history,    \* how many of them were there when each request
                      \* arrived, and when it read them
          stats,      \* LiveStatsTracker and the model_requests rows
          \* IdempotencyLease
          keyPc, keyLease, keyFlushes, keyAge,
          \* RateLimiter
          limitPc, window, lease, rpm, tpm, now, connected, faults,
          passed, granted, orphans, overtaken, keyLost,
          \* ModelRouter
          breakers, call, lastProbe, sent, operatorActions

Idempotency ==
    INSTANCE IdempotencyLease WITH
        Attempts <- Keyed, LeaseTtl <- KeyTtl, MaxFlushes <- 0,
        pc <- keyPc, lease <- keyLease, flushes <- keyFlushes, age <- keyAge

Limiter ==
    INSTANCE RateLimiter WITH
        LeaseTtl <- StreamTtl, MaxCrashes <- 0, MaxFlushes <- 0, pc <- limitPc

Router == INSTANCE ModelRouter WITH Calls <- Requests

keyVars     == <<keyPc, keyLease, keyFlushes, keyAge>>
limiterVars == <<limitPc, window, lease, rpm, tpm, now, connected, faults,
                 passed, granted, orphans, overtaken, keyLost>>
routerVars  == <<breakers, call, lastProbe, sent, operatorActions>>
clientVars  == <<thread, closed, aborted>>
storeVars   == <<threads, log, history>>
vars == <<phase, clientVars, storeVars, stats, keyVars, limiterVars, routerVars>>

Phases ==
    {"idle", "idempotency", "conversation", "limit", "route", "saveUser",
     "start", "infer", "saveAssistant", "recordSuccess", "recordError",
     "finally", "release", "ended", "thrown"}

Turn == [role : {"user", "assistant"}, of : Requests]

Stats == [activeStreams : Nat, totalRequests : Nat, totalErrors : Nat,
          totalRateLimits : Nat, successRows : Nat, errorRows : Nat]

TypeOK ==
    /\ phase \in [Requests -> Phases]
    /\ thread \in [Requests -> Threads]
    /\ closed \in [Requests -> BOOLEAN]
    /\ aborted \in [Requests -> BOOLEAN]
    /\ threads \subseteq Threads
    /\ log \in [Threads -> Seq(Turn)]
    /\ history \in [Requests -> [arrived : Nat, read : Nat]]
    /\ stats \in Stats
    /\ Idempotency!TypeOK
    /\ Limiter!TypeOK
    /\ Router!TypeOK

Init ==
    /\ phase = [r \in Requests |-> "idle"]
    /\ thread \in {f \in [Requests -> Threads] : \A r \in Requests : f[r] \in Named[r]}
    /\ closed = [r \in Requests |-> FALSE]
    /\ aborted = [r \in Requests |-> FALSE]
    /\ threads = Threads \ (Malformed \cup {thread[r] : r \in Fresh})
    /\ log = [t \in Threads |-> <<>>]
    /\ history = [r \in Requests |-> [arrived |-> 0, read |-> 0]]
    /\ stats = [activeStreams |-> 0, totalRequests |-> 0, totalErrors |-> 0,
                totalRateLimits |-> 0, successRows |-> 0, errorRows |-> 0]
    /\ Idempotency!Init
    /\ connected = TRUE /\ Limiter!Init
    /\ Router!Init

-----------------------------------------------------------------------------
At(r, p) == phase[r] = p
Goto(r, p) == phase' = [phase EXCEPT ![r] = p]

\* What the idempotency component sees of a handler that is done.
EndKey(r) == IF r \in Keyed THEN Idempotency!End(r) ELSE UNCHANGED keyVars

Turns(r) == Len(log[thread[r]])

\* A valid request reaches the handler, for a conversation its client knows
\* or under an id that no conversation has: the handler does not ask.
Arrive(r) ==
    /\ At(r, "idle")
    /\ r \in Fresh \/ thread[r] \in threads \cup Malformed
    /\ history' = [history EXCEPT ![r].arrived = Turns(r)]
    /\ IF r \in Keyed
       THEN Idempotency!Arrive(r) /\ Goto(r, "idempotency")
       ELSE UNCHANGED keyVars /\ Goto(r, "conversation")
    /\ UNCHANGED <<clientVars, threads, log, stats, limiterVars, routerVars>>

AcquireKeyUnanswered(r) ==
    /\ At(r, "idempotency")
    /\ Idempotency!Get(r) \/ Idempotency!Set(r)
    /\ Goto(r, IF keyPc'[r] = "running" THEN "conversation" ELSE "idempotency")
    /\ UNCHANGED <<clientVars, storeVars, stats, limiterVars, routerVars>>

\* acquireIdempotencyLease: a GET and a SET; 409 on a conflict.
AcquireKey(r) ==
    /\ At(r, "idempotency")
    /\ Idempotency!Get(r) \/ Idempotency!Set(r)
    /\ Goto(r, CASE keyPc'[r] = "conflict" -> "ended"
                 [] keyPc'[r] = "running"  -> "conversation"
                 [] OTHER                  -> "idempotency")
    /\ UNCHANGED <<clientVars, storeVars, stats, limiterVars, routerVars>>

\* createConversation when none is named; getMessages, and the context is
\* prepared from what it answers.
ResolveConversation(r) ==
    /\ At(r, "conversation")
    /\ threads' = IF r \in Fresh THEN threads \cup {thread[r]} ELSE threads
    /\ history' = [history EXCEPT ![r].read = Turns(r)]
    /\ Goto(r, "limit")
    /\ UNCHANGED <<clientVars, log, stats, keyVars, limiterVars, routerVars>>

\* checkAndAcquire, one Redis command at a time; 429 when rejected.
CheckLimits(r) ==
    /\ At(r, "limit")
    /\ Limiter!Check(r)
    /\ IF limitPc'[r] = "rejected"
       THEN /\ Goto(r, "ended")
            /\ stats' = [stats EXCEPT !.totalRequests = @ + 1,
                                      !.totalRateLimits = @ + 1]
            /\ EndKey(r)
       ELSE /\ Goto(r, IF limitPc'[r] = "streaming" THEN "route" ELSE "limit")
            /\ UNCHANGED <<stats, keyVars>>
    /\ UNCHANGED <<clientVars, storeVars, routerVars>>

Route(r) ==
    /\ At(r, "route")
    /\ Router!RouteSomehow(r)
    /\ Goto(r, "saveUser")
    /\ UNCHANGED <<clientVars, storeVars, stats, keyVars, limiterVars>>

\* resolveRoute throws: the client's id of a model is the name of a property
\* that every object has ("constructor"), and what the registry has under it
\* is no breaker.  Nothing was asked, and the limiter's lease is kept.
RouteThrows(r) ==
    /\ At(r, "route")
    /\ ~(Requested \subseteq Registry)
    /\ Goto(r, "thrown")
    /\ EndKey(r)
    /\ UNCHANGED <<clientVars, storeVars, stats, limiterVars, routerVars>>

\* saveMessage: the turn is pushed on the conversation's list.
Save(r, role) == log' = [log EXCEPT ![thread[r]] = Append(@, [role |-> role, of |-> r])]

SaveUserTurnThenRead(r) ==
    /\ At(r, "saveUser")
    /\ Save(r, "user")
    /\ history' = [history EXCEPT ![r].read = Len(log'[thread[r]])]
    /\ Goto(r, "start")
    /\ UNCHANGED <<clientVars, threads, stats, keyVars, limiterVars, routerVars>>

SaveUserTurn(r) ==
    /\ At(r, "saveUser")
    /\ Save(r, "user")
    /\ Goto(r, "start")
    /\ UNCHANGED <<clientVars, threads, history, stats, keyVars, limiterVars, routerVars>>

\* Headers, recordStreamStart, the start event, and only then the listener
\* for the client's close.
StartStream(r) ==
    /\ At(r, "start")
    /\ thread[r] \notin Malformed
    /\ stats' = [stats EXCEPT !.activeStreams = @ + 1]
    /\ Goto(r, "infer")
    /\ UNCHANGED <<clientVars, storeVars, keyVars, limiterVars, routerVars>>

\* writeHead throws: no header may carry the id of the conversation, or that
\* of the model, which is the client's own when it names no model and is
\* served as one of mock-fast.  This is before the try block, so nothing that
\* was taken is given back: Fastify answers 500.
RefuseHeaders(r) ==
    /\ At(r, "start")
    /\ \/ thread[r] \in Malformed
       \/ /\ ~(Requested \subseteq Registry)
          /\ call[r].granted /\ call[r].breaker = Router!LastResort
    /\ Goto(r, "thrown")
    /\ EndKey(r)
    /\ UNCHANGED <<clientVars, storeVars, stats, limiterVars, routerVars>>

\* From StartStream on, the close listener is registered.
Listening(r) ==
    phase[r] \in {"infer", "saveAssistant", "recordSuccess", "recordError",
                  "finally", "release"}

ClientLeaves(r) ==
    /\ AllowAbort
    /\ phase[r] \notin {"idle", "ended", "thrown"}
    /\ ~closed[r]
    /\ closed' = [closed EXCEPT ![r] = TRUE]
    /\ aborted' = [aborted EXCEPT ![r] = Listening(r)]
    /\ UNCHANGED <<phase, thread, storeVars, stats, keyVars, limiterVars, routerVars>>

-----------------------------------------------------------------------------
(* streamCompletion returns or throws *)

CompleteSilently(r) ==
    /\ At(r, "infer")
    /\ Router!Abort(r)
    /\ Goto(r, "saveAssistant")
    /\ UNCHANGED <<clientVars, storeVars, stats, keyVars, limiterVars>>

\* It returns, also when the client left after the last token.
Complete(r) ==
    /\ At(r, "infer")
    /\ Router!Succeed(r)
    /\ Goto(r, "saveAssistant")
    /\ UNCHANGED <<clientVars, storeVars, stats, keyVars, limiterVars>>

SaveAssistantTurn(r) ==
    /\ At(r, "saveAssistant")
    /\ Save(r, "assistant")
    /\ Goto(r, "recordSuccess")
    /\ UNCHANGED <<clientVars, threads, history, stats, keyVars, limiterVars, routerVars>>

RecordSuccess(r) ==
    /\ At(r, "recordSuccess")
    /\ stats' = [stats EXCEPT !.successRows = @ + 1, !.totalRequests = @ + 1]
    /\ Goto(r, "finally")
    /\ UNCHANGED <<clientVars, storeVars, keyVars, limiterVars, routerVars>>

\* It throws, and where the handler goes next depends on whether its client
\* has left.
Throw(r, left, report, next) ==
    /\ At(r, "infer")
    /\ aborted[r] = left
    /\ report
    /\ Goto(r, next)
    /\ UNCHANGED <<clientVars, storeVars, keyVars, limiterVars>>

CountError == stats' = [stats EXCEPT !.totalErrors = @ + 1, !.totalRequests = @ + 1]

\* The client is there: the breaker and the statistics hear of it, then the
\* row is written.
FailStream(r) == Throw(r, FALSE, Router!Fail(r), "recordError") /\ CountError

RecordError(r) ==
    /\ At(r, "recordError")
    /\ stats' = [stats EXCEPT !.errorRows = @ + 1]
    /\ Goto(r, "finally")
    /\ UNCHANGED <<clientVars, storeVars, keyVars, limiterVars, routerVars>>

DropStreamAtOnce(r) == Throw(r, TRUE, Router!Abort(r), "ended") /\ UNCHANGED stats
DropStreamCounted(r) == Throw(r, TRUE, Router!Abort(r), "finally") /\ CountError

\* The client left, whatever the error: nobody hears of it.
DropStream(r) == Throw(r, TRUE, Router!Abort(r), "finally") /\ UNCHANGED stats

\* The finally block: recordStreamEnd, then releaseConcurrency.
Finish(r) ==
    /\ At(r, "finally")
    /\ stats' = [stats EXCEPT !.activeStreams = IF @ > 0 THEN @ - 1 ELSE 0]
    /\ Limiter!EndStream(r)
    /\ Goto(r, "release")
    /\ UNCHANGED <<clientVars, storeVars, keyVars, routerVars>>

ReleaseLease(r) ==
    /\ At(r, "release")
    /\ Limiter!Release(r)
    /\ IF limitPc'[r] = "done"
       THEN Goto(r, "ended") /\ EndKey(r)
       ELSE UNCHANGED <<phase, keyVars>>
    /\ UNCHANGED <<clientVars, storeVars, stats, routerVars>>

-----------------------------------------------------------------------------
(* Everything else *)

\* One clock for the keys in Redis and the breakers.
Tick ==
    /\ Idempotency!Tick
    /\ Limiter!Tick
    /\ Router!Tick
    /\ UNCHANGED <<phase, clientVars, storeVars, stats>>

\* Dashboards and operators reach the breakers only.
Observe ==
    /\ Router!Poll \/ Router!ResetCircuits \/ \E id \in Registry : Router!TripCircuit(id)
    /\ UNCHANGED <<phase, clientVars, storeVars, stats, keyVars, limiterVars>>

Handle(r) ==
    \/ AcquireKey(r) \/ ResolveConversation(r) \/ CheckLimits(r)
    \/ Route(r) \/ RouteThrows(r) \/ SaveUserTurn(r)
    \/ StartStream(r) \/ RefuseHeaders(r)
    \/ Complete(r) \/ SaveAssistantTurn(r) \/ RecordSuccess(r)
    \/ FailStream(r) \/ RecordError(r) \/ DropStream(r)
    \/ Finish(r) \/ ReleaseLease(r)

Next ==
    \/ \E r \in Requests : Arrive(r) \/ Handle(r) \/ ClientLeaves(r)
    \/ Tick
    \/ Observe

Spec == Init /\ [][Next]_vars

\* Every await is answered, the mock provider's streams among them: the
\* handlers that wait do not all wait for ever.
FairSpec == Spec /\ WF_vars(\E r \in Requests : Handle(r))

-----------------------------------------------------------------------------
Over == {"idle", "ended", "thrown"}

\* A probe lease is only ever held for a request that passed the limiter and
\* is being served, or that was cut off by its client or by a header that
\* could not be written: a 409 or a 429 never costs a recovering model its
\* probe, and an answer or an error always gives it back.
ProbeIsServed ==
    \A m \in Registry : breakers[m].isProbeInFlight =>
        \E r \in Requests :
            /\ lastProbe[m] = r /\ call[r].breaker = m
            /\ \/ phase[r] \in {"saveUser", "start", "infer"}
               \/ aborted[r] /\ call[r].status = "aborted"
               \/ phase[r] = "thrown"

\* A handler that comes to its end leaves nothing behind: no lease of the
\* limiter, no call in flight; and when all are finished the user has back
\* every slot but those of the handlers that threw before their try block.
NothingLeftBehind ==
    /\ \A r \in Requests : phase[r] = "ended" =>
          /\ limitPc[r] \in {"idle", "rejected", "done"}
          /\ call[r].status # "running"
          /\ r \in Keyed => keyPc[r] \in {"conflict", "ended"}
    /\ (\A r \in Requests : phase[r] \in Over) =>
          lease.value <= Cardinality({r \in Requests : phase[r] = "thrown"})

\* The ledgers agree: the dashboard's activeStreams is the number of streams
\* between their start event and their finally block, what the statistics
\* count is what was rejected, failed or recorded as a success, the rows
\* follow the counters, and each successful row stands for one complete
\* exchange in the conversations.
LedgersAgree ==
    LET turns(role) == {r \in Requests : \E t \in Threads :
                          \E i \in 1..Len(log[t]) : log[t][i] = [role |-> role, of |-> r]}
        failing == {r \in Requests : phase[r] = "recordError"}
        saving  == {r \in Requests : phase[r] = "recordSuccess"}
        streaming == {r \in Requests : phase[r] \in {"infer", "saveAssistant",
                        "recordSuccess", "recordError", "finally"}}
    IN  /\ stats.activeStreams = Cardinality(streaming)
        /\ stats.totalRequests =
              stats.totalRateLimits + stats.totalErrors + stats.successRows
        /\ stats.totalErrors = stats.errorRows + Cardinality(failing)
        /\ Cardinality(turns("assistant")) = stats.successRows + Cardinality(saving)
        /\ turns("assistant") \subseteq turns("user")

\* What a model is shown: nothing that a conversation had when the message
\* arrived is missing, so whoever waits for an answer is heard with it; the
\* message itself is not there twice; and no answer is there without its
\* question, whatever other requests of the conversation are under way.
HistoryIsCurrent ==
    \A r \in Requests : phase[r] \notin {"idle", "idempotency", "conversation"} =>
        LET read == SubSeq(log[thread[r]], 1, history[r].read)
            shown == {read[i] : i \in DOMAIN read}
        IN  \/ r \in Keyed /\ keyPc[r] = "conflict"
            \/ /\ history[r].read >= history[r].arrived
               /\ \A turn \in shown :
                     /\ turn.of # r
                     /\ [turn EXCEPT !.role = "user"] \in shown

\* Every request that arrives is answered, whatever its client does: in the
\* end no handler is under way.
EveryRequestEnds ==
    <>[](\A r \in Requests : phase[r] \in Over)

-----------------------------------------------------------------------------
\* Claims the code does not keep.

\* "Releases the concurrency lease when the streaming response terminates or
\* errors" (modules/ratelimit/rate-limiter.ts:103): the user has every slot
\* back when all handlers are finished.
EverySlotComesBack ==
    (\A r \in Requests : phase[r] \in Over) => lease.value <= 0

\* "request.raw.on('close') triggers
\* AbortController.abort(), stopping upstream token loops"
\* (docs/claims-audit.md:12).
ClosedIsAborted ==
    \A r \in Requests : closed[r] /\ phase[r] = "infer" => aborted[r]
=============================================================================
