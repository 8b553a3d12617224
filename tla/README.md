# A TLA+ model of the AI gateway

The repository is a chat gateway: a Fastify server (`src/apps/api`) that takes a
prompt, decides whether the user may send it, routes it to a model, streams the
answer back as server-sent events and stores both turns; and a Next.js front end
(`src/apps/web`). It uses Redis for limits and idempotency keys, PostgreSQL for
conversations, and the memory of the process when PostgreSQL cannot be had. This directory
models the parts of it that keep state, checks them with TLC on small instances,
and proves with TLAPS every invariant and every action property the runs check, and two
refinements, for all values of the constants: of the small components, of the handler that composes them,
of the conversation repository, of the event stream and of the browser tab.

Paths below are relative to `src/apps/api/src` unless they begin with `apps/`,
`docs/`, `architecture/` or `README.md`, which are relative to `src`.

## 1. The system

| Component | Source | State | Operations |
|---|---|---|---|
| Circuit breaker | `application/resilience/circuit-breaker.ts` | state, failure and success counters, time of the last change, probe lease | `getState`, `canExecute`/`isOpen`, `recordSuccess`, `recordFailure`, `reset`, `forceOpen` |
| Model router | `application/routing/model-router.ts` | the breakers of the registry | `resolveRoute` |
| Rate limiter | `modules/ratelimit/rate-limiter.ts` | three Redis keys a user | `checkAndAcquire`, `releaseConcurrency` |
| Redis cache service | `redis/index.ts` | Redis, or a map with expiry times | `get`, `set`, `del`, `incrBy`, `flushAll` |
| Retry policy | `application/resilience/retry.ts` | none / one Redis key | `execute`, `acquireIdempotencyLease` |
| Context manager | `application/context/context-manager.ts` | none (a loop over the history) | `prepareContext` |
| Chat handler | `routes/chat.ts` | its local variables, the abort signal | `POST /api/chat` |
| Inference providers | `infrastructure/inference/*.ts` | fault flags of the mock | `streamCompletion`, fault injection |
| Conversation repository | `infrastructure/repositories/conversation.repo.ts` | tables of `db/schema.sql`, and maps | create, list, get, delete, messages, request records |
| Live statistics | `modules/metrics/prometheus.ts` | counters and samples | `recordStreamStart/End`, `recordRequest`, ... |
| Operator routes | `routes/simulate.ts`, `routes/models.ts`, `routes/stats.ts` | none | faults, trip/reset/flush, polls |
| Web client | `apps/web/src/hooks/useChat.ts` | messages, current conversation, streaming flag, abort controller | send, stop, retry, select, delete, new chat |

How they interact. `POST /api/chat` calls, in this order and with an await at
each: the idempotency lease, the repository (conversation, history), the context
manager, the rate limiter, the router (which asks breakers), the repository (the
user's turn), the provider (tokens go straight to the socket), the repository
(the answer), the breaker (the outcome), the telemetry row, and in its `finally`
block the statistics and the limiter. Requests share the breakers, the
statistics, the Redis keys, the tables and the mock provider's fault flags.
Operators and dashboards reach the breakers, the faults and Redis at any time.
A client may disconnect at any time, which reaches the handler as an abort
signal, once a listener is registered.

What is hard: the process is single-threaded, so nothing happens inside a
method without an await; but a breaker's report comes many steps after its
admission, a limiter's check is separate Redis commands away from its
increment, a save is two statements and a memory write, and every await of the
handler is a place where its client may leave, a key may expire, the process may
die or the operator may change the state underneath. In the browser every
answer is applied to whatever the user has done since. The list of these
places, each at its line and with the properties that cover it, is
`PROJECT.json`, `hazards`.

What makes each component correct:

- breaker: bounded trial calls per recovery, whoever reports when; no lease that nobody holds; an outage that ends;
- router: asking must not cost a model its probe; a refused model gets no calls, but for the last resort;
- limiter: no window is exceeded while its key lives, the counter does not overcount, and too many streams run only where another overtook or the key was lost;
- idempotency: the key stands exactly for a recent attempt, and is freed;
- context: what is sent fits the budget, is accounted for, is in order, and is the greedy choice;
- retry: the wait is bounded, errors are not swallowed or raised early;
- handler: whatever way out is taken, every counter, lease and row is settled once; of the two throws that no block of it catches, what is left behind is known;
- providers: the socket, the stored answer and the telemetry tell one story;
- repository: counts match messages, and the memory can stand in for the tables;
- client: the stream under way can be stopped, and the screen shows what the server has.

## 2. The modules

| Module | Models | State ↔ code |
|---|---|---|
| `BreakerOps` | the methods of `CircuitBreaker` as functions of its fields | record `Breaker`; `lastStateChangeTime` is `wait`, what is left of the reset timeout |
| `BreakerPromise` | abstract: what a breaker promises the service behind it | `mode`, `remaining`, `trials` |
| `CircuitBreaker` | one breaker with its callers, polls and operators | `breaker`; `status` of each call; `lastProbe`, `trials` are history |
| `RoutingPolicy` | `resolveRoute` as an operator | breakers in, route and breakers out |
| `ModelRouter` | the router over a registry, with callers | `breakers`, `call`; `lastProbe`, `sent` are history |
| `RedisKey` | a key of the cache service with its expiry; one operator per command, in Redis and on the map that stands in for it | `[value, ttl]` with the TTL command's -1 and -2 |
| `RateLimiter` | one user's requests, one command a step; the expiry of every key, crash, flush, the start without Redis and its loss | `lease`, `rpm`, `tpm` are the keys; `connected` says where they are; `pc`, `window` the requests' locals; the rest is history: what passed on a minute's keys while they were there, the leases of crashed gateways, who was overtaken |
| `IdempotencyLease` | the attempts with one key | `lease`, `pc`; `age` is history |
| `ChatGateway` | `POST /api/chat`: instances of `IdempotencyLease`, `RateLimiter`, `ModelRouter`, composed by the handler's awaits | `phase`, `closed`, `aborted`, `threads`, `log`, `stats`; `history` has the length of the list `getMessages` answered and, as history, that on arrival |
| `TokenStream` | both providers between awaits, the events, what is stored, and the loop of `useChat` that reads them | `pc`, `emitted`, `events`, `turn`, `row`, `flags`; `reader`, `arrived`, `buffer`, `bubble` are the browser's |
| `ContextWindow` | the loop of `prepareContext` | `next`, `current`, `selected`, `truncated` are its locals |
| `RetryPolicy` | the loop of `execute` | `attempt`, `now`, `lastError`, `place` |
| `ConversationStore` | conversations, messages and request records, statement by statement, in the tables and in memory, across restarts; what the reads return | `pg`, `mem`, `connected`, `calls` (the order of `created_at`), and where each operation is; `away` is history |
| `ChatClient` | `useChat` against a condensed server | `current`, `shown`, `streaming`, `ref`; calls under way; `disturbed` is history |
| `MC...` | instances for TLC | |
| `...Proofs` | theorems | |

A step is what runs between two awaits. An operator whose name is that of a
definition with a suffix (`RecordSuccessKeepingLease`, `ExpireRequestsEarly`) is a
deliberately wrong variant: put in place of that definition it must make the
property beside it in `PROJECT.json`, `mutants`, fail.

Abstractions, and why they are sound for what is stated:

- time is in ticks; a timer's expiry is a count that reaches its end, and the clock may tick between any two steps. `RetryPolicy` alone computes with durations and keeps the code's comparisons, including the one that differs at equality;
- texts, prices, latencies and percentiles are left out; a message is a model value or its token count and length;
- the policy's reading of the query (is it a reasoning query? is the context long?) is a free choice;
- a breaker's `failureCount` stays at the threshold once it is there: the code compares it with `>=` and sets it to 0 otherwise;
- a call of `ModelRouter` begins anew when it is over, so that callers never run out; in `ChatGateway` each request is made once, and a retry is another request;
- `resolveRoute` throws on the id of a model that is the name of a property of every object ("constructor"): this is an action of `ChatGateway`, and such ids are not among the `Requested` of `ModelRouter`;
- what is thrown at `RetryPolicy` is one of the kinds its classification tells apart: an `AppError` by its flag, the statuses 429 and 5xx, a message about the network, anything else;
- users do not share keys, so one user's requests are enough; with Redis connected the requests of a behaviour may be of different gateway processes, since only Redis is shared, and a crash takes all of them. Without Redis they are of one process, whose map a crash empties; one that loses its connection loses it for good (`retryStrategy`), and all its requests with it. To the gateways that keep Redis, one that loses it looks like one that crashes: its units stay in the shared key. A single command that fails on a connection that lives on, and is carried out on the map alone, is not modelled;
- on the map the get and the set of `incrBy` are one step: the promises between them are settled, so that no other request's code runs before they are done;
- `IdempotencyLease` meets the loss of Redis as its `Flush`, an empty store in place of the one in use; `ChatGateway` keeps Redis connected;
- an event on the wire is two parts, the second of which ends with the blank line: a read that ends anywhere within an event is one that ends between the two;
- in `ChatGateway` the awaited reads that change nothing are merged with the step after them, and a save is one step (`ConversationStore` has its statements); the idempotency key and the user are one each;
- in `ChatClient` the server is the handler as `ChatGateway` has it, reduced to where turns go and when events are written; a DELETE is lost on its way, or served and then lost with its answer; the browser delivers a response's events in order and, when a fetch is aborted, runs its `catch` and `finally` before the user's next event;
- the socket's `close` event is taken to reach the handler's listener when the client leaves, and only if the listener is registered by then;
- a statement that throws may or may not have taken effect.

## 3. The runs

Every configuration is exhaustive. Deadlock is checked except where the
behaviour is a finite computation (`context`, `retry`, `store`).

| Run | Bounds | What it shows |
|---|---|---|
| `breaker` | 5 calls, thresholds 2 and 2, timeout 2, 1 operator command, clients leave | `CountersAgree`, `LeaseAccounted`, `TrialsBounded`; the refinement `KeepsPromise`; `OpenIsTriedAgain`, `LeaseResolves` |
| `router` | 2 calls at a time, made again and again, 3 models, thresholds 1, 1 operator command | `LeaseFollowsRoute`, `ProtectedKeepPromise`, `EveryModelReturns` |
| `limiter` | 2 requests, 1 stream, 1 request and 2 tokens a minute, 2 minutes of 2 ticks, keys of 2 and 3 ticks, 1 crash, 1 flush, with and without Redis, its loss at any time | `NeverOvercounts`, `WindowBounds`, `OnlyOvertakenExceed`, `OrphansExpire` |
| `idempotency` | 4 attempts, lease of 3 ticks, 1 flush | `LeaseCoversRecent`, `KeyIsFreed` |
| `gateway` | 2 requests with one key, the second of the conversation the first begins, one stream at once, 2 models and an id of none, an id that no header may carry, clients leave | `ProbeIsServed`, `NothingLeftBehind`, `LedgersAgree`, `HistoryIsCurrent`, `EveryRequestEnds` |
| `stream` | a stream of either provider, 5 words, all faults at any time, reads of any size | `StreamWellFormed`, `OutcomeAgrees`, `BubbleMatchesStore`, `AfterAbortOnlyTheEnd` |
| `context` | all histories of up to 5 messages of 4 kinds, 4 fixed parts, window 16 | `WithinBudget`, `SelectionIsGreedy`, `Chronological` |
| `retry` | 3 retries, backoff 2 doubling to 7, deadline 12, attempts of 0 to 6 | `OverrunBounded`, `ErrorIsFinal` |
| `store` | a conversation and an unknown id, 4 messages, one an answer, a request record, 2 failing statements, 1 restart | `TableCountsItsMessages`, `MemoryIsComplete`, `StoresAgreeAtRest`, `SavesAreReadBack`, `AnswerFollowsQuestion`, `DeletedIsGone` |
| `client` | 2 messages, 1 pick, 1 deletion, any number of new chats | `StreamIsInReach`, `AnswersFollowQuestions`, `ViewMatchesServer` |
| `breaker_stranded` | 3 calls | violated: `EveryLeaseResolves` |
| `idempotency_race` | 4 attempts | violated: `AtMostOneRunning` |

The run `breaker` checks its module's `TypeOK` as well. Those of the other modules
are conjuncts of the inductive invariants of section 5 and so proved, but for that of `ChatGateway`, of which
the proofs take what they need (`Shape`); TLC finds them all true of the same
instances when they are added to the configurations.

Why the bounds are enough for the cases that matter:

- breaker: with thresholds of 2, two calls trip it, two are the trials of one recovery, and the fifth is the late report that interferes; a timeout of 2 has a moment at which it is neither whole nor over. The operator reaches half-open without spending calls;
- router: a threshold of 1 lets a call trip each of two models and a later one meet both, and a trial is decided by one report; two callers that never stop keep failing calls coming at `mock-fast`. Larger thresholds are in `breaker`, and in the proofs. `"auto"` and an id without a breaker are among the requests;
- limiter: one request more than may stream and than may pass in a minute; one estimate is all of the window's tokens. A lease of 2 ticks can expire between any two commands, and be renewed between; a window key of 3 ticks outlives its minute of 2, so that an increment can come within the minute, after it, and after the key. The clock stops at tick 3, which stands for any later time;
- idempotency: two attempts race, one comes within the lease, one after it;
- gateway: the first request begins the conversation of the second, which comes while the first is at any await after that;
  one stream at a time makes the second request a 429, one key makes it a 409, and a failure opens the breaker for it.
  Operator commands reach the handler through the breakers only; the run `router` has them;
- stream: with five words the mock's forced drop (past half of the words) comes after the third and before the last; another stream would share the fault flags only, which change at any time as it is;
- context: the four messages are one whose count is missing, an empty one, a small one and one that only sometimes fits; one of the fixed parts exceeds the budget of 12 by itself;
- retry: the deadline falls in an attempt, in a backoff, and exactly at the end of either;
- store: a question, its answer and another question meet in one conversation; both statements of one save may fail, or one of each of two saves; the restart may come between any two steps, from and to a process with or without its database.

Fairness, and what in the code justifies it:

- `Tick`: time passes;
- `Poll` (`CircuitBreaker`, `ModelRouter`): an open dashboard polls `/api/stats` every three seconds (`apps/web/src/components/TechDashboard.tsx:52`), which asks every breaker's `getState`. Without a dashboard or a request an open breaker stays as it is, and nobody notices;
- `Succeed \/ Fail` of a call: the mock provider's loop is finite and its hang throws after 32 s. For the OpenAI provider this is an assumption: its `fetch` has no timeout. It is not assumed that a client stays: a call may be aborted instead, and the properties make room for that;
- `Check \/ Release`, `Get \/ Set`: a running gateway carries on with the command it awaits;
- `Handle` (`ChatGateway`): the handlers under way do not all wait for ever.

No fairness is assumed for arrivals, operators, crashes, flushes or clients.

## 4. What does not hold

Two runs show the code against its own documents.

- `breaker_stranded`. A call takes the probe lease of a half-open breaker and its
  client disconnects; the handler reports neither success nor failure (`routes/chat.ts:305`), so
  `isProbeInFlight` stays set and every later call is refused. Only a late report of an older call, or
  an operator, gets the model back. `LeaseResolves` in the run `breaker` is what remains true.
- `idempotency_race`. The lease is a GET and then a SET: two attempts that both GET
  first both run. A lease of 60 s also expires before a slow first attempt ends. `LeaseCoversRecent` is
  what remains true.

Met in modelling as well, each stated as an operator at the end of its module
under "does not keep"; TLC finds the counterexample when the operator is added
to the configuration named:

| Operator (configuration) | The code | The document |
|---|---|---|
| `SingleFlightProbe` (`MCCircuitBreaker`) | any report clears the lease, so a second probe may run beside the first; `TrialsBounded` is what remains | `docs/claims-audit.md:16` "with single-flight probe leases" |
| `DiagramTransitions` (`MCCircuitBreaker`) | a late success closes an OPEN breaker at once | `architecture/diagrams/system-architecture.md:198`, the only edge out of OPEN is the timeout's |
| `OpenModelIsAvoided` (`MCModelRouter`) | the only fallback of `mock-fast` is `mock-fast` | `docs/demo.md:77`, rerouted "to the healthy `mock-standard` fallback model" |
| `LastResortReturns` (`MCModelRouter`) | `mock-fast` is called while its breaker is OPEN, and each call that fails restarts the timeout: steady failing calls keep it OPEN | `architecture/diagrams/system-architecture.md:198` "Reset Timeout Elapsed (10s)" |
| `SlidingWindow` (`MCRateLimiter`) | the windows are the minutes of the clock: the requests of 60 s across a boundary may be twice the limit; and an increment that comes after the key's 65 s begins it again at 1 | `architecture/decisions/ADR-003-redis.md:11`, `docs/claims-audit.md:14` "Sliding Window" |
| `StrictConcurrency` (`MCRateLimiter`) | the counter is read three commands before it is incremented | `architecture/decisions/ADR-003-redis.md:28` "strictly enforced cluster-wide" |
| `OrphansAlwaysExpire` (`MCRateLimiter`) | a crash between INCRBY and EXPIRE leaves a key without an expiry | `modules/ratelimit/rate-limiter.ts:88` "TTL safety fallback 120s" |
| `EverySlotComesBack` (`MCChatGateway`) | `resolveRoute` and `writeHead` may throw after the lease is taken and before the try block (`routes/chat.ts:118, 139`): the slot is lost until the key expires, and the probe lease, if `writeHead` threw | `modules/ratelimit/rate-limiter.ts:103` "terminates or errors" |
| `ClosedIsAborted` (`MCChatGateway`) | the close listener is registered after the awaits before the stream | `docs/claims-audit.md:12` |
| `PartialTokensRecorded` (`MCTokenStream`) | the error row has `outputTokens: 0` | `docs/interview-questions.md:35` |
| `EveryStreamIsAudited` (`MCTokenStream`) | no row for a stream whose client left | `db/schema.sql:86`, `domain/types.ts:102` |
| `CappedAtBudget` (`MCContextWindow`) | the system prompt and the new prompt are never cut | `architecture/decisions/ADR-010-cost-optimization.md:11` |
| `KeepsRecentPart` (`MCContextWindow`) | a turn that does not fit is skipped, older ones may be kept | `docs/claims-audit.md:20` "Sliding window over historical turns" |
| `SavedIsRead` (`MCConversationStore`) | what was saved while PostgreSQL was away is in memory only and not read again | `PROJECT-REVIEW.md:73` |
| `SummaryIsHistorical` (`MCConversationStore`) | the summary counts the memory's records, which begin anew with the process; the table is never asked | `routes/stats.ts:19` "historical" |

And one that no document speaks of: a DELETE that the server has done but whose answer is lost
(`apps/web/src/hooks/useChat.ts:125, 130`) leaves the tab with the deleted conversation
on its screen. `ViewMatchesServer` excepts a tab to which this happened, until its user opens another conversation.

## 5. What is proved

`tlapm` checks each of these modules to the last leaf. The proofs assume the
named `ASSUME`s of the modules (finite sets of calls or requests, positive
limits and timeouts) and nothing about their sizes; TLC evaluates the same
assumptions in every run.

- `CircuitBreakerProofs`. Every operation keeps the record's type and
  `Consistent`, the relation of counters and state; so `CountersAgree` is
  inductive. `TrialsBounded` is not: a visit's trials are bounded because each
  trial but the current one was paid for by a counted success
  (`TrialsPaidFor`), and the count is below its threshold while half-open. A
  lease is freed without being paid for only by a step that leaves HALF_OPEN,
  which ends the visit (`NoVisitNoTrials`). With these, `IInv`; and from
  `IInv`, case by case, that every step is a step of `BreakerPromise` or a
  stutter.
- `BreakerOpsProofs` holds the lemmas on the operations of one breaker that this and the next use.
- `ModelRouterProofs`, for any registry with the three mock models. What a route does to the
  breakers comes first (`RouteTakesItsLease`): of the candidates asked in order the one that
  grants is the one selected, and those asked before it refused, so the only lease
  a route can take is that of the model it selects. From this `LeaseFollowsRoute`,
  and the invariants `LeaseAccounted` (a held lease is that of a call sent to that
  model, running or dropped) and `RefusedGoesToLastResort`, which no run needs to repeat.
  `ProtectedKeepPromise` is the counting argument of the breaker, made of the calls the
  router sends: while no request is sent as a last resort, the trials of a visit to HALF_OPEN
  are one more than the successes counted at most (`Paid`), because a trial is sent only with
  the lease and the lease comes back only by an outcome that is counted or ends the visit.
  A lease that an abort strands holds up the next trial and adds none. That calls are made again and again disturbs
  nothing: one that a lease or a trial is put down to stays until it is not.
- `RateLimiterProofs`. What passes is counted for as long as a minute's key must be there: a key is made in its minute
  at the earliest (`WindowsBegun`), so that whenever it is, it stays until 65 s after the minute began (`StaysOpen`),
  and until then it counts at least what passed, rejected requests included (`WindowsCounted`); `WindowBounds` follows. A key that was
  shorter lived, or made before its minute, would begin again at 1 while its history is kept.
  `NeverOvercounts` is by the cardinality of the set of holders: a request joins it by the INCRBY that counts
  it and leaves it by the DEL or the decrement that forgets it, and in between the
  key may only vanish. For `OnlyOvertakenExceed` the other bound is needed: unless the key was lost under
  its holders it counts no fewer than them (`CountsExactly`), and a request between its check and its
  increment that nobody overtook still has the room that it found (`CheckedRoom`). All of it holds of the keys in Redis,
  of the map, and across the loss of Redis, after which the holders are as many as before and the key is gone.
- `RetryProofs` holds the proofs of both parts of `retry.ts`. Of the lease, `LeaseOfYoungest` is
  inductive: the key's remaining time is that of the attempt that set it last; `LeaseCoversRecent`
  follows from it. Of the loop, that the code's classification of what is thrown picks the transient errors
  is a lemma (`Classification`); `OverrunBounded` needs to know at which places
  the clock is within the deadline (`OnTime`), `ErrorIsFinal` how the
  last error fits the place (`ErrorFitsPlace`) and that the passes of the loop count the runs (`RunsCounted`).
- `ConversationProofs`, first the context window: `WithinBudget`, `Chronological` and `SelectionIsGreedy` for every history,
  prompt and window. `SelectionIsGreedy` is about sums over sets, which the library defines by a
  recursion on the set. That such a sum is the cardinality of the set's units (`SumIsCount`), and so grows by an element's
  value with the element, is proved without an induction: were there a set
  for which it is not so there would be a smallest one, and there is none. What the loop kept before stays
  summed because a turn that is examined is older than all that was.
- `ConversationProofs`, then the repository, for any conversations, messages, failures and
  restarts. `StoreInv` is the inductive invariant, in parts: no operation is ahead of those it
  waits for (`OperationsInOrder`, `CallsInOrder`: a call is made once, an answer's after its
  question's save); which rows the tables have, as a function of how far each operation has come
  (`TablesFollow`, and `TablesFollowWell` for as long as no statement threw); how many rows are
  missing (`MissingBounded`) and what the counts in the table miss (`TableCounts`); what the maps
  have (`MemoryFollows`, `MemoryInOrder`, `CountsFollow`). From these `TableCountsItsMessages`,
  `MemoryIsComplete`, `StoresAgreeAtRest`, `SavesAreReadBack` and `DeletedIsGone`. For
  `AnswerFollowsQuestion` the read of the tables is a set of listings, the
  rows in the order of the calls; `RowsAlwaysListed` is the other half, that there always is
  a listing, so that the property does not hold for want of one.
- `ChatGatewayProofs`. The four invariants of the handler are not inductive, and each needs to
  know what the components have in hand at each await. `Invariant` says so in parts: the
  types (`Shape`); for each request, that its phase and its places in the lease,
  the limiter and the router agree (`PhasesAgree`), so that no early return leaves
  one of them behind; that a held probe lease is that of a call which runs, was left running by a throw or
  was cut off (`ProbesAccounted`), from which `ProbeIsServed`; that the
  concurrency key counts no more requests than are between the INCRBY and the
  release, or have thrown (`SlotsHeld`), from which, with `PhasesAgree`, `NothingLeftBehind`; that each turn
  of a conversation was saved by a request that has come that far, one answer each
  (`TurnsAreSaid`) and after its question (`QuestionsAreThere`), from which `HistoryIsCurrent`
  by what was read (`AllRead`); and the statistics as cardinalities of sets of requests and
  answers (`Ledgers`), from which `LedgersAgree`. `HandlerUsesComponents` is a refinement: with the handler's
  variables for theirs, `Spec` implements the specifications of `IdempotencyLease`,
  `RateLimiter` and `ModelRouter`. The lemmas on routes and breakers are proved again in this module:
  the prover uses a definition through a named `INSTANCE` but cannot
  cite a theorem through one.
- `ClientProofs`, first the stream, for either provider, any number of streams and of words, faults,
  aborts, and any cut of the response into reads. `StreamInv` has a conjunct for each stream: what is
  written is in the order of the kinds of events, with one outcome at most, a true one, and as many tokens as
  the provider gave (`WellWritten`: the cardinality of their places in the list); which kinds may be there at each await of the handler (`StageFits`), and what is in the conversation
  and in the telemetry by then (`StoredFits`); and of the reader, that what it holds back is an event cut
  in two (`HeldBack`) and that its bubble is what the events before it make of it (`ReadSoFar`). From these
  `StreamWellFormed`, `OutcomeAgrees`, `BubbleMatchesStore`; and `AfterAbortOnlyTheEnd`
  by the actions, since an aborted stream that still writes has saved the whole answer.
- `ClientProofs`, then the tab, for any messages, conversations, loads and deletions. `ClientInv` has three
  parts. `CallsInv`: a message that is not cut is awaited by the tab as long as it is served, what is
  written and not read fits the step of its handler (`UnreadFits`), and nobody knows of a
  conversation that is yet to be made; `StreamIsInReach` is a conjunct of it. `TurnsInv`: each turn, saved, given out or shown,
  is that of a message that has come that far, and is there once; while an answer is due
  its question is followed by turns of cut messages only (`AskedLast`), from which `AnswersFollowQuestions` when
  the answer is saved. `Undisturbed` holds for as long as the tab is not disturbed: one call at a time concerns the
  conversation in use (`Alone`) and every other deletion is of a conversation elsewhere (`Elsewhere`, which stays so because a deletion
  names a conversation that was given out, `DeletesNamed`); and what is shown differs from what is stored by what that call has
  still to do (`SendMode`, `LoadMode`, `DeleteMode`). For a message these are its turns that
  are not saved yet and its events that are not read yet, each counted; when there are none left
  nothing differs, which is `ViewMatchesServer`.

Only model-checked: everything under fairness (`OpenIsTriedAgain`,
`LeaseResolves`, `EveryModelReturns`, `OrphansExpire`, `KeyIsFreed`,
`EveryRequestEnds`), which the prover cannot treat; and the two runs of section 4, whose
counterexamples need no proof.

## 6. What is not modelled

- the repository's `users` (the limiter's quotas are constants, and a creation for a user without a row is refused like one whose statement throws), the order and length of the list, the figures of the summary;
- the side bar's list in `useChat`: with the answers of `fetchConversations` in flight beside those of the messages the run `client` is out of TLC's reach, so any conversation that was given out may be picked;
- `prefixCacheKey` (nothing reads it), pricing (a table and a product), percentiles, Prometheus export and logs;
- the React components (presentation), `useChat`'s list of models and its metrics;
- `db/index.ts`, an older repository no route uses; configuration and start-up, which run once; the benchmarks and deployment files.

## 7. Plan

1. Two tabs in `ChatClient`, and the side bar in a smaller instance.
2. The table of conversations that each proof of `ConversationStore` and of `ChatClient` has of its own:
   a refinement that maps the statements of the one to the saves of the other.
