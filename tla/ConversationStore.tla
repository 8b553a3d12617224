-------------------------- MODULE ConversationStore --------------------------
(***************************************************************************)
(* PostgresConversationRepository (infrastructure/repositories/            *)
(* conversation.repo.ts) and the tables of db/schema.sql: conversations,   *)
(* their messages and the rows of model requests, kept in PostgreSQL when  *)
(* init() reached it and, always, in the memory of the gateway.            *)
(*                                                                         *)
(* Each awaited statement is a step, and may throw; the error is logged    *)
(* and the method goes on with the memory.  The part after the last await  *)
(* runs at once.  A gateway that restarts keeps the tables and nothing     *)
(* else; the operations under way are lost.                                *)
(***************************************************************************)
EXTENDS Integers, Sequences, SequencesExt, FiniteSetsExt

CONSTANTS Conversations,   \* ids given out by createConversation, each once
          Unknown,         \* ids clients name that nobody created
          Messages,        \* the messages saved in a behaviour, each once
          Thread,          \* the conversation of each
          Question,        \* of each answer, the turn it answers
          Tokens,          \* the tokenCount of each
          Requests,        \* the model requests recorded
          LastTurn,        \* of each, the last turn its handler saves
          MaxFailures,     \* statements that throw in a behaviour
          MaxRestarts      \* restarts of the gateway

Ids == Conversations \cup Unknown

ASSUME StoreAssumption ==
    /\ Conversations \cap Unknown = {}
    /\ IsFiniteSet(Messages)
    /\ Thread \in [Messages -> Ids]
    /\ DOMAIN Question \subseteq Messages
    /\ \A m \in DOMAIN Question :
          Question[m] \in Messages \ {m} /\ Thread[Question[m]] = Thread[m]
    /\ Tokens \in [Messages -> Nat]
    /\ LastTurn \in [Requests -> Messages]
    /\ MaxFailures \in Nat /\ MaxRestarts \in Nat

VARIABLES connected,   \* isConnected: set by init() and never again
          pg,          \* the tables: conversations, their counts, messages, requests
          mem,         \* memConversations, their counts, memMessages, memRequests
          calls,       \* the messages by their created_at
          creating, saving, deleting, recording,   \* where each operation is
          failures,    \* statements that threw so far
          restarts,
          away         \* history: the gateway has run without its database

operations == <<creating, saving, deleting, recording>>
gateway == <<connected, restarts, away>>
vars == <<pg, mem, calls, operations, failures, gateway>>

Nowhere == {"idle", "lost", "done", "earlier"}   \* not between two steps

\* The shape of the state, the foreign key of messages included.
TypeOK ==
    /\ connected \in BOOLEAN /\ away \in BOOLEAN
    /\ pg \in [conversations : SUBSET Conversations, count : [Ids -> Nat],
               messages : SUBSET Messages, requests : SUBSET Requests]
    /\ \A m \in pg.messages : Thread[m] \in pg.conversations
    /\ mem \in [conversations : SUBSET Conversations, count : [Ids -> Nat],
                messages : [Ids -> Seq(Messages)], requests : SUBSET Requests]
    /\ calls \in Seq(Messages)
    /\ creating \in [Conversations -> Nowhere \cup {"memory"}]
    /\ saving \in [Messages -> Nowhere \cup {"insert", "update", "memory"}]
    /\ deleting \in [Ids -> Nowhere \cup {"memory"}]
    /\ recording \in [Requests -> Nowhere \cup {"memory"}]
    /\ failures \in 0..MaxFailures /\ restarts \in 0..MaxRestarts

NoRows == [conversations |-> {}, count |-> [c \in Ids |-> 0],
           messages |-> {}, requests |-> {}]
NoMemory == [NoRows EXCEPT !.messages = [c \in Ids |-> <<>>]]

Init ==
    /\ connected \in BOOLEAN /\ away = ~connected
    /\ pg = NoRows /\ mem = NoMemory /\ calls = <<>>
    /\ creating = [c \in Conversations |-> "idle"]
    /\ saving = [m \in Messages |-> "idle"]
    /\ deleting = [c \in Ids |-> "idle"]
    /\ recording = [r \in Requests |-> "idle"]
    /\ failures = 0 /\ restarts = 0

-----------------------------------------------------------------------------
\* A statement that turns the tables into `after' answers ...
Answers(after) == pg' = after /\ UNCHANGED failures

\* ... or throws, the connection being lost before or after it took effect.
Throws(after) ==
    /\ failures < MaxFailures
    /\ failures' = failures + 1
    /\ pg' \in {pg, after}

Runs(after) ==
    /\ Answers(after) \/ Throws(after)
    /\ UNCHANGED <<mem, calls, gateway>>

\* What follows the last statement of an operation that is at `step', or is
\* all of it without a connection: the memory becomes `after'.
Remembers(step, after) ==
    /\ step = "memory" \/ (step = "idle" /\ ~connected)
    /\ mem' = after
    /\ UNCHANGED <<pg, calls, failures, gateway>>

\* Clients name ids that createConversation gave out, or of nobody; what is
\* named may have been deleted since.
Named(id) == id \in Conversations => creating[id] \in {"done", "earlier", "lost"}

-----------------------------------------------------------------------------
(* createConversation, recordModelRequest *)

InsertConversation(c) ==
    /\ connected /\ creating[c] = "idle"
    /\ creating' = [creating EXCEPT ![c] = "memory"]
    /\ Runs([pg EXCEPT !.conversations = @ \cup {c}])
    /\ UNCHANGED <<saving, deleting, recording>>

RememberConversation(c) ==
    /\ Remembers(creating[c], [mem EXCEPT !.conversations = @ \cup {c},
                                          !.count[c] = 0, !.messages[c] = <<>>])
    /\ creating' = [creating EXCEPT ![c] = "done"]
    /\ UNCHANGED <<saving, deleting, recording>>

\* The handler records a request after the turns it saved.
Recordable(r) == recording[r] = "idle" /\ saving[LastTurn[r]] = "done"

InsertRequest(r) ==
    /\ connected /\ Recordable(r)
    /\ recording' = [recording EXCEPT ![r] = "memory"]
    /\ Runs([pg EXCEPT !.requests = @ \cup {r}])
    /\ UNCHANGED <<creating, saving, deleting>>

RememberRequest(r) ==
    /\ recording[r] = "memory" \/ Recordable(r)
    /\ Remembers(recording[r], [mem EXCEPT !.requests = @ \cup {r}])
    /\ recording' = [recording EXCEPT ![r] = "done"]
    /\ UNCHANGED <<creating, saving, deleting>>

-----------------------------------------------------------------------------
(* saveMessage *)

\* The handler that saves an answer has saved its question.
Callable(m) ==
    /\ Named(Thread[m]) /\ saving[m] = "idle"
    /\ m \in DOMAIN Question => saving[Question[m]] = "done"

\* The caller stamps the message with created_at, whose order is kept.
CallSave(m) ==
    /\ connected /\ Callable(m)
    /\ calls' = Append(calls, m)
    /\ saving' = [saving EXCEPT ![m] = "insert"]
    /\ UNCHANGED <<pg, mem, creating, deleting, recording, failures, gateway>>

\* INSERT INTO messages: refused, by the foreign key, without the
\* conversation's row.
InsertMessage(m) ==
    /\ saving[m] = "insert"
    /\ LET known == Thread[m] \in pg.conversations
           after == [pg EXCEPT !.messages = IF known THEN @ \cup {m} ELSE @]
       IN  \/ /\ Answers(after)
              /\ saving' = [saving EXCEPT ![m] = IF known THEN "update" ELSE "memory"]
           \/ /\ Throws(after)
              /\ saving' = [saving EXCEPT ![m] = "memory"]
    /\ UNCHANGED <<mem, calls, creating, deleting, recording, gateway>>

AddTo(count, m) == [count EXCEPT ![Thread[m]] = @ + Tokens[m]]

NewCountOverwriting(m) == [pg.count EXCEPT ![Thread[m]] = Tokens[m]]

\* UPDATE conversations: no row, no effect.
NewCount(m) == IF Thread[m] \in pg.conversations THEN AddTo(pg.count, m) ELSE pg.count

UpdateCount(m) ==
    /\ saving[m] = "update"
    /\ saving' = [saving EXCEPT ![m] = "memory"]
    /\ Runs([pg EXCEPT !.count = NewCount(m)])
    /\ UNCHANGED <<creating, deleting, recording>>

PushUnlessStored(m) ==
    IF m \in pg.messages THEN mem
    ELSE [mem EXCEPT !.messages[Thread[m]] = Append(@, m)]

PushAnew(m) == [mem EXCEPT !.messages[Thread[m]] = Append(@, m),
                           !.conversations = @ \cup ({Thread[m]} \ Unknown),
                           !.count = AddTo(@, m)]

\* The message is pushed on its conversation's list, a list made for it when
\* there is none; the count is kept for a conversation that is known.
Push(m) == [mem EXCEPT !.messages[Thread[m]] = Append(@, m),
                       !.count = IF Thread[m] \in mem.conversations
                                 THEN AddTo(@, m) ELSE @]

RememberMessage(m) ==
    /\ saving[m] = "memory" \/ Callable(m)
    /\ Remembers(saving[m], Push(m))
    /\ saving' = [saving EXCEPT ![m] = "done"]
    /\ UNCHANGED <<creating, deleting, recording>>

-----------------------------------------------------------------------------
(* deleteConversation *)

WithoutMessages(c) == [pg EXCEPT !.count[c] = 0,
                                 !.messages = {m \in @ : Thread[m] # c}]

\* DELETE FROM conversations cascades to the messages.
WithoutRows(c) == [pg EXCEPT !.conversations = @ \ {c}, !.count[c] = 0,
                             !.messages = {m \in @ : Thread[m] # c}]

DeleteRows(c) ==
    /\ connected /\ Named(c) /\ deleting[c] = "idle"
    /\ deleting' = [deleting EXCEPT ![c] = "memory"]
    /\ Runs(WithoutRows(c))
    /\ UNCHANGED <<creating, saving, recording>>

Forgotten(c) == [mem EXCEPT !.conversations = @ \ {c}, !.count[c] = 0,
                            !.messages[c] = <<>>]

ForgetConversation(c) ==
    /\ Named(c)
    /\ Remembers(deleting[c], Forgotten(c))
    /\ deleting' = [deleting EXCEPT ![c] = "done"]
    /\ UNCHANGED <<creating, saving, recording>>

-----------------------------------------------------------------------------
MigratedAnew == NoRows

\* The schema's tables are made if they are not there.
Migrated == pg

Interrupted(steps) ==
    [x \in DOMAIN steps |-> CASE steps[x] = "done" -> "earlier"
                              [] steps[x] \in {"insert", "update", "memory"} -> "lost"
                              [] OTHER -> steps[x]]

\* The process ends and another runs init(): it reaches the database or works
\* without, until it ends.
Restart ==
    /\ restarts < MaxRestarts
    /\ restarts' = restarts + 1
    /\ connected' \in BOOLEAN /\ away' = (away \/ ~connected')
    /\ pg' = Migrated /\ mem' = NoMemory
    /\ creating' = Interrupted(creating) /\ saving' = Interrupted(saving)
    /\ deleting' = Interrupted(deleting) /\ recording' = Interrupted(recording)
    /\ UNCHANGED <<calls, failures>>

Next ==
    \/ \E c \in Conversations : InsertConversation(c) \/ RememberConversation(c)
    \/ \E r \in Requests : InsertRequest(r) \/ RememberRequest(r)
    \/ \E m \in Messages :
          CallSave(m) \/ InsertMessage(m) \/ UpdateCount(m) \/ RememberMessage(m)
    \/ \E c \in Ids : DeleteRows(c) \/ ForgetConversation(c)
    \/ Restart

Spec == Init /\ [][Next]_vars

-----------------------------------------------------------------------------
(* What the methods that read may return.  A statement that throws leaves    *)
(* them with the memory, and changes nothing.                                *)

RowsOf(c) == {m \in pg.messages : Thread[m] = c}

FromTables(answers, remembered) ==
    (IF connected THEN answers ELSE {}) \cup
    (IF ~connected \/ failures < MaxFailures THEN {remembered} ELSE {})

CalledBefore(m, n) == \E i, j \in DOMAIN calls : i < j /\ calls[i] = m /\ calls[j] = n

NewestFirst(c) ==
    {read \in SetToSeqs(RowsOf(c)) :
        \A i, j \in DOMAIN read : i < j => CalledBefore(read[j], read[i])}

\* SELECT ... ORDER BY created_at ASC.
ByCall(c) ==
    {read \in SetToSeqs(RowsOf(c)) :
        \A i, j \in DOMAIN read : i < j => CalledBefore(read[i], read[j])}

GetMessages(c) == FromTables(ByCall(c), mem.messages[c])

\* Without a row, too, the memory is asked.
GetConversation(c) ==
    LET found == c \in pg.conversations \cup mem.conversations
    IN  FromTables({found}, c \in mem.conversations)

ListConversations == FromTables({pg.conversations}, mem.conversations)

\* getTelemetrySummary: of the memory, always.
TotalRequests == Cardinality(mem.requests)

-----------------------------------------------------------------------------
Remembered(c) == ToSet(mem.messages[c])
TokensOf(S) == MapThenSumSet(LAMBDA m : Tokens[m], S)
InStep(steps, at) == {x \in DOMAIN steps : steps[x] \in at}

\* No operation on c is between two of its steps.
AtRest(c) ==
    /\ creating[c] \in Nowhere /\ deleting[c] \in Nowhere
    /\ \A m \in Messages : Thread[m] = c => saving[m] \in Nowhere

\* Every statement so far answered, and there was always a database to answer.
Dependable == failures = 0 /\ ~away

\* INSERT and UPDATE are no transaction: the count in the table misses the
\* saves between the two and, for good, one message at most for each
\* statement that threw and each save that a restart cut; it is never over.
TableCountsItsMessages ==
    \A c \in pg.conversations :
        \E lost \in SUBSET RowsOf(c) :
            /\ Cardinality(lost \ InStep(saving, {"lost"})) <= failures
            /\ pg.count[c] =
                  TokensOf((RowsOf(c) \ InStep(saving, {"update"})) \ lost)

\* The memory can stand in for the tables, as far as this process goes,
\* whatever saves and deletions overtook each other: what it saved to a
\* conversation that is not being deleted is remembered, once, a
\* conversation's token count is that of its list, and every request that was
\* recorded is counted.
MemoryIsComplete ==
    /\ \A m \in InStep(saving, {"done"}) : deleting[Thread[m]] = "idle" =>
          Cardinality({i \in DOMAIN mem.messages[Thread[m]] :
                          mem.messages[Thread[m]][i] = m}) = 1
    /\ \A c \in mem.conversations : mem.count[c] = TokensOf(Remembered(c))
    /\ TotalRequests = Cardinality(InStep(recording, {"done"}))

\* While nothing has thrown, the tables and the memory know the
\* same of the conversations this process made, whenever no operation on one is
\* under way: that it is there, its messages and its count.
StoresAgreeAtRest ==
    connected /\ failures = 0 =>
        \A c \in InStep(creating, {"done"}) : AtRest(c) =>
            /\ c \in pg.conversations <=> c \in mem.conversations
            /\ c \in mem.conversations =>
                  /\ RowsOf(c) = Remembered(c)
                  /\ pg.count[c] = mem.count[c]

\* What was saved is read back from the tables, in this process and the next:
\* a restart costs nothing, and a statement that threw costs a conversation one
\* message at most, if it was not the one to insert the conversation.
SavesAreReadBack ==
    ~away =>
        \A c \in Conversations :
            (failures = 0 \/ c \in pg.conversations) /\ deleting[c] = "idle" =>
            Cardinality({m \in InStep(saving, {"done", "earlier"}) :
                            Thread[m] = c /\ m \notin RowsOf(c)}) <= failures

\* An answer is never read before its question, from the tables or from
\* memory, nor without it unless a statement that threw or a deletion took it:
\* the one is ordered by the time of the call, the other by the end of the save.
AnswerFollowsQuestion ==
    \A c \in Ids : \A read \in GetMessages(c) : \A m \in DOMAIN Question :
        m \in ToSet(read) =>
            \/ \E i, j \in DOMAIN read : i < j /\ read[i] = Question[m] /\ read[j] = m
            \/ Question[m] \notin ToSet(read) /\ (failures > 0 \/ deleting[c] # "idle")

\* A conversation whose deletion ended is not listed or found again, whatever
\* saves to it were under way: for good when every statement answered, and
\* else until the next start without a database.
DeletedIsGone ==
    \A c \in Conversations :
        \/ Dependable /\ deleting[c] \in {"done", "earlier"}
        \/ ~connected /\ deleting[c] = "done"
        => /\ GetConversation(c) = {FALSE}
           /\ \A listed \in ListConversations : c \notin listed

-----------------------------------------------------------------------------
\* A claim the code does not keep: "graceful in-memory storage fallbacks make
\* the application exceptionally resilient to transient network partitions"
\* (PROJECT-REVIEW.md:73): what was saved during one is read after it.
SavedIsRead ==
    \A m \in InStep(saving, {"done"}) : deleting[Thread[m]] = "idle" =>
        \A read \in GetMessages(Thread[m]) : m \in ToSet(read)

\* Another: /api/stats calls the summary "historical" (routes/stats.ts:19), and
\* it begins anew with the process.
SummaryIsHistorical == TotalRequests = Cardinality(InStep(recording, {"done", "earlier"}))
=============================================================================
