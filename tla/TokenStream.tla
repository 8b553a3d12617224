----------------------------- MODULE TokenStream -----------------------------
(***************************************************************************)
(* What one chat request streams: streamCompletion of the two providers    *)
(* (infrastructure/inference/mock-provider.ts, openai-provider.ts), the    *)
(* events that routes/chat.ts writes to the socket, what it stores of      *)
(* them, and the loop of useChat.ts that reads them and fills the bubble   *)
(* of the answer.  Breakers, limits and leases are ChatGateway's.          *)
(*                                                                         *)
(* An event travels as two parts, the second of which ends with the blank  *)
(* line, so that a read may end within an event.  Parts are numbered: 2i-1 *)
(* and 2i make event i.                                                    *)
(*                                                                         *)
(* A step is the code between two awaits.  The mock provider is shared:    *)
(* its fault flags may change while it streams.  How long an await lasts   *)
(* is left open.                                                           *)
(***************************************************************************)
EXTENDS Integers, Sequences, FiniteSets

CONSTANTS Streams,
          Words         \* words of the mock's answer, most tokens of OpenAI's

ASSUME StreamAssumption == Words \in Nat \ {0}

VARIABLES provider,    \* the one each stream was routed to
          flags,       \* forceError, forceTimeout, forcePartialError that are set
          pc,          \* what each stream awaits
          aborted,     \* its AbortSignal, the client having left
          emitted,     \* tokensEmittedCount
          events,      \* what was written to the socket
          turn,        \* tokens of the assistant's message, once saved
          row,         \* of model_requests
          reader,      \* the browser's loop over the response
          arrived,     \* how many parts it was given
          buffer,      \* those of them that it keeps for the next read
          bubble       \* what it shows

browser == <<reader, arrived, buffer, bubble>>
vars == <<provider, flags, pc, aborted, emitted, events, turn, row, browser>>

Flags == {"error", "timeout", "partial"}
Events == {"start", "reasoning", "token", "meta", "done", "error", "partialError"}
Steps == {"idle", "hang", "ttft", "thinking", "thought", "generating", "fetching",
          "reading", "saving", "recordSuccess", "recordError", "finally", "ended"}
Absent == -1
NoRow == [status |-> "none", outputTokens |-> 0]
Blank == [reasoning |-> 0, tokens |-> 0, totals |-> FALSE, notice |-> "none"]

TypeOK ==
    /\ provider \in [Streams -> {"mock", "openai"}]
    /\ flags \subseteq Flags
    /\ pc \in [Streams -> Steps]
    /\ aborted \in [Streams -> BOOLEAN]
    /\ emitted \in [Streams -> 0..Words]
    /\ events \in [Streams -> Seq(Events)]
    /\ turn \in [Streams -> Absent..Words]
    /\ row \in [Streams -> [status : {"none", "success", "error"}, outputTokens : 0..Words]]
    /\ reader \in [Streams -> {"reading", "finished", "stopped", "failed"}]
    /\ arrived \in [Streams -> Nat]
    /\ buffer \in [Streams -> SUBSET Nat]
    /\ bubble \in [Streams -> [reasoning : Nat, tokens : Nat, totals : BOOLEAN,
                               notice : {"none", "error", "failed"}]]

Init ==
    /\ provider \in [Streams -> {"mock", "openai"}]
    /\ flags = {}
    /\ pc = [r \in Streams |-> "idle"]
    /\ aborted = [r \in Streams |-> FALSE]
    /\ emitted = [r \in Streams |-> 0]
    /\ events = [r \in Streams |-> <<>>]
    /\ turn = [r \in Streams |-> Absent]
    /\ row = [r \in Streams |-> NoRow]
    /\ reader = [r \in Streams |-> "reading"]
    /\ arrived = [r \in Streams |-> 0]
    /\ buffer = [r \in Streams |-> {}]
    /\ bubble = [r \in Streams |-> Blank]

-----------------------------------------------------------------------------
Goto(r, step) == pc' = [pc EXCEPT ![r] = step]
Write(r, written) == events' = [events EXCEPT ![r] = @ \o written]

\* A step that leaves alone what is stored, the flags and the browser.
Streaming == UNCHANGED <<provider, flags, aborted, turn, row, browser>>

ThrowsEvenIfAborted(r, written) ==
    /\ Goto(r, "recordError")
    /\ Write(r, Append(written, IF emitted[r] > 0 THEN "partialError" ELSE "error"))
    /\ UNCHANGED emitted

ThrowsPartialIfForced(r, written) ==
    /\ IF aborted[r]
       THEN Goto(r, "finally") /\ Write(r, written)
       ELSE /\ Goto(r, "recordError")
            /\ Write(r, Append(written, IF "partial" \in flags THEN "partialError" ELSE "error"))
    /\ UNCHANGED emitted

\* streamCompletion throws, after what it wrote in this step: an error event,
\* unless the client is gone.
Throws(r, written) ==
    /\ IF aborted[r]
       THEN Goto(r, "finally") /\ Write(r, written)
       ELSE /\ Goto(r, "recordError")
            /\ Write(r, Append(written, IF emitted[r] > 0 THEN "partialError" ELSE "error"))
    /\ UNCHANGED emitted

\* It returns, whether or not the client is there.
Returns(r) ==
    /\ Goto(r, "saving")
    /\ Write(r, <<"meta", "done">>)
    /\ UNCHANGED emitted

\* The start event; the provider is called and runs to its first await.
Begin(r) ==
    /\ pc[r] = "idle"
    /\ \/ /\ provider[r] = "mock" /\ "error" \in flags
          /\ Throws(r, <<"start">>)
       \/ /\ ~(provider[r] = "mock" /\ "error" \in flags)
          /\ Goto(r, IF provider[r] = "openai" THEN "fetching"
                     ELSE IF "timeout" \in flags THEN "hang" ELSE "ttft")
          /\ Write(r, <<"start">>)
          /\ UNCHANGED emitted
    /\ Streaming

-----------------------------------------------------------------------------
(* The mock provider's timers *)

\* The forced timeout throws after 32 s, aborted or not.
HangOver(r) ==
    /\ pc[r] = "hang"
    /\ Throws(r, <<>>)
    /\ Streaming

GenerateUntilAborted(r) ==
    IF emitted[r] = Words \/ aborted[r] THEN Returns(r)
    ELSE IF "partial" \in flags /\ 2 * emitted[r] > Words THEN Throws(r, <<>>)
    ELSE /\ Goto(r, "generating")
         /\ Write(r, <<"token">>)
         /\ emitted' = [emitted EXCEPT ![r] = @ + 1]

\* A pass of the token loop (a word and the blank after it), or its end; no
\* abort is looked for after the last word.
Generate(r) ==
    IF emitted[r] = Words THEN Returns(r)
    ELSE IF aborted[r] \/ ("partial" \in flags /\ 2 * emitted[r] > Words)
    THEN Throws(r, <<>>)
    ELSE /\ Goto(r, "generating")
         /\ Write(r, <<"token">>)
         /\ emitted' = [emitted EXCEPT ![r] = @ + 1]

\* Two reasoning chunks first, when the model is of that tier; an abort is
\* met either way.
Think(r, next) ==
    IF aborted[r] THEN Throws(r, <<>>)
    ELSE Goto(r, next) /\ Write(r, <<"reasoning">>) /\ UNCHANGED emitted

TtftOver(r) ==
    /\ pc[r] = "ttft"
    /\ Think(r, "thinking") \/ Generate(r)
    /\ Streaming

ReasoningOver(r) ==
    /\ \/ pc[r] = "thinking" /\ Think(r, "thought")
       \/ pc[r] = "thought" /\ Generate(r)
    /\ Streaming

TokenOver(r) ==
    /\ pc[r] = "generating"
    /\ Generate(r)
    /\ Streaming

-----------------------------------------------------------------------------
(* The OpenAI provider's fetch and reads, which an abort rejects *)

FetchAnswers(r) ==
    /\ pc[r] = "fetching"
    /\ \/ ~aborted[r] /\ Goto(r, "reading") /\ UNCHANGED <<events, emitted>>
       \/ Throws(r, <<>>)
    /\ Streaming

ReadChunk(r) ==
    /\ pc[r] = "reading"
    /\ ~aborted[r]
    /\ \E k \in 1..2 :
          /\ emitted[r] + k <= Words
          /\ Write(r, [i \in 1..k |-> "token"])
          /\ emitted' = [emitted EXCEPT ![r] = @ + k]
    /\ UNCHANGED pc
    /\ Streaming

\* The end of the body, wherever the answer is: [DONE] is not waited for.
ReadEnd(r) ==
    /\ pc[r] = "reading"
    /\ ~aborted[r]
    /\ Returns(r)
    /\ Streaming

ReadFails(r) ==
    /\ pc[r] = "reading"
    /\ Throws(r, <<>>)
    /\ Streaming

-----------------------------------------------------------------------------
(* What chat.ts stores of it *)

SaveAnswer(r) ==
    /\ pc[r] = "saving"
    /\ turn' = [turn EXCEPT ![r] = emitted[r]]
    /\ Goto(r, "recordSuccess")
    /\ UNCHANGED <<provider, flags, aborted, emitted, events, row, browser>>

RecordRow(r) ==
    /\ \/ /\ pc[r] = "recordSuccess"
          /\ row' = [row EXCEPT ![r] = [status |-> "success", outputTokens |-> emitted[r]]]
       \/ /\ pc[r] = "recordError"
          /\ row' = [row EXCEPT ![r] = [status |-> "error", outputTokens |-> 0]]
    /\ Goto(r, "finally")
    /\ UNCHANGED <<provider, flags, aborted, emitted, events, turn, browser>>

\* reply.raw.end()
Finish(r) ==
    /\ pc[r] = "finally"
    /\ Goto(r, "ended")
    /\ UNCHANGED <<emitted, events>>
    /\ Streaming

ClientLeaves(r) ==
    /\ pc[r] \notin {"idle", "ended"}
    /\ ~aborted[r]
    /\ aborted' = [aborted EXCEPT ![r] = TRUE]
    /\ UNCHANGED <<provider, flags, pc, emitted, events, turn, row, browser>>

-----------------------------------------------------------------------------
(* The loop of sendMessage that reads the response *)

Server == UNCHANGED <<provider, flags, pc, aborted, emitted, events, turn, row>>

\* The events among the lines of a buffer, by number: a line that is not a
\* whole event does not parse, and is passed over.
Lines(r, parts) == {i \in 1..Len(events[r]) : {2 * i - 1, 2 * i} \subseteq parts}

NoRemainder(parts) == {}

\* lines.pop(): what follows the last blank line.
Remainder(parts) == {p \in parts : p % 2 = 1 /\ \A q \in parts : q <= p}

\* What the lines of a read do to the bubble, one after the other: tokens and
\* errors are written over each other; start and done leave it alone.
Apply(r, shown, lines) ==
    LET these(kinds) == {i \in lines : events[r][i] \in kinds}
        written == these({"token", "error", "partialError"})
        errorIsLast == \E i \in written : events[r][i] # "token" /\ \A j \in written : j <= i
    IN  [reasoning |-> shown.reasoning + Cardinality(these({"reasoning"})),
         tokens    |-> shown.tokens + Cardinality(these({"token"})),
         totals    |-> shown.totals \/ these({"meta"}) # {},
         notice    |-> IF written = {} THEN shown.notice
                       ELSE IF errorIsLast THEN "error" ELSE "none"]

\* A read brings any number of parts.
ReadResponse(r) ==
    /\ reader[r] = "reading"
    /\ \E n \in (arrived[r] + 1)..(2 * Len(events[r])) :
          LET parts == buffer[r] \cup (arrived[r] + 1)..n
          IN  /\ arrived' = [arrived EXCEPT ![r] = n]
              /\ buffer' = [buffer EXCEPT ![r] = Remainder(parts)]
              /\ bubble' = [bubble EXCEPT ![r] = Apply(r, @, Lines(r, parts))]
    /\ UNCHANGED reader /\ Server

\* The response has ended, and the connection with it.
ResponseEnds(r) ==
    /\ reader[r] = "reading" /\ ~aborted[r]
    /\ pc[r] = "ended" /\ arrived[r] = 2 * Len(events[r])
    /\ reader' = [reader EXCEPT ![r] = "finished"]
    /\ UNCHANGED <<arrived, buffer, bubble>> /\ Server

\* The user stops it, and the bubble stays; or the connection breaks, and the
\* bubble says so.  The server hears of it when it does (ClientLeaves).
ResponseBreaks(r) ==
    /\ reader[r] = "reading" /\ pc[r] # "idle"
    /\ \/ reader' = [reader EXCEPT ![r] = "stopped"] /\ UNCHANGED bubble
       \/ /\ reader' = [reader EXCEPT ![r] = "failed"]
          /\ bubble' = [bubble EXCEPT ![r].notice = "failed"]
    /\ UNCHANGED <<arrived, buffer>> /\ Server

-----------------------------------------------------------------------------
\* Enabling and disabling one fault, or clearing all (reset_circuits).
InjectFault ==
    /\ \E f \in Flags : flags' \in {flags \cup {f}, flags \ {f}, {}}
    /\ UNCHANGED <<provider, pc, aborted, emitted, events, turn, row, browser>>

Next ==
    \/ \E r \in Streams :
          \/ Begin(r) \/ HangOver(r) \/ TtftOver(r) \/ ReasoningOver(r) \/ TokenOver(r)
          \/ FetchAnswers(r) \/ ReadChunk(r) \/ ReadEnd(r) \/ ReadFails(r)
          \/ SaveAnswer(r) \/ RecordRow(r) \/ Finish(r) \/ ClientLeaves(r)
          \/ ReadResponse(r) \/ ResponseEnds(r) \/ ResponseBreaks(r)
    \/ InjectFault

Spec == Init /\ [][Next]_vars

-----------------------------------------------------------------------------
Wrote(r, e) == \E i \in 1..Len(events[r]) : events[r][i] = e
Count(r, e) == Cardinality({i \in 1..Len(events[r]) : events[r][i] = e})

Rank(e) == CASE e = "start" -> 0
             [] e = "reasoning" -> 1
             [] e = "token" -> 2
             [] e \in {"meta", "error", "partialError"} -> 3
             [] e = "done" -> 4

\* A reader of the socket sees the start, the reasoning, the tokens, and then
\* either the totals and "done" or one error, which says truly whether tokens
\* came before it; nothing of one kind comes after a later kind.
StreamWellFormed ==
    \A r \in Streams :
        /\ \A i, j \in 1..Len(events[r]) : i < j =>
              \/ Rank(events[r][i]) < Rank(events[r][j])
              \/ events[r][i] = events[r][j] /\ events[r][i] \in {"reasoning", "token"}
        /\ Wrote(r, "done") => Wrote(r, "meta")
        /\ Wrote(r, "error") => Count(r, "token") = 0
        /\ Wrote(r, "partialError") => Count(r, "token") > 0

\* Socket, conversation and telemetry tell the same story of a stream that
\* ended: a success shows, stores and records the same whole answer, a
\* failure shows an error, stores nothing and is recorded, and only a stream
\* whose client left may do neither.
OutcomeAgrees ==
    \A r \in Streams : pc[r] = "ended" =>
        /\ row[r].status = "success" <=> Wrote(r, "done")
        /\ row[r].status = "error" <=> Wrote(r, "error") \/ Wrote(r, "partialError")
        /\ row[r].status = "none" => aborted[r]
        /\ turn[r] # Absent <=> Wrote(r, "done")
        /\ turn[r] # Absent =>
              /\ turn[r] = Count(r, "token") /\ row[r].outputTokens = turn[r]
              /\ provider[r] = "mock" => turn[r] = Words

\* The bubble ends as the stored conversation does, however the response was
\* cut into reads: one that was read to its end shows the whole stored answer
\* with its totals, or the error that was recorded; and at any time the totals
\* stand under a whole answer only.
BubbleMatchesStore ==
    \A r \in Streams :
        /\ reader[r] = "finished" =>
              /\ bubble[r].notice = "error" <=> row[r].status = "error"
              /\ bubble[r].totals <=> row[r].status = "success"
              /\ row[r].status = "success" => bubble[r].tokens = turn[r]
        /\ bubble[r].totals => bubble[r].tokens = emitted[r]
        /\ bubble[r].reasoning <= Count(r, "reasoning")

\* Once the client has left the provider writes at most the end of an answer
\* that was complete: no token, no reasoning, no error.
AfterAbortOnlyTheEnd ==
    [][\A r \in Streams : aborted[r] =>
          \A i \in (Len(events[r]) + 1)..Len(events'[r]) :
              events'[r][i] \in {"meta", "done"}]_vars

-----------------------------------------------------------------------------
\* Claims the code does not keep.

\* "records the partial tokens generated in the database usage record"
\* (docs/interview-questions.md:35)
PartialTokensRecorded ==
    \A r \in Streams : row[r].status = "error" => row[r].outputTokens = emitted[r]

\* model_requests is the "audit trail" (db/schema.sql:86), with a status
\* 'aborted' (domain/types.ts:102): every stream that ended is in it.
EveryStreamIsAudited == \A r \in Streams : pc[r] = "ended" => row[r] # NoRow
=============================================================================
