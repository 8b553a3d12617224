----------------------------- MODULE ChatClient -----------------------------
(***************************************************************************)
(* useChat (apps/web/src/hooks/useChat.ts), the state of one browser tab,  *)
(* against the routes it calls.  The user may act between any two answers; *)
(* an answer is applied to the state it finds, but by a callback that      *)
(* remembers the conversation current when it was made.                    *)
(*                                                                         *)
(* Of the server's handling of a message (ChatGateway) there remains what  *)
(* the tab can tell: where the turns go and when the events are written.   *)
(* The browser delivers the events of a response in order and, when a      *)
(* fetch is aborted, runs its catch and finally blocks before the next     *)
(* event of the user.  The side bar's list is left out: any conversation   *)
(* may be picked, deleted ones included.                                   *)
(***************************************************************************)
EXTENDS Integers, Sequences

CONSTANTS Existing,   \* conversations there from the start
          Sends,      \* messages the user types, each once
          Fresh,      \* the conversation made for each, when it names none
          Loads,      \* calls of selectConversation
          Deletes     \* calls of deleteConversation

None == "none"
Ids == Existing \cup {Fresh[s] : s \in Sends}

ASSUME ClientAssumption ==
    /\ None \notin Ids
    /\ \A s, t \in Sends : Fresh[s] = Fresh[t] => s = t
    /\ \A s \in Sends : Fresh[s] \notin Existing

VARIABLES current, shown, streaming, ref,    \* the hook's state
          sending, loading, deleting,        \* its calls under way
          gone,                              \* sends whose connection is closed
          serving, where, wire,              \* their handlers, and what they wrote
          threads, log,                      \* the server's conversations
          disturbed                          \* history: see ViewMatchesServer

hook == <<current, shown, streaming, ref>>
server == <<threads, log>>
clientVars == <<hook, sending, loading, deleting, gone, serving, where, wire, server, disturbed>>

Turn == [role : {"user", "assistant"}, of : Sends]
Shown == [turn : Turn, text : {"said", "empty", "answer", "notice"}, local : BOOLEAN]

ClientTypeOK ==
    /\ current \in Ids \cup {None}
    /\ shown \in Seq(Shown)
    /\ streaming \in BOOLEAN
    /\ ref \in Sends \cup {None}
    /\ sending \in [Sends -> [step : {"idle", "active", "ended"}, conv : Ids \cup {None}]]
    /\ loading \in [Loads -> [step : {"idle", "asked", "answered", "failed", "done"},
                              conv : Ids \cup {None}, turns : Seq(Turn)]]
    /\ deleting \in [Deletes -> [step : {"idle", "asked", "answered", "done"},
                                 conv : Ids \cup {None}, wasCurrent : BOOLEAN]]
    /\ gone \subseteq Sends
    /\ serving \in [Sends -> {"idle", "request", "question", "stream", "answer", "end", "over"}]
    /\ where \in [Sends -> Ids \cup {None}]
    /\ wire \in [Sends -> Seq({"limited", "start", "token", "error", "end"})]
    /\ threads \subseteq Ids
    /\ log \in [Ids -> Seq(Turn)]
    /\ disturbed \in BOOLEAN

ClientInit ==
    /\ current = None /\ shown = <<>> /\ streaming = FALSE /\ ref = None
    /\ sending = [s \in Sends |-> [step |-> "idle", conv |-> None]]
    /\ loading = [l \in Loads |-> [step |-> "idle", conv |-> None, turns |-> <<>>]]
    /\ deleting = [d \in Deletes |-> [step |-> "idle", conv |-> None, wasCurrent |-> FALSE]]
    /\ gone = {}
    /\ serving = [s \in Sends |-> "idle"]
    /\ where = [s \in Sends |-> None]
    /\ wire = [s \in Sends |-> <<>>]
    /\ threads = Existing
    /\ log = [c \in Ids |-> <<>>]
    /\ disturbed = FALSE

Active(s) == sending[s].step = "active"

\* Nothing is under way, in the tab or on the server.
Quiet ==
    /\ \A s \in Sends : ~Active(s) /\ serving[s] \in {"idle", "over"}
    /\ \A l \in Loads : loading[l].step \in {"idle", "done"}
    /\ \A d \in Deletes : deleting[d].step \in {"idle", "done"}

\* What is under way has nothing to do with conversation c: at most deletions
\* of others, after which the tab stays where it is.
Calm(c) ==
    /\ \A s \in Sends : ~Active(s) /\ serving[s] \in {"idle", "over"}
    /\ \A l \in Loads : loading[l].step \in {"idle", "done"}
    /\ \A d \in Deletes : deleting[d].step \in {"asked", "answered"} =>
          ~deleting[d].wasCurrent /\ deleting[d].conv # c

\* Conversation c is current, or a message is under way to it.
InUse(c) ==
    c = current \/ \E s \in Sends : Active(s) /\ c \in {sending[s].conv, where[s]}

-----------------------------------------------------------------------------
(* The user *)

Item(turn, text, local) == [turn |-> turn, text |-> text, local |-> local]
Question(s) == [role |-> "user", of |-> s]
Answer(s)   == [role |-> "assistant", of |-> s]

\* sendMessage up to its fetch; retryLast sends again, as another message.
Send(s) ==
    /\ sending[s].step = "idle" /\ ~streaming
    /\ shown' = shown \o <<Item(Question(s), "said", TRUE), Item(Answer(s), "empty", TRUE)>>
    /\ streaming' = TRUE
    /\ ref' = s
    /\ sending' = [sending EXCEPT ![s] = [step |-> "active", conv |-> current]]
    /\ serving' = [serving EXCEPT ![s] = "request"]
    /\ disturbed' = (disturbed \/ ~Calm(current))
    /\ UNCHANGED <<current, loading, deleting, gone, where, wire, server>>

StopWithoutAbort ==
    /\ ref # None
    /\ streaming' = FALSE /\ ref' = None
    /\ disturbed' = TRUE
    /\ UNCHANGED <<current, shown, sending, loading, deleting, gone, serving, where, wire, server>>

\* stopGeneration, and the end of the aborted sendMessage.
Stop ==
    /\ ref # None
    /\ sending' = [sending EXCEPT ![ref].step = "ended"]
    /\ gone' = gone \cup {ref}
    /\ wire' = [wire EXCEPT ![ref] = <<>>]
    /\ streaming' = FALSE /\ ref' = None
    /\ disturbed' = TRUE
    /\ UNCHANGED <<current, shown, loading, deleting, serving, where, server>>

Select(l, c) ==
    /\ loading[l].step = "idle"
    /\ current' = c
    /\ loading' = [loading EXCEPT ![l] = [step |-> "asked", conv |-> c, turns |-> <<>>]]
    /\ disturbed' = ~Calm(c)
    /\ UNCHANGED <<shown, streaming, ref, sending, deleting, gone, serving, where, wire, server>>

NewChat ==
    /\ current' = None /\ shown' = <<>>
    /\ disturbed' = ~Calm(None)
    /\ UNCHANGED <<streaming, ref, sending, loading, deleting, gone, serving, where, wire, server>>

Delete(d, c) ==
    /\ deleting[d].step = "idle"
    /\ deleting' = [deleting EXCEPT ![d] =
                       [step |-> "asked", conv |-> c, wasCurrent |-> current = c]]
    /\ disturbed' = (disturbed \/ (InUse(c) /\ ~Calm(c)))
    /\ UNCHANGED <<hook, sending, loading, gone, serving, where, wire, server>>

-----------------------------------------------------------------------------
(* Answers *)

SetText(s, text) ==
    shown' = [i \in 1..Len(shown) |->
                 IF shown[i].local /\ shown[i].turn = Answer(s)
                 THEN [shown[i] EXCEPT !.text = text] ELSE shown[i]]

\* The finally block of sendMessage.
EndSend(s) ==
    /\ sending' = [sending EXCEPT ![s].step = "ended"]
    /\ streaming' = FALSE
    /\ ref' = None

AdoptNothing(s) == UNCHANGED current

\* A message that named no conversation makes its own the current one.
Adopt(s) == current' = IF sending[s].conv = None THEN where[s] ELSE current

\* The next event of the response.
Receive(s) ==
    /\ Active(s) /\ wire[s] # <<>>
    /\ wire' = [wire EXCEPT ![s] = Tail(@)]
    /\ \/ /\ Head(wire[s]) = "start"
          /\ Adopt(s)
          /\ UNCHANGED <<shown, streaming, ref, sending, disturbed>>
       \/ /\ Head(wire[s]) = "token"
          /\ SetText(s, "answer")
          /\ UNCHANGED <<current, streaming, ref, sending, disturbed>>
       \/ /\ Head(wire[s]) = "error"
          /\ SetText(s, "notice") /\ disturbed' = TRUE
          /\ UNCHANGED <<current, streaming, ref, sending>>
       \/ /\ Head(wire[s]) = "limited"
          /\ SetText(s, "notice") /\ EndSend(s) /\ disturbed' = TRUE
          /\ UNCHANGED current
       \/ /\ Head(wire[s]) = "end"
          /\ EndSend(s)
          /\ UNCHANGED <<current, shown, disturbed>>
    /\ UNCHANGED <<loading, deleting, gone, serving, where, server>>

\* The connection is lost: "Request Failed".
Break(s) ==
    /\ Active(s)
    /\ SetText(s, "notice") /\ EndSend(s)
    /\ gone' = gone \cup {s}
    /\ wire' = [wire EXCEPT ![s] = <<>>]
    /\ disturbed' = TRUE
    /\ UNCHANGED <<current, loading, deleting, serving, where, server>>

Displayed(turns) ==
    [i \in 1..Len(turns) |->
        Item(turns[i], IF turns[i].role = "user" THEN "said" ELSE "answer", FALSE)]

\* The messages replace what is shown, whichever conversation is current now.
Loaded(l) ==
    /\ loading[l].step \in {"answered", "failed"}
    /\ IF loading[l].step = "answered"
       THEN shown' = Displayed(loading[l].turns) /\ UNCHANGED disturbed
       ELSE disturbed' = TRUE /\ UNCHANGED shown
    /\ loading' = [loading EXCEPT ![l] = [step |-> "done", conv |-> None, turns |-> <<>>]]
    /\ UNCHANGED <<current, streaming, ref, sending, deleting, gone, serving, where, wire, server>>

\* A new chat is started if the conversation was current when it was deleted.
Deleted(d) ==
    /\ deleting[d].step = "answered"
    /\ IF deleting[d].wasCurrent THEN current' = None /\ shown' = <<>>
                                 ELSE UNCHANGED <<current, shown>>
    /\ deleting' = [deleting EXCEPT ![d] = [step |-> "done", conv |-> None, wasCurrent |-> FALSE]]
    /\ UNCHANGED <<streaming, ref, sending, loading, gone, serving, where, wire, server, disturbed>>

\* The request or its answer is lost, and the tab stays as it is: also when
\* the server has deleted what it shows.
DeleteFails(d) ==
    /\ deleting[d].step \in {"asked", "answered"}
    /\ disturbed' = (disturbed \/ (deleting[d].step = "answered" /\ deleting[d].wasCurrent))
    /\ deleting' = [deleting EXCEPT ![d] = [step |-> "done", conv |-> None, wasCurrent |-> FALSE]]
    /\ UNCHANGED <<hook, sending, loading, gone, serving, where, wire, server>>

-----------------------------------------------------------------------------
(* The server *)

ServeTo(s, step) == serving' = [serving EXCEPT ![s] = step]
\* What is written to a closed connection is lost.
WriteTo(s, event) == wire' = IF s \in gone THEN wire ELSE [wire EXCEPT ![s] = Append(@, event)]
Save(s, turn) == log' = [log EXCEPT ![where[s]] = Append(@, turn)]
TabOnly == UNCHANGED <<hook, sending, loading, deleting, gone, disturbed>>

\* The conversation is made before the limits are looked at.
Resolve(s) ==
    /\ serving[s] = "request"
    /\ LET conv == IF sending[s].conv = None THEN Fresh[s] ELSE sending[s].conv
       IN  /\ where' = [where EXCEPT ![s] = conv]
           /\ threads' = IF sending[s].conv = None THEN threads \cup {conv} ELSE threads
    /\ \/ ServeTo(s, "question") /\ UNCHANGED wire
       \/ ServeTo(s, "over") /\ WriteTo(s, "limited")
    /\ TabOnly /\ UNCHANGED log

SaveQuestion(s) ==
    /\ serving[s] = "question"
    /\ Save(s, Question(s))
    /\ WriteTo(s, "start")
    /\ ServeTo(s, "stream")
    /\ TabOnly /\ UNCHANGED <<where, threads>>

StreamEndingFirst(s) ==
    /\ serving[s] = "stream"
    /\ wire' = [wire EXCEPT ![s] = @ \o <<"token", "end">>]
    /\ ServeTo(s, "answer")
    /\ TabOnly /\ UNCHANGED <<where, server>>

\* The whole answer is streamed, or none of it, or it is dropped for a client
\* that left.
Stream(s) ==
    /\ serving[s] = "stream"
    /\ \/ WriteTo(s, "token") /\ ServeTo(s, "answer")
       \/ s \notin gone /\ WriteTo(s, "error") /\ ServeTo(s, "end")
       \/ s \in gone /\ UNCHANGED wire /\ ServeTo(s, "end")
    /\ TabOnly /\ UNCHANGED <<where, server>>

StoreAnswer(s) ==
    /\ serving[s] = "answer"
    /\ Save(s, Answer(s))
    /\ ServeTo(s, "end")
    /\ TabOnly /\ UNCHANGED <<where, wire, threads>>

End(s) ==
    /\ serving[s] = "end"
    /\ WriteTo(s, "end")
    /\ ServeTo(s, "over")
    /\ TabOnly /\ UNCHANGED <<where, server>>

\* GET /api/conversations/:id, a 404 or a lost answer.
AnswerLoad(l) ==
    /\ loading[l].step = "asked"
    /\ \/ /\ loading[l].conv \in threads
          /\ loading' = [loading EXCEPT ![l].step = "answered", ![l].turns = log[loading[l].conv]]
       \/ loading' = [loading EXCEPT ![l].step = "failed"]
    /\ UNCHANGED <<hook, sending, deleting, gone, serving, where, wire, server, disturbed>>

AnswerDelete(d) ==
    /\ deleting[d].step = "asked"
    /\ threads' = threads \ {deleting[d].conv}
    /\ log' = [log EXCEPT ![deleting[d].conv] = <<>>]
    /\ deleting' = [deleting EXCEPT ![d].step = "answered"]
    /\ UNCHANGED <<hook, sending, loading, gone, serving, where, wire, disturbed>>

Serve(s) == Resolve(s) \/ SaveQuestion(s) \/ Stream(s) \/ StoreAnswer(s) \/ End(s)

\* Ids that were given out.
Known == (Existing \cup {where[s] : s \in Sends}) \ {None}

ClientNext ==
    \/ \E s \in Sends : Send(s) \/ Receive(s) \/ Break(s) \/ Serve(s)
    \/ Stop \/ NewChat
    \/ \E l \in Loads : AnswerLoad(l) \/ Loaded(l) \/ \E c \in Known : Select(l, c)
    \/ \E d \in Deletes : AnswerDelete(d) \/ Deleted(d) \/ DeleteFails(d)
                          \/ \E c \in Known : Delete(d, c)

ClientSpec == ClientInit /\ [][ClientNext]_clientVars

-----------------------------------------------------------------------------
\* The input is closed while a stream is under way, no longer, and the stop
\* button aborts that very stream: it is never out of reach.
StreamIsInReach ==
    /\ \A s \in Sends : Active(s) => streaming /\ ref = s
    /\ streaming => \E s \in Sends : Active(s)

\* The tab sends nothing before the last stream's end, which the server
\* writes after the answer is saved: between a message and its answer a
\* conversation has no turns but those of streams that the client cut.
AnswersFollowQuestions ==
    \A c \in threads : \A i \in 1..Len(log[c]) :
        log[c][i].role = "assistant" /\ log[c][i].of \notin gone =>
            \E j \in 1..(i - 1) :
                /\ log[c][j] = Question(log[c][i].of)
                /\ \A k \in (j + 1)..(i - 1) : log[c][k].of \in gone

\* What is shown is what the server has of the current conversation, whenever
\* nothing is under way, however many deletions of other conversations were
\* answered, lost or failed meanwhile.  Excepted are the tabs in which, since
\* the user last opened a conversation or a new chat with nothing under way
\* but such deletions, a message or a load failed, was stopped or refused; the
\* answer to the deletion of what is shown was lost; or the user sent a
\* message, or deleted a conversation in use, before what concerned it was
\* answered (useChat has no guard against these).  Whatever happens, no turn
\* is shown twice.
ViewMatchesServer ==
    /\ \A i, j \in 1..Len(shown) : shown[i].turn = shown[j].turn => i = j
    /\ Quiet /\ ~disturbed =>
          [i \in 1..Len(shown) |-> [shown[i] EXCEPT !.local = FALSE]]
              = IF current = None THEN <<>> ELSE Displayed(log[current])
=============================================================================
