---------------------------- MODULE ClientProofs ----------------------------
(***************************************************************************)
(* Proofs about what the user sees: an answer on its way to the screen     *)
(* (TokenStream), for any streams and lengths of answers, faults, aborts   *)
(* and cuts of the response into reads; and the tab that shows the         *)
(* conversations (ChatClient), for any messages, loads and deletions.      *)
(***************************************************************************)
EXTENDS TokenStream, ChatClient, TLAPS, FiniteSetTheorems
-----------------------------------------------------------------------------
(* TokenStream: sequences of events *)

\* The kinds of events in a list, and where a kind is.
Kinds(s) == {s[i] : i \in 1..Len(s)}
Places(s, e) == {i \in 1..Len(s) : s[i] = e}
Before(a, b) == Rank(a) < Rank(b) \/ (a = b /\ a \in {"reasoning", "token"})
Ordered(s) == \A i, j \in 1..Len(s) : i < j => Before(s[i], s[j])

\* One event is appended.
LEMMA Appended ==
    ASSUME NEW s \in Seq(Events), NEW e \in Events
    PROVE  /\ Append(s, e) \in Seq(Events) /\ Len(s) \in Nat
           /\ Len(Append(s, e)) = Len(s) + 1 /\ Append(s, e)[Len(s) + 1] = e
           /\ \A i \in 1..Len(s) : Append(s, e)[i] = s[i]
           /\ s \o <<e>> = Append(s, e)
OBVIOUS

\* The kinds of events of a list that grows by one.
LEMMA KindsAppended ==
    ASSUME NEW s \in Seq(Events), NEW e \in Events
    PROVE  Kinds(Append(s, e)) = Kinds(s) \cup {e}
<1> DEFINE t == Append(s, e)
<1>1. /\ Len(s) \in Nat /\ Len(t) = Len(s) + 1 /\ t[Len(s) + 1] = e
      /\ \A i \in 1..Len(s) : t[i] = s[i]
    BY Appended
<1>2. 1..Len(t) = 1..Len(s) \cup {Len(s) + 1} BY <1>1, SMT
<1> HIDE DEF t
<1>3. Kinds(t) = Kinds(s) \cup {e} BY <1>1, <1>2 DEF Kinds
<1> QED BY <1>3 DEF t

\* A list stays in order when what is appended may follow all that is there.
LEMMA OrderedAppended ==
    ASSUME NEW s \in Seq(Events), NEW e \in Events, Ordered(s),
           \A k \in Kinds(s) : Before(k, e)
    PROVE  Ordered(Append(s, e))
<1> DEFINE t == Append(s, e)
<1>1. /\ Len(s) \in Nat /\ Len(t) = Len(s) + 1 /\ t[Len(s) + 1] = e
      /\ \A i \in 1..Len(s) : t[i] = s[i]
    BY Appended
<1> HIDE DEF t
<1>2. ASSUME NEW i \in 1..Len(t), NEW j \in 1..Len(t), i < j PROVE Before(t[i], t[j])
    <2>1. i \in 1..Len(s) /\ (j \in 1..Len(s) \/ j = Len(s) + 1) BY <1>1, <1>2, SMT
    <2>2. CASE j \in 1..Len(s) BY <2>1, <2>2, <1>1, <1>2 DEF Ordered
    <2>3. CASE j = Len(s) + 1
        <3>1. s[i] \in Kinds(s) BY <2>1 DEF Kinds
        <3> QED BY <3>1, <2>1, <2>3, <1>1
    <2> QED BY <2>1, <2>2, <2>3
<1>3. Ordered(t) BY <1>2 DEF Ordered
<1> QED BY <1>3 DEF t

\* The places of a kind of event in a list can be counted.
LEMMA PlacesFinite ==
    ASSUME NEW s \in Seq(Events), NEW e
    PROVE  IsFiniteSet(Places(s, e)) /\ Cardinality(Places(s, e)) \in Nat
<1>1. IsFiniteSet(1..Len(s)) BY FS_Interval
<1>2. Places(s, e) \subseteq 1..Len(s) BY DEF Places
<1> QED BY <1>1, <1>2, FS_Subset, FS_CardinalityType

\* An event appended adds one to the count of its kind, and to no other.
LEMMA PlacesAppended ==
    ASSUME NEW s \in Seq(Events), NEW e \in Events, NEW k
    PROVE  /\ k = e => Cardinality(Places(Append(s, e), k)) = Cardinality(Places(s, k)) + 1
           /\ k # e => Cardinality(Places(Append(s, e), k)) = Cardinality(Places(s, k))
<1> DEFINE t == Append(s, e)
<1>1. /\ Len(s) \in Nat /\ Len(t) = Len(s) + 1 /\ t[Len(s) + 1] = e
      /\ \A i \in 1..Len(s) : t[i] = s[i]
    BY Appended
<1>2. 1..Len(t) = 1..Len(s) \cup {Len(s) + 1} /\ Len(s) + 1 \notin 1..Len(s) BY <1>1, SMT
<1> HIDE DEF t
<1>3. IsFiniteSet(Places(s, k)) BY PlacesFinite
<1>4. CASE k = e
    <2>1. Places(t, k) = Places(s, k) \cup {Len(s) + 1} BY <1>1, <1>2, <1>4 DEF Places
    <2>2. Len(s) + 1 \notin Places(s, k) BY <1>2 DEF Places
    <2>3. Cardinality(Places(s, k) \cup {Len(s) + 1}) = Cardinality(Places(s, k)) + 1
        BY <1>3, <2>2, FS_AddElement
    <2> QED BY <1>4, <2>1, <2>3, Zenon DEF t
<1>5. CASE k # e
    <2>1. Places(t, k) = Places(s, k) BY <1>1, <1>2, <1>5 DEF Places
    <2> QED BY <1>5, <2>1 DEF t
<1> QED BY <1>4, <1>5

\* A kind that is not there has no place.
LEMMA NoneIsZero ==
    ASSUME NEW s \in Seq(Events), NEW e
    PROVE  e \notin Kinds(s) <=> Cardinality(Places(s, e)) = 0
<1>1. e \notin Kinds(s) <=> Places(s, e) = {} BY DEF Kinds, Places
<1> QED BY <1>1, PlacesFinite, FS_EmptySet

-----------------------------------------------------------------------------
(* TokenStream: the inductive invariant *)

Failures == {"error", "partialError"}
Answering == {"start", "reasoning", "token"}

\* What was written of n tokens: in order, counted, one outcome at most, and
\* that a true one.
WellWritten(s, n, by) ==
    /\ Ordered(s)
    /\ Cardinality(Places(s, "token")) = n
    /\ "done" \in Kinds(s) <=> "meta" \in Kinds(s)
    /\ "done" \in Kinds(s) => Kinds(s) \cap Failures = {}
    /\ "done" \in Kinds(s) /\ by = "mock" => n = Words
    /\ "error" \in Kinds(s) => n = 0
    /\ "partialError" \in Kinds(s) => n > 0

\* How far the stream has come, and what may have been written by then.
StageFits(r) ==
    LET kinds == Kinds(events[r])
    IN  /\ pc[r] = "idle" => kinds = {} /\ ~aborted[r]
        /\ pc[r] \in {"hang", "ttft", "fetching"} => kinds \subseteq {"start"}
        /\ pc[r] \in {"thinking", "thought"} => kinds \subseteq {"start", "reasoning"}
        /\ pc[r] \in {"generating", "reading"} => kinds \subseteq Answering
        /\ pc[r] \in {"fetching", "reading"} => provider[r] = "openai"
        /\ pc[r] \in {"saving", "recordSuccess"} => "done" \in kinds
        /\ pc[r] = "recordError" => kinds \cap Failures # {}

\* What is stored of it by then.
StoredFits(r) ==
    LET kinds == Kinds(events[r])
    IN  /\ pc[r] \notin {"finally", "ended"} => row[r] = NoRow
        /\ pc[r] \in {"finally", "ended"} =>
              /\ row[r].status = "success" <=> "done" \in kinds
              /\ row[r].status = "error" <=> kinds \cap Failures # {}
              /\ row[r].status = "none" => aborted[r]
              /\ "done" \in kinds => row[r].outputTokens = emitted[r]
        /\ pc[r] \in {"recordSuccess", "finally", "ended"} =>
              (turn[r] # Absent <=> "done" \in kinds)
        /\ pc[r] \notin {"recordSuccess", "finally", "ended"} => turn[r] = Absent
        /\ turn[r] # Absent => turn[r] = emitted[r]

\* The events of some kinds among those that arrived whole, m of them.
Received(s, m, kinds) == {i \in 1..Len(s) : i <= m /\ s[i] \in kinds}

\* After a parts the browser keeps half of an event, or nothing.
HeldBack(a, kept, m) ==
    \/ a = 2 * m /\ kept = {}
    \/ a = 2 * m + 1 /\ kept = {a}

\* What the browser was given, what of it it keeps, and what it shows of the rest.
ReadSoFar(r, m) ==
    /\ m <= Len(events[r])
    /\ HeldBack(arrived[r], buffer[r], m)
    /\ arrived[r] = 2 * m + 1 => m < Len(events[r])
    /\ bubble[r].reasoning = Cardinality(Received(events[r], m, {"reasoning"}))
    /\ bubble[r].tokens = Cardinality(Received(events[r], m, {"token"}))
    /\ bubble[r].totals <=> Received(events[r], m, {"meta"}) # {}
    /\ reader[r] \in {"reading", "finished"} =>
          (bubble[r].notice = "error" <=> Received(events[r], m, Failures) # {})
    /\ reader[r] = "finished" => pc[r] = "ended" /\ arrived[r] = 2 * Len(events[r])

ReaderFits(r) == \E m \in Nat : ReadSoFar(r, m)

OneStream(r) ==
    /\ WellWritten(events[r], emitted[r], provider[r])
    /\ StageFits(r)
    /\ StoredFits(r)
    /\ ReaderFits(r)

StreamInv ==
    /\ TypeOK
    /\ \A r \in Streams : OneStream(r)

-----------------------------------------------------------------------------
(* TokenStream: what is written stays well written *)

\* The handler writes the start.
LEMMA Written1 ==
    ASSUME NEW s \in Seq(Events), NEW n \in Nat, NEW by, WellWritten(s, n, by),
           Kinds(s) = {}
    PROVE  /\ WellWritten(Append(s, "start"), n, by)
           /\ Kinds(Append(s, "start")) = {"start"}
           /\ n = 0
<1>1. "start" \in Events BY DEF Events
<1>2. Kinds(Append(s, "start")) = {"start"} BY <1>1, KindsAppended
<1>3. Ordered(Append(s, "start")) BY <1>1, OrderedAppended DEF WellWritten
<1>4. Cardinality(Places(Append(s, "start"), "token")) = n
    BY <1>1, PlacesAppended DEF WellWritten
<1>5. n = 0 BY NoneIsZero DEF WellWritten
<1> QED BY <1>2, <1>3, <1>4, <1>5 DEF WellWritten, Failures

\* The provider hands over a piece of its reasoning.
LEMMA WrittenReasoning ==
    ASSUME NEW s \in Seq(Events), NEW n \in Nat, NEW by, WellWritten(s, n, by),
           Kinds(s) \subseteq {"start", "reasoning"}
    PROVE  /\ WellWritten(Append(s, "reasoning"), n, by)
           /\ Kinds(Append(s, "reasoning")) \subseteq {"start", "reasoning"}
<1>1. "reasoning" \in Events BY DEF Events
<1>2. Kinds(Append(s, "reasoning")) = Kinds(s) \cup {"reasoning"} BY <1>1, KindsAppended
<1>3. \A k \in Kinds(s) : Before(k, "reasoning") BY DEF Before, Rank
<1>4. Ordered(Append(s, "reasoning")) BY <1>1, <1>3, OrderedAppended DEF WellWritten
<1>5. Cardinality(Places(Append(s, "reasoning"), "token")) = n
    BY <1>1, PlacesAppended DEF WellWritten
<1> QED BY <1>2, <1>4, <1>5 DEF WellWritten, Failures

\* The provider hands over a token.
LEMMA WrittenToken ==
    ASSUME NEW s \in Seq(Events), NEW n \in Nat, NEW by, WellWritten(s, n, by),
           Kinds(s) \subseteq Answering
    PROVE  /\ WellWritten(Append(s, "token"), n + 1, by)
           /\ Kinds(Append(s, "token")) \subseteq Answering
<1>1. "token" \in Events BY DEF Events
<1>2. Kinds(Append(s, "token")) = Kinds(s) \cup {"token"} BY <1>1, KindsAppended
<1>3. \A k \in Kinds(s) : Before(k, "token") BY DEF Before, Rank, Answering
<1>4. Ordered(Append(s, "token")) BY <1>1, <1>3, OrderedAppended DEF WellWritten
<1>5. Cardinality(Places(Append(s, "token"), "token")) = n + 1
    BY <1>1, PlacesAppended DEF WellWritten
<1> QED BY <1>2, <1>4, <1>5 DEF WellWritten, Failures, Answering

ErrorOf(n) == IF n > 0 THEN "partialError" ELSE "error"

\* The handler writes of the failure.
LEMMA WrittenError ==
    ASSUME NEW s \in Seq(Events), NEW n \in Nat, NEW by, WellWritten(s, n, by),
           Kinds(s) \subseteq Answering
    PROVE  /\ WellWritten(Append(s, ErrorOf(n)), n, by)
           /\ Kinds(Append(s, ErrorOf(n))) = Kinds(s) \cup {ErrorOf(n)}
           /\ ErrorOf(n) \in Events \cap Failures
<1> DEFINE e == ErrorOf(n)
<1>1. e \in Events /\ e \in Failures /\ e # "token"
      /\ (e = "error" => n = 0) /\ (e = "partialError" => n > 0)
    BY SMT DEF Events, Failures, ErrorOf
<1> HIDE DEF e
<1>2. Kinds(Append(s, e)) = Kinds(s) \cup {e} BY <1>1, KindsAppended
<1>3. \A k \in Kinds(s) : Before(k, e) BY <1>1 DEF Before, Rank, Answering, Failures
<1>4. Ordered(Append(s, e)) BY <1>1, <1>3, OrderedAppended DEF WellWritten
<1>5. Cardinality(Places(Append(s, e), "token")) = n
    BY <1>1, PlacesAppended DEF WellWritten
<1>6. WellWritten(Append(s, e), n, by)
    BY <1>1, <1>2, <1>4, <1>5 DEF WellWritten, Failures, Answering
<1> QED BY <1>1, <1>2, <1>6 DEF e

\* The handler writes the totals and the end.
LEMMA WrittenEnd ==
    ASSUME NEW s \in Seq(Events), NEW n \in Nat, NEW by, WellWritten(s, n, by),
           Kinds(s) \subseteq Answering, by = "mock" => n = Words
    PROVE  /\ WellWritten(Append(Append(s, "meta"), "done"), n, by)
           /\ Kinds(Append(Append(s, "meta"), "done")) = Kinds(s) \cup {"meta", "done"}
           /\ Append(s, "meta") \in Seq(Events)
<1> DEFINE t == Append(s, "meta")
<1>1. "meta" \in Events /\ "done" \in Events BY DEF Events
<1>2. t \in Seq(Events) BY <1>1
<1>3. Kinds(t) = Kinds(s) \cup {"meta"} BY <1>1, KindsAppended
<1>4. \A k \in Kinds(s) : Before(k, "meta") BY DEF Before, Rank, Answering
<1>5. Ordered(t) BY <1>1, <1>4, OrderedAppended DEF WellWritten
<1>6. Cardinality(Places(t, "token")) = n BY <1>1, PlacesAppended DEF WellWritten
<1> HIDE DEF t
<1>7. Kinds(Append(t, "done")) = Kinds(s) \cup {"meta", "done"}
    BY <1>1, <1>2, <1>3, KindsAppended
<1>8. \A k \in Kinds(t) : Before(k, "done") BY <1>3 DEF Before, Rank, Answering
<1>9. Ordered(Append(t, "done")) BY <1>1, <1>2, <1>5, <1>8, OrderedAppended
<1>10. Cardinality(Places(Append(t, "done"), "token")) = n
    BY <1>1, <1>2, <1>6, PlacesAppended
<1>11. WellWritten(Append(t, "done"), n, by)
    BY <1>7, <1>9, <1>10 DEF WellWritten, Failures, Answering
<1> QED BY <1>2, <1>7, <1>11 DEF t

-----------------------------------------------------------------------------
(* TokenStream: steps of the server *)

Prefix(s, t) == Len(s) <= Len(t) /\ \A i \in 1..Len(s) : t[i] = s[i]

\* What a stream has is unchanged by what the others do.
LEMMA StreamUntouched ==
    ASSUME NEW q \in Streams, OneStream(q),
           provider'[q] = provider[q], pc'[q] = pc[q], aborted'[q] = aborted[q],
           emitted'[q] = emitted[q], events'[q] = events[q], turn'[q] = turn[q],
           row'[q] = row[q], reader'[q] = reader[q], arrived'[q] = arrived[q],
           buffer'[q] = buffer[q], bubble'[q] = bubble[q]
    PROVE  OneStream(q)'
<1>1. StageFits(q)' BY DEF OneStream, StageFits
<1>2. StoredFits(q)' BY DEF OneStream, StoredFits
<1>3. ReaderFits(q)' BY DEF OneStream, ReaderFits, ReadSoFar
<1>4. WellWritten(events[q], emitted[q], provider[q])' BY DEF OneStream
<1> QED BY <1>1, <1>2, <1>3, <1>4 DEF OneStream

\* What is written later does not change what was received.
LEMMA ReaderKept ==
    ASSUME TypeOK, TypeOK', NEW r \in Streams, ReaderFits(r),
           Prefix(events[r], events'[r]),
           pc[r] # "ended" \/ (pc'[r] = "ended" /\ events'[r] = events[r]),
           UNCHANGED browser
    PROVE  ReaderFits(r)'
<1>1. PICK m \in Nat : ReadSoFar(r, m) BY DEF ReaderFits
<1>2. events[r] \in Seq(Events) /\ events'[r] \in Seq(Events) BY DEF TypeOK
<1>3. Len(events[r]) \in Nat /\ Len(events'[r]) \in Nat BY <1>2
<1>4. \A kinds : Received(events'[r], m, kinds) = Received(events[r], m, kinds)
    <2>1. m <= Len(events[r]) /\ Len(events[r]) <= Len(events'[r])
        BY <1>1 DEF ReadSoFar, Prefix
    <2>2. \A i : i \in 1..Len(events'[r]) /\ i <= m <=> i \in 1..Len(events[r]) /\ i <= m
        BY <1>3, <2>1, SMT
    <2> QED BY <2>2 DEF Received, Prefix
<1>5. UNCHANGED <<reader, arrived, buffer, bubble>> BY DEF browser
<1>6. m <= Len(events'[r]) /\ (m < Len(events[r]) => m < Len(events'[r]))
    BY <1>1, <1>3, SMT DEF ReadSoFar, Prefix
<1>7. reader[r] = "finished" => pc'[r] = "ended" /\ arrived[r] = 2 * Len(events'[r])
    BY <1>1 DEF ReadSoFar
<1>8. ReadSoFar(r, m)'
    BY <1>1, <1>4, <1>5, <1>6, <1>7 DEF ReadSoFar
<1> QED BY <1>8 DEF ReaderFits

\* A step of the handler of one stream that writes, or goes on.
LEMMA StreamingStep ==
    ASSUME StreamInv, NEW r \in Streams, Streaming,
           NEW step \in Steps, NEW s \in Seq(Events), NEW n \in 0..Words,
           pc' = [pc EXCEPT ![r] = step],
           events' = [events EXCEPT ![r] = s],
           emitted' = [emitted EXCEPT ![r] = n],
           Prefix(events[r], s), pc[r] # "ended",
           WellWritten(s, n, provider[r]), StageFits(r)', StoredFits(r)'
    PROVE  StreamInv'
<1>1. TypeOK' BY DEF StreamInv, TypeOK, Streaming, browser
<1>2. events'[r] = s /\ emitted'[r] = n /\ pc'[r] = step /\ provider' = provider
    BY DEF StreamInv, TypeOK, Streaming
<1>3. ReaderFits(r)'
    BY <1>1, <1>2, ReaderKept DEF StreamInv, OneStream, Streaming
<1>4. OneStream(r)' BY <1>2, <1>3 DEF OneStream
<1>5. ASSUME NEW q \in Streams, q # r PROVE OneStream(q)'
    <2>1. OneStream(q) BY DEF StreamInv
    <2>2. /\ provider'[q] = provider[q] /\ pc'[q] = pc[q] /\ aborted'[q] = aborted[q]
          /\ emitted'[q] = emitted[q] /\ events'[q] = events[q] /\ turn'[q] = turn[q]
          /\ row'[q] = row[q] /\ reader'[q] = reader[q] /\ arrived'[q] = arrived[q]
          /\ buffer'[q] = buffer[q] /\ bubble'[q] = bubble[q]
        BY <1>5 DEF StreamInv, TypeOK, Streaming, browser
    <2> QED BY <2>1, <2>2, StreamUntouched
<1> QED BY <1>1, <1>4, <1>5 DEF StreamInv

\* Facts of a stream whose answer is not complete.
LEMMA Unsettled ==
    ASSUME StreamInv, NEW r \in Streams,
           pc[r] \in {"idle", "hang", "ttft", "thinking", "thought", "generating", "fetching",
                      "reading"}
    PROVE  /\ Kinds(events[r]) \subseteq Answering
           /\ row[r] = NoRow /\ turn[r] = Absent
           /\ events[r] \in Seq(Events) /\ emitted[r] \in Nat /\ emitted[r] \in 0..Words
           /\ WellWritten(events[r], emitted[r], provider[r])
<1>1. OneStream(r) BY DEF StreamInv
<1>2. Kinds(events[r]) \subseteq Answering BY <1>1 DEF OneStream, StageFits, Answering
<1>3. row[r] = NoRow /\ turn[r] = Absent BY <1>1 DEF OneStream, StoredFits
<1>4. events[r] \in Seq(Events) /\ emitted[r] \in 0..Words BY DEF StreamInv, TypeOK
<1>5. emitted[r] \in Nat BY <1>4, StreamAssumption, SMT
<1> QED BY <1>1, <1>2, <1>3, <1>4, <1>5 DEF OneStream

\* Nothing is appended.
LEMMA NothingWritten ==
    ASSUME NEW s \in Seq(Events) PROVE s \o <<>> = s /\ Prefix(s, s)
BY DEF Prefix

\* What is written is only added to.
LEMMA PrefixAppended ==
    ASSUME NEW s \in Seq(Events), NEW e \in Events
    PROVE  Append(s, e) \in Seq(Events) /\ Prefix(s, Append(s, e))
BY Appended, SMT DEF Prefix

-----------------------------------------------------------------------------
(* TokenStream: each step keeps the invariant *)

\* The awaits of a provider.
Underway == {"hang", "ttft", "thinking", "thought", "generating", "fetching", "reading"}

\* After s was written (nothing, or the start) the provider throws.
LEMMA ThrowsAfter ==
    ASSUME StreamInv, NEW r \in Streams, NEW w, NEW s \in Seq(Events),
           pc[r] \in Underway \cup {"idle"}, w \in Seq(Events),
           events[r] \o w = s, Prefix(events[r], s),
           Append(w, ErrorOf(emitted[r])) \in Seq(Events),
           events[r] \o Append(w, ErrorOf(emitted[r])) = Append(s, ErrorOf(emitted[r])),
           WellWritten(s, emitted[r], provider[r]), Kinds(s) \subseteq Answering,
           Throws(r, w), Streaming
    PROVE  StreamInv'
<1> DEFINE e == ErrorOf(emitted[r])
<1>1. /\ row[r] = NoRow /\ turn[r] = Absent
      /\ events[r] \in Seq(Events) /\ emitted[r] \in Nat /\ emitted[r] \in 0..Words
    BY Unsettled DEF Underway
<1>2. emitted' = [emitted EXCEPT ![r] = emitted[r]] BY DEF Throws, StreamInv, TypeOK
<1>3. row' = row /\ turn' = turn /\ aborted' = aborted /\ provider' = provider BY DEF Streaming
<1>4. pc[r] # "ended" BY DEF Underway
<1>5. CASE aborted[r]
    <2>1. pc' = [pc EXCEPT ![r] = "finally"] /\ events' = [events EXCEPT ![r] = s]
        BY <1>1, <1>5 DEF Throws, Goto, Write
    <2>2. pc'[r] = "finally" /\ events'[r] = s BY <2>1 DEF StreamInv, TypeOK
    <2>3. StageFits(r)' BY <2>2 DEF StageFits
    <2>4. aborted'[r] BY <1>3, <1>5
    <2>9. row'[r] = NoRow /\ NoRow.status = "none" /\ turn'[r] = Absent
        BY <1>1, <1>3 DEF NoRow
    <2>10. "done" \notin Kinds(events'[r]) /\ Kinds(events'[r]) \cap Failures = {}
        BY <2>2 DEF Answering, Failures
    <2>8. StoredFits(r)' BY <2>2, <2>4, <2>9, <2>10 DEF StoredFits
    <2>5. "finally" \in Steps BY DEF Steps
    <2> QED BY <1>1, <1>2, <1>4, <2>1, <2>3, <2>8, <2>5, StreamingStep
<1>6. CASE ~aborted[r]
    <2>1. /\ WellWritten(Append(s, e), emitted[r], provider[r])
          /\ Kinds(Append(s, e)) = Kinds(s) \cup {e} /\ e \in Failures /\ e \in Events
        BY <1>1, WrittenError
    <2>2. pc' = [pc EXCEPT ![r] = "recordError"] /\ events' = [events EXCEPT ![r] = Append(s, e)]
        BY <1>1, <1>6 DEF Throws, Goto, Write, ErrorOf
    <2>3. Append(s, e) \in Seq(Events) /\ Prefix(events[r], Append(s, e))
        BY <1>1, <2>1, Appended, SMT DEF Prefix
    <2> HIDE DEF e
    <2>4. pc'[r] = "recordError" /\ events'[r] = Append(s, e)
        BY <2>2 DEF StreamInv, TypeOK
    <2>5. StageFits(r)' BY <2>1, <2>4 DEF StageFits
    <2>6. StoredFits(r)' BY <1>1, <1>3, <2>4 DEF StoredFits
    <2>7. "recordError" \in Steps BY DEF Steps
    <2> QED BY <1>1, <1>2, <1>4, <2>1, <2>2, <2>3, <2>5, <2>6, <2>7, StreamingStep
<1> QED BY <1>5, <1>6

\* One lemma for each way a step ends and for each action: it keeps the
\* invariant.
LEMMA ThrowsKeeps ==
    ASSUME StreamInv, NEW r \in Streams, pc[r] \in Underway, Throws(r, <<>>), Streaming
    PROVE  StreamInv'
<1>1. /\ Kinds(events[r]) \subseteq Answering
      /\ events[r] \in Seq(Events) /\ emitted[r] \in Nat
      /\ WellWritten(events[r], emitted[r], provider[r])
    BY Unsettled DEF Underway
<1> DEFINE e == ErrorOf(emitted[r])
<1>2. e \in Events BY <1>1, WrittenError
<1> HIDE DEF e
<1>3. /\ <<>> \in Seq(Events) /\ Append(<<>>, e) \in Seq(Events)
      /\ events[r] \o <<>> = events[r] /\ events[r] \o Append(<<>>, e) = Append(events[r], e)
    BY <1>1, <1>2
<1>4. Prefix(events[r], events[r]) BY <1>1, NothingWritten
<1> QED BY <1>1, <1>3, <1>4, ThrowsAfter DEF e

LEMMA ReturnsKeeps ==
    ASSUME StreamInv, NEW r \in Streams, pc[r] \in Underway, Returns(r), Streaming,
           provider[r] = "mock" => emitted[r] = Words
    PROVE  StreamInv'
<1> DEFINE s == Append(Append(events[r], "meta"), "done")
<1>1. /\ Kinds(events[r]) \subseteq Answering /\ row[r] = NoRow /\ turn[r] = Absent
      /\ events[r] \in Seq(Events) /\ emitted[r] \in Nat /\ emitted[r] \in 0..Words
      /\ WellWritten(events[r], emitted[r], provider[r])
    BY Unsettled DEF Underway
<1>2. /\ WellWritten(s, emitted[r], provider[r])
      /\ Kinds(s) = Kinds(events[r]) \cup {"meta", "done"}
    BY <1>1, WrittenEnd
<1>3. "meta" \in Events /\ "done" \in Events BY DEF Events
<1>4. events[r] \o <<"meta", "done">> = s BY <1>1, <1>3
<1>5. s \in Seq(Events) /\ Prefix(events[r], s)
    BY <1>1, <1>3, SMT DEF Prefix
<1> HIDE DEF s
<1>6. /\ pc' = [pc EXCEPT ![r] = "saving"] /\ events' = [events EXCEPT ![r] = s]
      /\ emitted' = [emitted EXCEPT ![r] = emitted[r]]
    BY <1>4 DEF Returns, Goto, Write, StreamInv, TypeOK
<1>7. pc'[r] = "saving" /\ events'[r] = s BY <1>6 DEF StreamInv, TypeOK
<1>8. StageFits(r)' BY <1>2, <1>7 DEF StageFits
<1>9. StoredFits(r)' BY <1>1, <1>7 DEF StoredFits, Streaming
<1>10. "saving" \in Steps /\ pc[r] # "ended" BY DEF Steps, Underway
<1> QED BY <1>1, <1>2, <1>5, <1>6, <1>8, <1>9, <1>10, StreamingStep

\* A step that goes on streaming, with or without a word.
LEMMA GoesOn ==
    ASSUME StreamInv, NEW r \in Streams, pc[r] \in Underway \cup {"idle"}, Streaming,
           NEW step \in Underway, NEW s \in Seq(Events), NEW n \in 0..Words,
           pc' = [pc EXCEPT ![r] = step], events' = [events EXCEPT ![r] = s],
           emitted' = [emitted EXCEPT ![r] = n],
           Prefix(events[r], s), WellWritten(s, n, provider[r]),
           step \in {"hang", "ttft", "fetching"} => Kinds(s) \subseteq {"start"},
           step \in {"thinking", "thought"} => Kinds(s) \subseteq {"start", "reasoning"},
           Kinds(s) \subseteq Answering,
           step \in {"fetching", "reading"} => provider[r] = "openai"
    PROVE  StreamInv'
<1>1. row[r] = NoRow /\ turn[r] = Absent BY Unsettled DEF Underway
<1>2. pc'[r] = step /\ events'[r] = s BY DEF StreamInv, TypeOK
<1>3. StageFits(r)' BY <1>2 DEF StageFits, Streaming, Underway
<1>4. StoredFits(r)' BY <1>1, <1>2 DEF StoredFits, Streaming, Underway
<1>5. step \in Steps /\ pc[r] # "ended" BY DEF Underway, Steps
<1> QED BY <1>3, <1>4, <1>5, StreamingStep

LEMMA BeginKeeps ==
    ASSUME StreamInv, NEW r \in Streams, Begin(r)
    PROVE  StreamInv'
<1>1. pc[r] = "idle" /\ Streaming BY DEF Begin
<1>2. Kinds(events[r]) = {} BY <1>1 DEF StreamInv, OneStream, StageFits
<1>3. /\ events[r] \in Seq(Events) /\ emitted[r] \in Nat /\ emitted[r] \in 0..Words
      /\ WellWritten(events[r], emitted[r], provider[r])
    BY <1>1, Unsettled
<1> DEFINE s == Append(events[r], "start")
<1>4. /\ WellWritten(s, emitted[r], provider[r]) /\ Kinds(s) = {"start"}
    BY <1>2, <1>3, Written1
<1>5. "start" \in Events BY DEF Events
<1>6. s \in Seq(Events) /\ Prefix(events[r], s) BY <1>3, <1>5, PrefixAppended
<1>7. events[r] \o <<"start">> = s BY <1>3, <1>5
<1>8. CASE Throws(r, <<"start">>)
    <2> DEFINE e == ErrorOf(emitted[r])
    <2>1. e \in Events BY <1>3, <1>4, <1>6, WrittenError DEF Answering
    <2> HIDE DEF e
    <2>2. /\ <<"start">> \in Seq(Events) /\ Append(<<"start">>, e) \in Seq(Events)
          /\ events[r] \o Append(<<"start">>, e) = Append(s, e)
        BY <1>3, <1>5, <2>1
    <2> HIDE DEF s
    <2>3. pc[r] \in Underway \cup {"idle"} /\ Kinds(s) \subseteq Answering
        BY <1>1, <1>4 DEF Answering
    <2> QED BY <1>1, <1>3, <1>4, <1>6, <1>7, <1>8, <2>2, <2>3, ThrowsAfter DEF e
<1>9. CASE ~Throws(r, <<"start">>)
    <2> DEFINE step == IF provider[r] = "openai" THEN "fetching"
                       ELSE IF "timeout" \in flags THEN "hang" ELSE "ttft"
    <2>1. /\ pc' = [pc EXCEPT ![r] = step] /\ events' = [events EXCEPT ![r] = s]
          /\ emitted' = [emitted EXCEPT ![r] = emitted[r]]
        BY <1>7, <1>9 DEF Begin, Goto, Write, StreamInv, TypeOK
    <2>2. /\ step \in Underway /\ (step \in {"fetching", "reading"} => provider[r] = "openai")
          /\ step \notin {"thinking", "thought"} /\ pc[r] \in Underway \cup {"idle"}
        BY <1>1 DEF Underway
    <2> HIDE DEF step, s
    <2>3. Kinds(s) \subseteq Answering BY <1>4 DEF Answering
    <2> QED BY <1>1, <1>3, <1>4, <1>6, <2>1, <2>2, <2>3, GoesOn
<1> QED BY <1>8, <1>9

LEMMA GenerateKeeps ==
    ASSUME StreamInv, NEW r \in Streams, pc[r] \in Underway, Generate(r), Streaming
    PROVE  StreamInv'
<1>1. CASE emitted[r] = Words BY <1>1, ReturnsKeeps DEF Generate
<1>2. CASE emitted[r] # Words /\ (aborted[r] \/ ("partial" \in flags /\ 2 * emitted[r] > Words))
    BY <1>2, ThrowsKeeps DEF Generate
<1>3. CASE emitted[r] # Words /\ ~(aborted[r] \/ ("partial" \in flags /\ 2 * emitted[r] > Words))
    <2> DEFINE s == Append(events[r], "token")
    <2>1. /\ Kinds(events[r]) \subseteq Answering
          /\ events[r] \in Seq(Events) /\ emitted[r] \in Nat /\ emitted[r] \in 0..Words
          /\ WellWritten(events[r], emitted[r], provider[r])
        BY Unsettled DEF Underway
    <2>2. WellWritten(s, emitted[r] + 1, provider[r]) /\ Kinds(s) \subseteq Answering
        BY <2>1, WrittenToken
    <2>3. "token" \in Events BY DEF Events
    <2>4. s \in Seq(Events) /\ Prefix(events[r], s) BY <2>1, <2>3, PrefixAppended
    <2>5. events[r] \o <<"token">> = s BY <2>1, <2>3
    <2>6. emitted[r] + 1 \in 0..Words BY <1>3, <2>1, StreamAssumption, SMT
    <2>7. /\ pc' = [pc EXCEPT ![r] = "generating"] /\ events' = [events EXCEPT ![r] = s]
          /\ emitted' = [emitted EXCEPT ![r] = emitted[r] + 1]
        BY <1>3, <2>5 DEF Generate, Goto, Write
    <2>8. "generating" \in Underway BY DEF Underway
    <2> HIDE DEF s
    <2> QED BY <2>2, <2>4, <2>6, <2>7, <2>8, GoesOn
<1> QED BY <1>1, <1>2, <1>3

LEMMA ThinkKeeps ==
    ASSUME StreamInv, NEW r \in Streams, pc[r] \in {"ttft", "thinking"},
           NEW next \in {"thinking", "thought"}, Think(r, next), Streaming
    PROVE  StreamInv'
<1>1. pc[r] \in Underway /\ next \in Underway BY DEF Underway
<1>2. CASE aborted[r] BY <1>1, <1>2, ThrowsKeeps DEF Think
<1>3. CASE ~aborted[r]
    <2> DEFINE s == Append(events[r], "reasoning")
    <2>1. /\ events[r] \in Seq(Events) /\ emitted[r] \in Nat /\ emitted[r] \in 0..Words
          /\ WellWritten(events[r], emitted[r], provider[r])
        BY Unsettled DEF Underway
    <2>2. Kinds(events[r]) \subseteq {"start", "reasoning"} BY DEF StreamInv, OneStream, StageFits
    <2>3. WellWritten(s, emitted[r], provider[r]) /\ Kinds(s) \subseteq {"start", "reasoning"}
        BY <2>1, <2>2, WrittenReasoning
    <2>4. "reasoning" \in Events BY DEF Events
    <2>5. s \in Seq(Events) /\ Prefix(events[r], s) BY <2>1, <2>4, PrefixAppended
    <2>6. events[r] \o <<"reasoning">> = s BY <2>1, <2>4
    <2>7. /\ pc' = [pc EXCEPT ![r] = next] /\ events' = [events EXCEPT ![r] = s]
          /\ emitted' = [emitted EXCEPT ![r] = emitted[r]]
        BY <1>3, <2>6 DEF Think, Goto, Write, StreamInv, TypeOK
    <2> HIDE DEF s
    <2>8. Kinds(s) \subseteq Answering BY <2>3 DEF Answering
    <2> QED BY <1>1, <2>1, <2>3, <2>5, <2>7, <2>8, GoesOn
<1> QED BY <1>2, <1>3

LEMMA FetchAnswersKeeps ==
    ASSUME StreamInv, NEW r \in Streams, FetchAnswers(r)
    PROVE  StreamInv'
<1>1. pc[r] = "fetching" /\ pc[r] \in Underway /\ Streaming BY DEF FetchAnswers, Underway
<1>2. CASE Throws(r, <<>>) BY <1>1, <1>2, ThrowsKeeps
<1>3. CASE ~Throws(r, <<>>)
    <2>1. /\ Kinds(events[r]) \subseteq Answering
          /\ events[r] \in Seq(Events) /\ emitted[r] \in Nat /\ emitted[r] \in 0..Words
          /\ WellWritten(events[r], emitted[r], provider[r])
        BY <1>1, Unsettled
    <2>2. provider[r] = "openai" BY <1>1 DEF StreamInv, OneStream, StageFits
    <2>3. /\ pc' = [pc EXCEPT ![r] = "reading"] /\ events' = [events EXCEPT ![r] = events[r]]
          /\ emitted' = [emitted EXCEPT ![r] = emitted[r]]
        BY <1>3 DEF FetchAnswers, Goto, StreamInv, TypeOK
    <2>4. "reading" \in Underway BY DEF Underway
    <2>5. Prefix(events[r], events[r]) BY <2>1, NothingWritten
    <2> QED BY <1>1, <2>1, <2>2, <2>3, <2>4, <2>5, GoesOn
<1> QED BY <1>2, <1>3

LEMMA ReadChunkKeeps ==
    ASSUME StreamInv, NEW r \in Streams, ReadChunk(r)
    PROVE  StreamInv'
<1>1. pc[r] = "reading" /\ pc[r] \in Underway /\ Streaming BY DEF ReadChunk, Underway
<1>2. /\ Kinds(events[r]) \subseteq Answering
      /\ events[r] \in Seq(Events) /\ emitted[r] \in Nat /\ emitted[r] \in 0..Words
      /\ WellWritten(events[r], emitted[r], provider[r])
    BY <1>1, Unsettled
<1>3. provider[r] = "openai" BY <1>1 DEF StreamInv, OneStream, StageFits
<1>4. PICK k \in 1..2 : /\ emitted[r] + k <= Words
                        /\ Write(r, [i \in 1..k |-> "token"])
                        /\ emitted' = [emitted EXCEPT ![r] = emitted[r] + k]
    BY DEF ReadChunk
<1> DEFINE s == Append(events[r], "token")
           t == Append(s, "token")
<1>5. "token" \in Events BY DEF Events
<1>6. s \in Seq(Events) /\ t \in Seq(Events) BY <1>2, <1>5
<1>7. Prefix(events[r], s) /\ Prefix(events[r], t) BY <1>2, <1>5, SMT DEF Prefix
<1>8. WellWritten(s, emitted[r] + 1, provider[r]) /\ Kinds(s) \subseteq Answering
    BY <1>2, WrittenToken
<1>9. pc' = [pc EXCEPT ![r] = "reading"] BY <1>1 DEF ReadChunk, StreamInv, TypeOK
<1>10. CASE k = 1
    <2>1. events[r] \o [i \in 1..1 |-> "token"] = s BY <1>2, <1>5
    <2>2. events' = [events EXCEPT ![r] = s] BY <1>4, <1>10, <2>1 DEF Write
    <2>3. emitted[r] + 1 \in 0..Words BY <1>2, <1>4, <1>10, StreamAssumption, SMT
    <2>4. emitted' = [emitted EXCEPT ![r] = emitted[r] + 1] BY <1>4, <1>10
    <2> HIDE DEF s
    <2> QED BY <1>1, <1>3, <1>6, <1>7, <1>8, <1>9, <2>2, <2>3, <2>4, GoesOn
<1>11. CASE k = 2
    <2>1. events[r] \o [i \in 1..2 |-> "token"] = t BY <1>2, <1>5
    <2>2. events' = [events EXCEPT ![r] = t] BY <1>4, <1>11, <2>1 DEF Write
    <2>3. /\ emitted[r] + 2 \in 0..Words /\ emitted[r] + 1 \in Nat
          /\ emitted[r] + 1 + 1 = emitted[r] + 2
        BY <1>2, <1>4, <1>11, StreamAssumption, SMT
    <2>4. emitted' = [emitted EXCEPT ![r] = emitted[r] + 2] BY <1>4, <1>11
    <2> HIDE DEF s
    <2>5. WellWritten(t, emitted[r] + 1 + 1, provider[r]) /\ Kinds(t) \subseteq Answering
        BY <1>6, <1>8, <2>3, WrittenToken
    <2> HIDE DEF t
    <2> QED BY <1>1, <1>3, <1>6, <1>7, <1>9, <2>2, <2>3, <2>4, <2>5, GoesOn
<1> QED BY <1>10, <1>11, <1>4

\* A step that writes nothing.
LEMMA QuietStep ==
    ASSUME StreamInv, TypeOK', NEW r \in Streams,
           UNCHANGED <<provider, emitted, events, browser>>,
           \A q \in Streams \ {r} : /\ pc'[q] = pc[q] /\ aborted'[q] = aborted[q]
                                    /\ turn'[q] = turn[q] /\ row'[q] = row[q],
           pc[r] # "ended" \/ pc'[r] = "ended",
           StageFits(r)', StoredFits(r)'
    PROVE  StreamInv'
<1>1. OneStream(r) BY DEF StreamInv
<1>2. Prefix(events[r], events'[r]) BY NothingWritten DEF StreamInv, TypeOK
<1>3. ReaderFits(r)' BY <1>1, <1>2, ReaderKept DEF StreamInv, OneStream
<1>4. OneStream(r)' BY <1>1, <1>3 DEF OneStream
<1>5. ASSUME NEW q \in Streams, q # r PROVE OneStream(q)'
    <2>1. OneStream(q) BY DEF StreamInv
    <2> QED BY <1>5, <2>1, StreamUntouched DEF browser
<1> QED BY <1>4, <1>5 DEF StreamInv

\* The steps after the stream: the answer, the row, the end, and the client
\* leaving.
LEMMA SaveAnswerKeeps ==
    ASSUME StreamInv, NEW r \in Streams, SaveAnswer(r)
    PROVE  StreamInv'
<1>1. /\ pc[r] = "saving" /\ turn' = [turn EXCEPT ![r] = emitted[r]]
      /\ pc' = [pc EXCEPT ![r] = "recordSuccess"]
      /\ UNCHANGED <<provider, flags, aborted, emitted, events, row, browser>>
    BY DEF SaveAnswer, Goto
<1>2. emitted[r] \in Nat /\ emitted[r] \in 0..Words /\ emitted[r] \in Absent..Words /\ emitted[r] # Absent
    BY StreamAssumption, SMT DEF StreamInv, TypeOK, Absent
<1>3. "recordSuccess" \in Steps BY DEF Steps
<1>4. TypeOK' BY <1>1, <1>2, <1>3 DEF StreamInv, TypeOK, browser
<1>5. pc'[r] = "recordSuccess" /\ turn'[r] = emitted[r] BY <1>1 DEF StreamInv, TypeOK
<1>6. "done" \in Kinds(events[r]) /\ row[r] = NoRow
    BY <1>1 DEF StreamInv, OneStream, StageFits, StoredFits
<1>7. StageFits(r)' BY <1>1, <1>5, <1>6 DEF StageFits
<1>8. StoredFits(r)' BY <1>1, <1>2, <1>5, <1>6 DEF StoredFits
<1>9. \A q \in Streams \ {r} : /\ pc'[q] = pc[q] /\ aborted'[q] = aborted[q]
                               /\ turn'[q] = turn[q] /\ row'[q] = row[q]
    BY <1>1 DEF StreamInv, TypeOK
<1> QED BY <1>1, <1>4, <1>7, <1>8, <1>9, QuietStep

LEMMA RecordRowKeeps ==
    ASSUME StreamInv, NEW r \in Streams, RecordRow(r)
    PROVE  StreamInv'
<1> DEFINE success == [status |-> "success", outputTokens |-> emitted[r]]
           error == [status |-> "error", outputTokens |-> 0]
<1>1. /\ \/ pc[r] = "recordSuccess" /\ row' = [row EXCEPT ![r] = success]
         \/ pc[r] = "recordError" /\ row' = [row EXCEPT ![r] = error]
      /\ pc' = [pc EXCEPT ![r] = "finally"]
      /\ UNCHANGED <<provider, flags, aborted, emitted, events, turn, browser>>
    BY DEF RecordRow, Goto
<1>2. emitted[r] \in 0..Words /\ 0 \in 0..Words BY StreamAssumption, SMT DEF StreamInv, TypeOK
<1>3. /\ success \in [status : {"none", "success", "error"}, outputTokens : 0..Words]
      /\ error \in [status : {"none", "success", "error"}, outputTokens : 0..Words]
      /\ success.status = "success" /\ success.outputTokens = emitted[r]
      /\ error.status = "error"
    BY <1>2
<1> HIDE DEF success, error
<1>4. "finally" \in Steps BY DEF Steps
<1> DEFINE Rows == [status : {"none", "success", "error"}, outputTokens : 0..Words]
<1>16. row \in [Streams -> Rows] BY DEF StreamInv, TypeOK
<1>17. success \in Rows /\ error \in Rows BY <1>3
<1> HIDE DEF Rows
<1>18. row' \in [Streams -> Rows] BY <1>1, <1>16, <1>17
<1>19. row' \in [Streams -> [status : {"none", "success", "error"}, outputTokens : 0..Words]]
    BY <1>18 DEF Rows
<1>20. pc' \in [Streams -> Steps] BY <1>1, <1>4 DEF StreamInv, TypeOK
<1>5. TypeOK' BY <1>1, <1>19, <1>20 DEF StreamInv, TypeOK, browser
<1>6. /\ pc'[r] = "finally"
      /\ pc[r] = "recordSuccess" => row'[r] = success
      /\ pc[r] = "recordError" => row'[r] = error
    BY <1>1 DEF StreamInv, TypeOK
<1>7. StageFits(r) /\ StoredFits(r) /\ WellWritten(events[r], emitted[r], provider[r])
    BY DEF StreamInv, OneStream
<1>8. /\ pc[r] = "recordSuccess" =>
            "done" \in Kinds(events[r]) /\ Kinds(events[r]) \cap Failures = {}
      /\ pc[r] = "recordError" =>
            "done" \notin Kinds(events[r]) /\ Kinds(events[r]) \cap Failures # {}
    BY <1>7 DEF StageFits, WellWritten
<1>9. turn[r] # Absent <=> "done" \in Kinds(events[r])
    BY <1>1, <1>7, <1>8 DEF StoredFits
<1>10. turn[r] # Absent => turn[r] = emitted[r] BY <1>7 DEF StoredFits
<1>11. StageFits(r)' BY <1>6 DEF StageFits
<1>12. /\ row'[r].status = "success" <=> "done" \in Kinds(events[r])
       /\ row'[r].status = "error" <=> Kinds(events[r]) \cap Failures # {}
       /\ row'[r].status # "none"
       /\ "done" \in Kinds(events[r]) => row'[r].outputTokens = emitted[r]
    BY <1>1, <1>3, <1>6, <1>8
<1>13. StoredFits(r)' BY <1>1, <1>6, <1>9, <1>10, <1>12 DEF StoredFits
<1>14. \A q \in Streams \ {r} : /\ pc'[q] = pc[q] /\ aborted'[q] = aborted[q]
                                /\ turn'[q] = turn[q] /\ row'[q] = row[q]
    BY <1>1 DEF StreamInv, TypeOK
<1>15. pc[r] # "ended" BY <1>1
<1> QED BY <1>1, <1>5, <1>11, <1>13, <1>14, <1>15, QuietStep

LEMMA FinishKeeps ==
    ASSUME StreamInv, NEW r \in Streams, Finish(r)
    PROVE  StreamInv'
<1>1. /\ pc[r] = "finally" /\ pc' = [pc EXCEPT ![r] = "ended"]
      /\ UNCHANGED <<provider, flags, aborted, emitted, events, turn, row, browser>>
    BY DEF Finish, Goto, Streaming
<1>2. "ended" \in Steps BY DEF Steps
<1>3. TypeOK' BY <1>1, <1>2 DEF StreamInv, TypeOK, browser
<1>4. pc'[r] = "ended" BY <1>1 DEF StreamInv, TypeOK
<1>5. StageFits(r)' BY <1>4 DEF StageFits
<1>6. StoredFits(r)' BY <1>1, <1>4 DEF StreamInv, OneStream, StoredFits
<1>7. \A q \in Streams \ {r} : /\ pc'[q] = pc[q] /\ aborted'[q] = aborted[q]
                               /\ turn'[q] = turn[q] /\ row'[q] = row[q]
    BY <1>1 DEF StreamInv, TypeOK
<1> QED BY <1>1, <1>3, <1>4, <1>5, <1>6, <1>7, QuietStep

LEMMA ClientLeavesKeeps ==
    ASSUME StreamInv, NEW r \in Streams, ClientLeaves(r)
    PROVE  StreamInv'
<1>1. /\ pc[r] \notin {"idle", "ended"} /\ aborted' = [aborted EXCEPT ![r] = TRUE]
      /\ UNCHANGED <<provider, flags, pc, emitted, events, turn, row, browser>>
    BY DEF ClientLeaves
<1>2. TypeOK' BY <1>1 DEF StreamInv, TypeOK, browser
<1>3. aborted'[r] BY <1>1 DEF StreamInv, TypeOK
<1>4. StageFits(r)' BY <1>1 DEF StreamInv, OneStream, StageFits
<1>5. StoredFits(r)' BY <1>1, <1>3 DEF StreamInv, OneStream, StoredFits
<1>6. \A q \in Streams \ {r} : /\ pc'[q] = pc[q] /\ aborted'[q] = aborted[q]
                               /\ turn'[q] = turn[q] /\ row'[q] = row[q]
    BY <1>1 DEF StreamInv, TypeOK
<1> QED BY <1>1, <1>2, <1>4, <1>5, <1>6, QuietStep

LEMMA InjectFaultKeeps ==
    ASSUME StreamInv, InjectFault
    PROVE  StreamInv'
<1>1. UNCHANGED <<provider, pc, aborted, emitted, events, turn, row, browser>>
    BY DEF InjectFault
<1>2. TypeOK' BY <1>1 DEF StreamInv, TypeOK, browser, InjectFault
<1>3. ASSUME NEW q \in Streams PROVE OneStream(q)'
    BY <1>1, StreamUntouched DEF StreamInv, browser
<1> QED BY <1>2, <1>3 DEF StreamInv

-----------------------------------------------------------------------------
(* TokenStream: steps of the browser *)

\* A step of the browser: the server and the other streams are left alone.
LEMMA ReaderStep ==
    ASSUME StreamInv, TypeOK', NEW r \in Streams, Server,
           \A q \in Streams \ {r} : /\ reader'[q] = reader[q] /\ arrived'[q] = arrived[q]
                                    /\ buffer'[q] = buffer[q] /\ bubble'[q] = bubble[q],
           ReaderFits(r)'
    PROVE  StreamInv'
<1>1. UNCHANGED <<provider, pc, aborted, emitted, events, turn, row>> BY DEF Server
<1>2. OneStream(r)'
    BY <1>1 DEF StreamInv, OneStream, StageFits, StoredFits
<1>3. ASSUME NEW q \in Streams, q # r PROVE OneStream(q)'
    BY <1>1, <1>3, StreamUntouched DEF StreamInv
<1> QED BY <1>2, <1>3 DEF StreamInv

\* A number of parts is a number of events, and perhaps a half.
LEMMA Halved == \A n \in Nat : \E k \in Nat : n = 2 * k \/ n = 2 * k + 1
<1>1. ASSUME NEW n \in Nat PROVE \E k \in Nat : n = 2 * k \/ n = 2 * k + 1
    <2>1. n \div 2 \in Nat /\ (n = 2 * (n \div 2) \/ n = 2 * (n \div 2) + 1) BY SMT
    <2> QED BY <2>1
<1> QED BY <1>1

\* Which of the two it is.
LEMMA Parity ==
    ASSUME NEW k \in Nat
    PROVE  (2 * k) % 2 = 0 /\ (2 * k + 1) % 2 = 1
BY SMT

\* What a read adds to what was received.
Between(s, m, k, kinds) == {i \in 1..Len(s) : m < i /\ i <= k /\ s[i] \in kinds}

\* More events have arrived: those that had, and those in between.
LEMMA ReceivedMore ==
    ASSUME NEW s \in Seq(Events), NEW m \in Nat, NEW k \in Nat, m <= k, NEW kinds
    PROVE  /\ Received(s, k, kinds) = Received(s, m, kinds) \cup Between(s, m, k, kinds)
           /\ Cardinality(Received(s, k, kinds)) =
                 Cardinality(Received(s, m, kinds)) + Cardinality(Between(s, m, k, kinds))
           /\ Cardinality(Received(s, k, kinds)) \in Nat
<1> DEFINE A == Received(s, m, kinds)
           B == Between(s, m, k, kinds)
<1>1. Len(s) \in Nat OBVIOUS
<1>2. \A i \in 1..Len(s) : i <= k <=> i <= m \/ (m < i /\ i <= k) BY <1>1, SMT
<1>3. \A i \in 1..Len(s) : ~(i <= m /\ m < i) BY <1>1, SMT
<1>4. Received(s, k, kinds) = A \cup B BY <1>2 DEF Received, Between
<1>5. A \cap B = {} BY <1>3 DEF Received, Between
<1>6. IsFiniteSet(1..Len(s)) BY <1>1, FS_Interval
<1>7. A \subseteq 1..Len(s) /\ B \subseteq 1..Len(s) BY DEF Received, Between
<1>8. IsFiniteSet(A) /\ IsFiniteSet(B) BY <1>6, <1>7, FS_Subset
<1>9. Cardinality(A) \in Nat /\ Cardinality(B) \in Nat BY <1>8, FS_CardinalityType
<1>10. Cardinality(A \cap B) = 0 BY <1>5, FS_EmptySet
<1> HIDE DEF A, B
<1>11. Cardinality(A \cup B) = Cardinality(A) + Cardinality(B) - Cardinality(A \cap B)
    BY <1>8, FS_Union
<1>12. Cardinality(A \cup B) = Cardinality(A) + Cardinality(B) BY <1>9, <1>10, <1>11, SMT
<1>13. Cardinality(A \cup B) \in Nat BY <1>9, <1>12, SMT
<1> QED BY <1>4, <1>12, <1>13 DEF A, B

\* The parts of events read: k whole events, and perhaps a half.
Halves(n, k) == n = 2 * k \/ n = 2 * k + 1
LinesIn(s, parts) == {i \in 1..Len(s) : {2 * i - 1, 2 * i} \subseteq parts}
EventsBetween(s, m, k) == {i \in 1..Len(s) : m < i /\ i <= k}

\* A read ends within what was written.
LEMMA ReadBounds ==
    ASSUME NEW L \in Nat, NEW m \in Nat, NEW a \in Nat, NEW kept, HeldBack(a, kept, m),
           NEW n, n \in (a + 1)..(2 * L), NEW k \in Nat, Halves(n, k)
    PROVE  /\ m <= k /\ k <= L /\ n \in Nat
           /\ n = 2 * k + 1 => k < L
<1>1. a = 2 * m \/ a = 2 * m + 1 BY DEF HeldBack
<1>2. n = 2 * k \/ n = 2 * k + 1 BY DEF Halves
<1> QED BY <1>1, <1>2, SMT

\* The lines of a read are the events whose last part it brings.
LEMMA LinesOfRead ==
    ASSUME NEW s \in Seq(Events), NEW m \in Nat, NEW a \in Nat, NEW kept, HeldBack(a, kept, m),
           NEW n, n \in (a + 1)..(2 * Len(s)), NEW k \in Nat, Halves(n, k)
    PROVE  LinesIn(s, kept \cup (a + 1)..n) = EventsBetween(s, m, k)
<1> DEFINE parts == kept \cup (a + 1)..n
           L == Len(s)
<1>1. L \in Nat OBVIOUS
<1> HIDE DEF L
<1>2. n \in Nat /\ a + 1 <= n /\ n <= 2 * L BY <1>1, SMT DEF L
<1>3. n = 2 * k \/ n = 2 * k + 1 BY DEF Halves
<1>4. \A p : p \in parts <=> p \in kept \/ p \in (a + 1)..n OBVIOUS
<1>5. ASSUME NEW i \in 1..L PROVE {2 * i - 1, 2 * i} \subseteq parts <=> m < i /\ i <= k
    <2>1. i \in Nat BY <1>1, SMT
    <2>2. CASE a = 2 * m /\ kept = {}
        <3>1. 2 * i - 1 \in (a + 1)..n /\ 2 * i \in (a + 1)..n <=> m < i /\ i <= k
            BY <1>2, <1>3, <2>1, <2>2, SMT
        <3> QED BY <2>2, <3>1
    <2>3. CASE a = 2 * m + 1 /\ kept = {a}
        <3>1. /\ 2 * i \in (a + 1)..n <=> m < i /\ i <= k
              /\ 2 * i # a
              /\ m < i /\ i <= k => 2 * i - 1 = a \/ 2 * i - 1 \in (a + 1)..n
            BY <1>2, <1>3, <2>1, <2>3, SMT
        <3> QED BY <2>3, <3>1
    <2> QED BY <2>2, <2>3 DEF HeldBack
<1> HIDE DEF parts
<1>6. LinesIn(s, parts) = EventsBetween(s, m, k) BY <1>5 DEF LinesIn, L, EventsBetween
<1> QED BY <1>6 DEF parts

\* What is left over is half an event, the one that was cut.
LEMMA RestOfRead ==
    ASSUME NEW L \in Nat, NEW m \in Nat, NEW a \in Nat, NEW kept, HeldBack(a, kept, m),
           NEW n, n \in (a + 1)..(2 * L), NEW k \in Nat, Halves(n, k)
    PROVE  HeldBack(n, Remainder(kept \cup (a + 1)..n), k)
<1> DEFINE parts == kept \cup (a + 1)..n
<1>1. n \in Nat /\ a + 1 <= n BY SMT
<1>2. n = 2 * k \/ n = 2 * k + 1 BY DEF Halves
<1>6. n \in parts /\ \A p \in parts : p \in Nat /\ p <= n
    <2>1. n \in (a + 1)..n /\ \A p \in (a + 1)..n : p \in Nat /\ p <= n BY <1>1, SMT
    <2>2. a <= n BY <1>1, SMT
    <2> QED BY <2>1, <2>2 DEF HeldBack
<1>7. \A p \in parts : (\A q \in parts : q <= p) <=> p = n
    <2>1. ASSUME NEW p \in parts, \A q \in parts : q <= p PROVE p = n
        <3>1. p \in Nat /\ p <= n /\ n <= p BY <1>6, <2>1
        <3> QED BY <1>1, <3>1, SMT
    <2> QED BY <1>6, <2>1
<1> HIDE DEF parts
<1>8. Remainder(parts) = {p \in {n} : p % 2 = 1} BY <1>6, <1>7 DEF Remainder
<1>9. n = 2 * k => n % 2 = 0 BY Parity
<1>10. n = 2 * k + 1 => n % 2 = 1 BY Parity
<1>11. n = 2 * k => Remainder(parts) = {} BY <1>8, <1>9
<1>12. n = 2 * k + 1 => Remainder(parts) = {n} BY <1>8, <1>10
<1>13. HeldBack(n, Remainder(parts), k) BY <1>2, <1>11, <1>12 DEF HeldBack
<1> QED BY <1>13 DEF parts

\* No token follows a failure.
LEMMA ErrorsComeLast ==
    ASSUME NEW s \in Seq(Events), Ordered(s), NEW i \in 1..Len(s), NEW j \in 1..Len(s),
           s[i] \in Failures, s[j] = "token"
    PROVE  j < i
<1>1. i < j => Before(s[i], s[j]) BY DEF Ordered
<1>2. ~Before(s[i], s[j]) BY DEF Before, Rank, Failures
<1>3. i # j BY DEF Failures
<1> QED BY <1>1, <1>2, <1>3, SMT

\* There is one failure at most.
LEMMA OneError ==
    ASSUME NEW s \in Seq(Events), Ordered(s), NEW i \in 1..Len(s), NEW j \in 1..Len(s),
           s[i] \in Failures, s[j] \in Failures
    PROVE  i = j
<1>1. (i < j => Before(s[i], s[j])) /\ (j < i => Before(s[j], s[i])) BY DEF Ordered
<1>2. ~Before(s[i], s[j]) /\ ~Before(s[j], s[i]) BY DEF Before, Rank, Failures
<1> QED BY <1>1, <1>2, SMT

\* The bubble shows an error when the last of the texts that arrived is one.
LEMMA ReadKeeps ==
    ASSUME StreamInv, NEW r \in Streams, ReadResponse(r)
    PROVE  StreamInv'
<1> DEFINE s == events[r]
<1>1. /\ reader[r] = "reading" /\ UNCHANGED reader /\ Server
      /\ events' = events /\ pc' = pc
    BY DEF ReadResponse, Server
<1>2. PICK n \in (arrived[r] + 1)..(2 * Len(s)) :
          /\ arrived' = [arrived EXCEPT ![r] = n]
          /\ buffer' = [buffer EXCEPT ![r] = Remainder(buffer[r] \cup (arrived[r] + 1)..n)]
          /\ bubble' = [bubble EXCEPT ![r] =
                 Apply(r, bubble[r], Lines(r, buffer[r] \cup (arrived[r] + 1)..n))]
    BY DEF ReadResponse
<1>3. s \in Seq(Events) /\ arrived[r] \in Nat /\ Len(s) \in Nat BY DEF StreamInv, TypeOK
<1>4. PICK m \in Nat : ReadSoFar(r, m) BY DEF StreamInv, OneStream, ReaderFits
<1>5. n \in Nat BY <1>3, SMT
<1>6. PICK k \in Nat : n = 2 * k \/ n = 2 * k + 1 BY <1>5, Halved
<1> DEFINE lines == EventsBetween(s, m, k)
           b == Apply(r, bubble[r], lines)
<1> DEFINE rest == Remainder(buffer[r] \cup (arrived[r] + 1)..n)
<1>7. /\ m <= k /\ k <= Len(s) /\ (n = 2 * k + 1 => k < Len(s))
      /\ Lines(r, buffer[r] \cup (arrived[r] + 1)..n) = lines
      /\ HeldBack(n, rest, k)
    <2>1. HeldBack(arrived[r], buffer[r], m) /\ Halves(n, k)
        BY <1>4, <1>6 DEF ReadSoFar, Halves
    <2>2. n \in (arrived[r] + 1)..(2 * Len(s)) OBVIOUS
    <2>3. LinesIn(s, buffer[r] \cup (arrived[r] + 1)..n) = lines
        BY <1>3, <2>1, <2>2, LinesOfRead
    <2>4. Lines(r, buffer[r] \cup (arrived[r] + 1)..n) = lines
        BY <2>3 DEF Lines, LinesIn
    <2>5. m <= k /\ k <= Len(s) /\ (n = 2 * k + 1 => k < Len(s))
        BY <1>3, <2>1, <2>2, ReadBounds
    <2>6. HeldBack(n, rest, k) BY <1>3, <2>1, <2>2, RestOfRead
    <2> QED BY <2>4, <2>5, <2>6
<1>8. rest \in SUBSET Nat BY <1>5, <1>7 DEF HeldBack
<1>9. /\ arrived' = [arrived EXCEPT ![r] = n] /\ buffer' = [buffer EXCEPT ![r] = rest]
      /\ bubble' = [bubble EXCEPT ![r] = b]
    BY <1>2, <1>7
<1> HIDE DEF rest
<1> DEFINE new(kinds) == Between(s, m, k, kinds)
           texts == new({"token", "error", "partialError"})
           errorIsLast == \E i \in texts : s[i] # "token" /\ \A j \in texts : j <= i
<1>10. \A kinds : {i \in lines : s[i] \in kinds} = new(kinds) BY DEF Between, EventsBetween
<1>11. b = [reasoning |-> bubble[r].reasoning + Cardinality(new({"reasoning"})),
            tokens    |-> bubble[r].tokens + Cardinality(new({"token"})),
            totals    |-> bubble[r].totals \/ new({"meta"}) # {},
            notice    |-> IF texts = {} THEN bubble[r].notice
                          ELSE IF errorIsLast THEN "error" ELSE "none"]
    BY <1>10 DEF Apply
<1> DEFINE got(kinds) == Received(s, k, kinds)
           had(kinds) == Received(s, m, kinds)
<1>12. \A kinds : /\ got(kinds) = had(kinds) \cup new(kinds)
                  /\ Cardinality(got(kinds)) = Cardinality(had(kinds)) + Cardinality(new(kinds))
                  /\ Cardinality(got(kinds)) \in Nat
    BY <1>3, <1>7, ReceivedMore
<1>13. b.notice = "error" <=> got(Failures) # {}
    <2>1. bubble[r].notice = "error" <=> had(Failures) # {} BY <1>1, <1>4 DEF ReadSoFar
    <2>2. Ordered(s) BY DEF StreamInv, OneStream, WellWritten
    <2>3. b.notice = IF texts = {} THEN bubble[r].notice
                     ELSE IF errorIsLast THEN "error" ELSE "none"
        BY <1>11
    <2>4. \A i \in texts : i \in 1..Len(s) /\ m < i /\ i <= k /\ (s[i] = "token" \/ s[i] \in Failures)
        BY DEF Between, Failures
    <2>5. new(Failures) \subseteq texts /\ \A i \in new(Failures) : i \in 1..Len(s) /\ s[i] \in Failures
        BY DEF Between, Failures
    <2>6. CASE texts = {}
        BY <1>12, <2>1, <2>3, <2>5, <2>6
    <2>7. CASE texts # {} /\ errorIsLast
        <3>1. PICK i \in texts : s[i] # "token" BY <2>7
        <3>2. i \in new(Failures) BY <2>4, <3>1 DEF Between
        <3> QED BY <1>12, <2>3, <2>7, <3>2
    <2>8. CASE texts # {} /\ ~errorIsLast
        <3>1. new(Failures) = {}
            <4>1. SUFFICES ASSUME NEW i \in new(Failures) PROVE FALSE OBVIOUS
            <4>2. i \in texts /\ i \in 1..Len(s) /\ s[i] \in Failures /\ s[i] # "token"
                BY <2>5 DEF Failures
            <4>3. ASSUME NEW j \in texts PROVE j <= i
                <5>1. j \in 1..Len(s) /\ (s[j] = "token" \/ s[j] \in Failures) BY <2>4
                <5>2. j < i \/ j = i BY <1>3, <2>2, <4>2, <5>1, ErrorsComeLast, OneError
                <5>3. i \in Nat BY <4>2, <1>3, SMT
                <5> QED BY <5>2, <5>3, SMT
            <4> QED BY <2>8, <4>2, <4>3
        <3>2. had(Failures) = {}
            <4>1. SUFFICES ASSUME NEW i \in had(Failures) PROVE FALSE OBVIOUS
            <4>2. i \in 1..Len(s) /\ i <= m /\ s[i] \in Failures BY DEF Received
            <4>3. PICK j \in texts : TRUE BY <2>8
            <4>4. j \in 1..Len(s) /\ m < j /\ (s[j] = "token" \/ s[j] \in Failures) BY <2>4
            <4>5. j < i \/ j = i BY <1>3, <2>2, <4>2, <4>4, ErrorsComeLast, OneError
            <4> QED BY <1>3, <4>2, <4>4, <4>5, SMT
        <3>3. got(Failures) = {} BY <1>12, <3>1, <3>2
        <3>4. b.notice = "none" BY <2>3, <2>8
        <3> QED BY <3>3, <3>4
    <2> QED BY <2>6, <2>7, <2>8
<1>14. /\ b.reasoning = Cardinality(got({"reasoning"}))
       /\ b.tokens = Cardinality(got({"token"}))
    <2>1. /\ bubble[r].reasoning = Cardinality(had({"reasoning"}))
          /\ bubble[r].tokens = Cardinality(had({"token"}))
        BY <1>4 DEF ReadSoFar
    <2>2. /\ b.reasoning = bubble[r].reasoning + Cardinality(new({"reasoning"}))
          /\ b.tokens = bubble[r].tokens + Cardinality(new({"token"}))
        BY <1>11
    <2> HIDE DEF b, got, had, new
    <2> QED BY <1>12, <2>1, <2>2
<1>15. b.totals <=> got({"meta"}) # {}
    <2>1. bubble[r].totals <=> had({"meta"}) # {} BY <1>4 DEF ReadSoFar
    <2>2. b.totals = (bubble[r].totals \/ new({"meta"}) # {}) BY <1>11
    <2>3. got({"meta"}) = had({"meta"}) \cup new({"meta"}) BY <1>12
    <2> HIDE DEF b, got, had, new
    <2> QED BY <2>1, <2>2, <2>3
<1>16. b \in [reasoning : Nat, tokens : Nat, totals : BOOLEAN,
              notice : {"none", "error", "failed"}]
    <2>1. b.reasoning \in Nat /\ b.tokens \in Nat BY <1>12, <1>14
    <2>2. bubble[r].notice \in {"none", "error", "failed"} /\ bubble[r].totals \in BOOLEAN
        BY DEF StreamInv, TypeOK
    <2>3. (bubble[r].totals \/ new({"meta"}) # {}) \in BOOLEAN OBVIOUS
    <2>4. (IF texts = {} THEN bubble[r].notice ELSE IF errorIsLast THEN "error" ELSE "none")
              \in {"none", "error", "failed"}
        BY <2>2
    <2> DEFINE x == bubble[r].reasoning + Cardinality(new({"reasoning"}))
               y == bubble[r].tokens + Cardinality(new({"token"}))
               z == bubble[r].totals \/ new({"meta"}) # {}
               w == IF texts = {} THEN bubble[r].notice ELSE IF errorIsLast THEN "error" ELSE "none"
    <2>5. z \in BOOLEAN /\ w \in {"none", "error", "failed"} BY <2>3, <2>4
    <2>6. b = [reasoning |-> x, tokens |-> y, totals |-> z, notice |-> w] BY <1>11
    <2> HIDE DEF b, x, y, z, w
    <2>7. x \in Nat /\ y \in Nat BY <2>1, <2>6
    <2> QED BY <2>5, <2>6, <2>7
<1> HIDE DEF b, lines
<1>17. TypeOK'
    <2>1. UNCHANGED <<provider, flags, pc, aborted, emitted, events, turn, row>> BY <1>1 DEF Server
    <2>2. arrived' \in [Streams -> Nat] BY <1>5, <1>9 DEF StreamInv, TypeOK
    <2>3. buffer' \in [Streams -> SUBSET Nat] BY <1>8, <1>9 DEF StreamInv, TypeOK
    <2>4. bubble' \in [Streams -> [reasoning : Nat, tokens : Nat, totals : BOOLEAN,
                                   notice : {"none", "error", "failed"}]]
        BY <1>9, <1>16 DEF StreamInv, TypeOK
    <2> QED BY <1>1, <2>1, <2>2, <2>3, <2>4 DEF StreamInv, TypeOK
<1>18. arrived'[r] = n /\ buffer'[r] = rest /\ bubble'[r] = b /\ reader'[r] = "reading"
    BY <1>1, <1>9 DEF StreamInv, TypeOK
<1>19. ReadSoFar(r, k)'
    BY <1>1, <1>7, <1>13, <1>14, <1>15, <1>18 DEF ReadSoFar
<1>20. ReaderFits(r)' BY <1>19 DEF ReaderFits
<1>21. \A q \in Streams \ {r} : /\ reader'[q] = reader[q] /\ arrived'[q] = arrived[q]
                                /\ buffer'[q] = buffer[q] /\ bubble'[q] = bubble[q]
    BY <1>1, <1>9 DEF StreamInv, TypeOK
<1> QED BY <1>1, <1>17, <1>20, <1>21, ReaderStep

\* The response ends, or breaks off: the reader stops where it is.
LEMMA ResponseEndsKeeps ==
    ASSUME StreamInv, NEW r \in Streams, ResponseEnds(r)
    PROVE  StreamInv'
<1>1. /\ pc[r] = "ended" /\ arrived[r] = 2 * Len(events[r]) /\ reader[r] = "reading"
      /\ reader' = [reader EXCEPT ![r] = "finished"]
      /\ UNCHANGED <<arrived, buffer, bubble>> /\ Server
      /\ events' = events /\ pc' = pc
    BY DEF ResponseEnds, Server
<1>2. TypeOK' BY <1>1 DEF StreamInv, TypeOK, Server
<1>3. PICK m \in Nat : ReadSoFar(r, m) BY DEF StreamInv, OneStream, ReaderFits
<1>4. reader'[r] = "finished" BY <1>1 DEF StreamInv, TypeOK
<1>5. ReadSoFar(r, m)' BY <1>1, <1>3, <1>4 DEF ReadSoFar
<1>6. ReaderFits(r)' BY <1>5 DEF ReaderFits
<1>7. \A q \in Streams \ {r} : /\ reader'[q] = reader[q] /\ arrived'[q] = arrived[q]
                               /\ buffer'[q] = buffer[q] /\ bubble'[q] = bubble[q]
    BY <1>1 DEF StreamInv, TypeOK
<1> QED BY <1>1, <1>2, <1>6, <1>7, ReaderStep

LEMMA ResponseBreaksKeeps ==
    ASSUME StreamInv, NEW r \in Streams, ResponseBreaks(r)
    PROVE  StreamInv'
<1>1. /\ reader[r] = "reading" /\ UNCHANGED <<arrived, buffer>> /\ Server
      /\ events' = events /\ pc' = pc
    BY DEF ResponseBreaks, Server
<1>2. PICK how \in {"stopped", "failed"} :
          /\ reader' = [reader EXCEPT ![r] = how]
          /\ bubble' = bubble \/ bubble' = [bubble EXCEPT ![r].notice = "failed"]
    BY DEF ResponseBreaks
<1>3. /\ bubble' \in [Streams -> [reasoning : Nat, tokens : Nat, totals : BOOLEAN,
                                  notice : {"none", "error", "failed"}]]
      /\ \A q \in Streams \ {r} : bubble'[q] = bubble[q]
      /\ bubble'[r].reasoning = bubble[r].reasoning /\ bubble'[r].tokens = bubble[r].tokens
      /\ bubble'[r].totals = bubble[r].totals
    <2> DEFINE Bubbles == [reasoning : Nat, tokens : Nat, totals : BOOLEAN,
                           notice : {"none", "error", "failed"}]
               b == [bubble[r] EXCEPT !.notice = "failed"]
    <2>1. bubble \in [Streams -> Bubbles] BY DEF StreamInv, TypeOK
    <2>2. bubble[r] \in Bubbles BY <2>1
    <2>3. b \in Bubbles /\ b.reasoning = bubble[r].reasoning /\ b.tokens = bubble[r].tokens
          /\ b.totals = bubble[r].totals
        BY <2>2
    <2>4. bubble' = bubble \/ bubble' = [bubble EXCEPT ![r] = b] BY <1>2
    <2> HIDE DEF b, Bubbles
    <2>5. bubble' \in [Streams -> Bubbles] BY <2>1, <2>3, <2>4
    <2>6. bubble'[r] = bubble[r] \/ bubble'[r] = b BY <2>1, <2>4
    <2>7. \A q \in Streams \ {r} : bubble'[q] = bubble[q] BY <2>1, <2>4
    <2> QED BY <2>3, <2>5, <2>6, <2>7 DEF Bubbles
<1>4. TypeOK' BY <1>1, <1>2, <1>3 DEF StreamInv, TypeOK, Server
<1>5. PICK m \in Nat : ReadSoFar(r, m) BY DEF StreamInv, OneStream, ReaderFits
<1>6. reader'[r] = how BY <1>2 DEF StreamInv, TypeOK
<1>7. ReadSoFar(r, m)' BY <1>1, <1>3, <1>5, <1>6 DEF ReadSoFar
<1>8. ReaderFits(r)' BY <1>7 DEF ReaderFits
<1>9. \A q \in Streams \ {r} : /\ reader'[q] = reader[q] /\ arrived'[q] = arrived[q]
                               /\ buffer'[q] = buffer[q] /\ bubble'[q] = bubble[q]
    BY <1>1, <1>2, <1>3 DEF StreamInv, TypeOK
<1> QED BY <1>1, <1>4, <1>8, <1>9, ReaderStep

\* The invariant holds at first, and is kept.
LEMMA StreamInvInit == Init => StreamInv
<1> SUFFICES ASSUME Init PROVE StreamInv OBVIOUS
<1>1. TypeOK
    <2>1. 0 \in 0..Words /\ Absent \in Absent..Words
        BY StreamAssumption, SMT DEF Absent
    <2>2. <<>> \in Seq(Events) /\ {} \in SUBSET Nat OBVIOUS
    <2>3. /\ NoRow \in [status : {"none", "success", "error"}, outputTokens : 0..Words]
          /\ Blank \in [reasoning : Nat, tokens : Nat, totals : BOOLEAN,
                        notice : {"none", "error", "failed"}]
        BY <2>1 DEF NoRow, Blank
    <2> QED BY <2>1, <2>2, <2>3 DEF Init, TypeOK, Steps
<1>2. ASSUME NEW r \in Streams PROVE OneStream(r)
    <2>1. /\ events[r] = <<>> /\ emitted[r] = 0 /\ pc[r] = "idle" /\ aborted[r] = FALSE
          /\ turn[r] = Absent /\ row[r] = NoRow /\ reader[r] = "reading" /\ arrived[r] = 0
          /\ buffer[r] = {} /\ bubble[r] = Blank
        BY DEF Init
    <2>2. Kinds(<<>>) = {} /\ Ordered(<<>>) /\ Places(<<>>, "token") = {}
        BY DEF Kinds, Ordered, Places
    <2>3. Cardinality({}) = 0 BY FS_EmptySet
    <2>4. WellWritten(<<>>, 0, provider[r]) BY <2>2, <2>3 DEF WellWritten
    <2>5. StageFits(r) BY <2>1, <2>2 DEF StageFits
    <2>6. StoredFits(r) BY <2>1 DEF StoredFits
    <2>7. \A kinds : Received(<<>>, 0, kinds) = {} BY DEF Received
    <2>8. Len(events[r]) = 0 /\ HeldBack(arrived[r], buffer[r], 0) /\ arrived[r] # 2 * 0 + 1
        BY <2>1, SMT DEF HeldBack
    <2>9. /\ bubble[r].reasoning = 0 /\ bubble[r].tokens = 0 /\ bubble[r].totals = FALSE
          /\ bubble[r].notice = "none"
        BY <2>1 DEF Blank
    <2>10. ReadSoFar(r, 0)
        <3>1. /\ 0 <= Len(events[r]) /\ HeldBack(arrived[r], buffer[r], 0)
              /\ ~(arrived[r] = 2 * 0 + 1)
            BY <2>8
        <3>2. \A kinds : Received(events[r], 0, kinds) = {} BY <2>1, <2>7
        <3>3. /\ bubble[r].reasoning = Cardinality(Received(events[r], 0, {"reasoning"}))
              /\ bubble[r].tokens = Cardinality(Received(events[r], 0, {"token"}))
            BY <2>3, <2>9, <3>2
        <3>4. bubble[r].totals <=> Received(events[r], 0, {"meta"}) # {}
            BY <2>9, <3>2
        <3>5. bubble[r].notice = "error" <=> Received(events[r], 0, Failures) # {}
            <4>1. bubble[r].notice # "error" BY <2>9
            <4>2. Received(events[r], 0, Failures) = {} BY <3>2, Zenon
            <4> QED BY <4>1, <4>2
        <3>6. reader[r] # "finished" BY <2>1
        <3> QED BY <3>1, <3>3, <3>4, <3>5, <3>6, Zenon DEF ReadSoFar
    <2> QED BY <2>1, <2>4, <2>5, <2>6, <2>10 DEF OneStream, ReaderFits
<1> QED BY <1>1, <1>2 DEF StreamInv

LEMMA StreamInvNext == StreamInv /\ [Next]_vars => StreamInv'
<1> SUFFICES ASSUME StreamInv, [Next]_vars PROVE StreamInv' OBVIOUS
<1>1. CASE UNCHANGED vars
    <2>1. TypeOK' BY <1>1 DEF vars, browser, StreamInv, TypeOK
    <2>2. ASSUME NEW q \in Streams PROVE OneStream(q)'
        BY <1>1, StreamUntouched DEF vars, browser, StreamInv
    <2> QED BY <2>1, <2>2 DEF StreamInv
<1>2. CASE InjectFault BY <1>2, InjectFaultKeeps
<1>3. ASSUME NEW r \in Streams,
             \/ Begin(r) \/ HangOver(r) \/ TtftOver(r) \/ ReasoningOver(r) \/ TokenOver(r)
             \/ FetchAnswers(r) \/ ReadChunk(r) \/ ReadEnd(r) \/ ReadFails(r)
             \/ SaveAnswer(r) \/ RecordRow(r) \/ Finish(r) \/ ClientLeaves(r)
             \/ ReadResponse(r) \/ ResponseEnds(r) \/ ResponseBreaks(r)
      PROVE  StreamInv'
    <2>1. CASE Begin(r) BY <2>1, BeginKeeps
    <2>2. CASE HangOver(r) BY <2>2, ThrowsKeeps DEF HangOver, Underway
    <2>3. CASE TtftOver(r) BY <2>3, ThinkKeeps, GenerateKeeps DEF TtftOver, Underway
    <2>4. CASE ReasoningOver(r) BY <2>4, ThinkKeeps, GenerateKeeps DEF ReasoningOver, Underway
    <2>5. CASE TokenOver(r) BY <2>5, GenerateKeeps DEF TokenOver, Underway
    <2>6. CASE FetchAnswers(r) BY <2>6, FetchAnswersKeeps
    <2>7. CASE ReadChunk(r) BY <2>7, ReadChunkKeeps
    <2>8. CASE ReadEnd(r)
        <3>1. pc[r] = "reading" /\ pc[r] \in Underway /\ Returns(r) /\ Streaming
            BY <2>8 DEF ReadEnd, Underway
        <3>2. provider[r] # "mock" BY <3>1 DEF StreamInv, OneStream, StageFits
        <3> QED BY <3>1, <3>2, ReturnsKeeps
    <2>9. CASE ReadFails(r) BY <2>9, ThrowsKeeps DEF ReadFails, Underway
    <2>10. CASE SaveAnswer(r) BY <2>10, SaveAnswerKeeps
    <2>11. CASE RecordRow(r) BY <2>11, RecordRowKeeps
    <2>12. CASE Finish(r) BY <2>12, FinishKeeps
    <2>13. CASE ClientLeaves(r) BY <2>13, ClientLeavesKeeps
    <2>14. CASE ReadResponse(r) BY <2>14, ReadKeeps
    <2>15. CASE ResponseEnds(r) BY <2>15, ResponseEndsKeeps
    <2>16. CASE ResponseBreaks(r) BY <2>16, ResponseBreaksKeeps
    <2> QED BY <1>3, <2>1, <2>2, <2>3, <2>4, <2>5, <2>6, <2>7, <2>8, <2>9, <2>10, <2>11, <2>12,
               <2>13, <2>14, <2>15, <2>16
<1> QED BY <1>1, <1>2, <1>3 DEF Next

\* The invariant holds of every stream at every await and read.
THEOREM StreamInvHolds == Spec => []StreamInv
BY StreamInvInit, StreamInvNext, PTL DEF Spec

-----------------------------------------------------------------------------
(* TokenStream: the properties *)

\* A reader of the socket sees the start, the reasoning, the tokens and one
\* true outcome, in this order, whatever fails or leaves (routes/chat.ts
\* 172-288).
THEOREM StreamsAlwaysWellFormed == Spec => []StreamWellFormed
<1>1. StreamInv => StreamWellFormed
    <2> SUFFICES ASSUME StreamInv, NEW r \in Streams
                 PROVE  /\ \A i, j \in 1..Len(events[r]) : i < j =>
                              \/ Rank(events[r][i]) < Rank(events[r][j])
                              \/ events[r][i] = events[r][j] /\ events[r][i] \in {"reasoning", "token"}
                        /\ Wrote(r, "done") => Wrote(r, "meta")
                        /\ Wrote(r, "error") => Count(r, "token") = 0
                        /\ Wrote(r, "partialError") => Count(r, "token") > 0
        BY DEF StreamWellFormed
    <2>1. WellWritten(events[r], emitted[r], provider[r]) BY DEF StreamInv, OneStream
    <2>2. \A e : Wrote(r, e) <=> e \in Kinds(events[r]) BY DEF Wrote, Kinds
    <2>3. Count(r, "token") = emitted[r] BY <2>1 DEF Count, WellWritten, Places
    <2>4. \A i, j \in 1..Len(events[r]) : i < j => Before(events[r][i], events[r][j])
        BY <2>1 DEF WellWritten, Ordered
    <2>5. \A i, j \in 1..Len(events[r]) : i < j =>
              \/ Rank(events[r][i]) < Rank(events[r][j])
              \/ events[r][i] = events[r][j] /\ events[r][i] \in {"reasoning", "token"}
        BY <2>4, Zenon DEF Before
    <2>6. /\ Wrote(r, "done") => Wrote(r, "meta")
          /\ Wrote(r, "error") => Count(r, "token") = 0
          /\ Wrote(r, "partialError") => Count(r, "token") > 0
        BY <2>1, <2>2, <2>3 DEF WellWritten
    <2> QED BY <2>5, <2>6
<1> QED BY <1>1, StreamInvHolds, PTL

\* Socket, conversation and telemetry tell one story of a stream that ended
\* (routes/chat.ts 194-312).
THEOREM OutcomesAlwaysAgree == Spec => []OutcomeAgrees
<1>1. StreamInv => OutcomeAgrees
    <2> SUFFICES ASSUME StreamInv, NEW r \in Streams, pc[r] = "ended"
                 PROVE  /\ row[r].status = "success" <=> Wrote(r, "done")
                        /\ row[r].status = "error" <=> Wrote(r, "error") \/ Wrote(r, "partialError")
                        /\ row[r].status = "none" => aborted[r]
                        /\ turn[r] # Absent <=> Wrote(r, "done")
                        /\ turn[r] # Absent =>
                              /\ turn[r] = Count(r, "token") /\ row[r].outputTokens = turn[r]
                              /\ provider[r] = "mock" => turn[r] = Words
        BY DEF OutcomeAgrees
    <2>1. WellWritten(events[r], emitted[r], provider[r]) /\ StoredFits(r)
        BY DEF StreamInv, OneStream
    <2>2. \A e : Wrote(r, e) <=> e \in Kinds(events[r]) BY DEF Wrote, Kinds
    <2>3. Count(r, "token") = emitted[r] BY <2>1 DEF Count, WellWritten, Places
    <2>4. Kinds(events[r]) \cap Failures # {} <=> Wrote(r, "error") \/ Wrote(r, "partialError")
        BY <2>2 DEF Failures
    <2>5. turn[r] # Absent <=> Wrote(r, "done") BY <2>1, <2>2 DEF StoredFits
    <2>6. /\ row[r].status = "success" <=> Wrote(r, "done")
          /\ row[r].status = "error" <=> Wrote(r, "error") \/ Wrote(r, "partialError")
          /\ row[r].status = "none" => aborted[r]
        BY <2>1, <2>2, <2>4 DEF StoredFits
    <2>7. turn[r] # Absent =>
              /\ turn[r] = Count(r, "token") /\ row[r].outputTokens = turn[r]
              /\ provider[r] = "mock" => turn[r] = Words
        BY <2>1, <2>2, <2>3, <2>5 DEF StoredFits, WellWritten
    <2> QED BY <2>5, <2>6, <2>7
<1> QED BY <1>1, StreamInvHolds, PTL

\* When all of a list has arrived its places are those received.
LEMMA ReceivedAll ==
    ASSUME NEW s \in Seq(Events), NEW e
    PROVE  /\ Received(s, Len(s), {e}) = Places(s, e)
           /\ \A kinds : Received(s, Len(s), kinds) # {} <=> Kinds(s) \cap kinds # {}
<1>1. \A i \in 1..Len(s) : i <= Len(s) OBVIOUS
<1> QED BY <1>1 DEF Received, Places, Kinds

\* The bubble ends as the stored conversation does, however the response was
\* cut into reads (useChat.ts 207-302).
THEOREM BubblesAlwaysMatch == Spec => []BubbleMatchesStore
<1>1. StreamInv => BubbleMatchesStore
    <2> SUFFICES ASSUME StreamInv, NEW r \in Streams
                 PROVE  /\ reader[r] = "finished" =>
                              /\ bubble[r].notice = "error" <=> row[r].status = "error"
                              /\ bubble[r].totals <=> row[r].status = "success"
                              /\ row[r].status = "success" => bubble[r].tokens = turn[r]
                        /\ bubble[r].totals => bubble[r].tokens = emitted[r]
                        /\ bubble[r].reasoning <= Count(r, "reasoning")
        BY DEF BubbleMatchesStore
    <2> DEFINE s == events[r]
    <2>1. WellWritten(s, emitted[r], provider[r]) /\ StoredFits(r)
        BY DEF StreamInv, OneStream
    <2>2. s \in Seq(Events) /\ Len(s) \in Nat BY DEF StreamInv, TypeOK
    <2>3. PICK m \in Nat : ReadSoFar(r, m) BY DEF StreamInv, OneStream, ReaderFits
    <2>4. Places(s, "token") = Received(s, Len(s), {"token"})
          /\ Cardinality(Places(s, "token")) = emitted[r]
        BY <2>1, <2>2, ReceivedAll DEF WellWritten
    <2>5. bubble[r].reasoning <= Count(r, "reasoning")
        <3>1. Received(s, m, {"reasoning"}) \subseteq Places(s, "reasoning")
            BY DEF Received, Places
        <3>2. IsFiniteSet(Places(s, "reasoning")) BY <2>2, PlacesFinite
        <3>3. Cardinality(Received(s, m, {"reasoning"})) <= Cardinality(Places(s, "reasoning"))
            BY <3>1, <3>2, FS_Subset
        <3> QED BY <2>3, <3>3 DEF ReadSoFar, Count, Places
    <2>6. bubble[r].totals => bubble[r].tokens = emitted[r]
        <3>1. SUFFICES ASSUME bubble[r].totals PROVE bubble[r].tokens = emitted[r] OBVIOUS
        <3>2. PICK i \in Received(s, m, {"meta"}) : TRUE BY <2>3, <3>1 DEF ReadSoFar
        <3>3. i \in 1..Len(s) /\ i <= m /\ s[i] = "meta" BY <3>2 DEF Received
        <3>4. ASSUME NEW j \in 1..Len(s), s[j] = "token" PROVE j <= m
            <4>1. i < j => Before("meta", "token")
                BY <2>1, <3>3, <3>4 DEF WellWritten, Ordered
            <4>2. ~Before("meta", "token") BY DEF Before, Rank
            <4> QED BY <2>2, <3>3, <4>1, <4>2, SMT
        <3>5. Received(s, m, {"token"}) = Places(s, "token")
            BY <3>4 DEF Received, Places
        <3> QED BY <2>3, <2>4, <3>5 DEF ReadSoFar
    <2>7. ASSUME reader[r] = "finished"
          PROVE  /\ bubble[r].notice = "error" <=> row[r].status = "error"
                 /\ bubble[r].totals <=> row[r].status = "success"
                 /\ row[r].status = "success" => bubble[r].tokens = turn[r]
        <3>1. pc[r] = "ended" /\ arrived[r] = 2 * Len(s) BY <2>3, <2>7 DEF ReadSoFar
        <3>2. m = Len(s) BY <2>2, <2>3, <3>1, SMT DEF ReadSoFar, HeldBack
        <3>3. /\ bubble[r].notice = "error" <=> Received(s, Len(s), Failures) # {}
              /\ bubble[r].totals <=> Received(s, Len(s), {"meta"}) # {}
              /\ bubble[r].tokens = Cardinality(Received(s, Len(s), {"token"}))
            BY <2>3, <2>7, <3>2 DEF ReadSoFar
        <3>4. \A kinds : Received(s, Len(s), kinds) # {} <=> Kinds(s) \cap kinds # {}
            BY <2>2, ReceivedAll
        <3>5. /\ bubble[r].notice = "error" <=> Kinds(s) \cap Failures # {}
              /\ bubble[r].totals <=> "done" \in Kinds(s)
            BY <2>1, <3>3, <3>4 DEF WellWritten
        <3>6. bubble[r].tokens = emitted[r] BY <2>4, <3>3
        <3> QED BY <2>1, <3>1, <3>5, <3>6 DEF StoredFits
    <2> QED BY <2>5, <2>6, <2>7
<1> QED BY <1>1, StreamInvHolds, PTL

\* What is written is the end, if every event of it is of the end.
LEMMA OnlyTheEndAppended ==
    ASSUME NEW s \in Seq(Events), NEW written \in Seq(Events),
           \A i \in 1..Len(written) : written[i] \in {"meta", "done"}
    PROVE  \A i \in (Len(s) + 1)..Len(s \o written) : (s \o written)[i] \in {"meta", "done"}
<1> SUFFICES ASSUME NEW i \in (Len(s) + 1)..Len(s \o written)
             PROVE  (s \o written)[i] \in {"meta", "done"}
    OBVIOUS
<1>1. /\ Len(s) \in Nat /\ Len(written) \in Nat
      /\ Len(s \o written) = Len(s) + Len(written)
    OBVIOUS
<1>2. i - Len(s) \in 1..Len(written) BY <1>1
<1>3. (s \o written)[i] = written[i - Len(s)] BY <1>1, <1>2
<1> QED BY <1>2, <1>3

\* What a stream writes in a step in which its client is already gone.
WritesTheEnd(r) ==
    \/ events'[r] = events[r]
    \/ events'[r] = events[r] \o <<>>
    \/ events'[r] = events[r] \o <<"meta", "done">>

\* What an aborted stream writes, for each way a step ends.
LEMMA AbortedThrows ==
    ASSUME StreamInv, NEW r \in Streams, aborted[r], Throws(r, <<>>)
    PROVE  WritesTheEnd(r)
BY DEF StreamInv, TypeOK, Throws, Write, WritesTheEnd

LEMMA AbortedReturns ==
    ASSUME StreamInv, NEW r \in Streams, Returns(r)
    PROVE  WritesTheEnd(r)
BY DEF StreamInv, TypeOK, Returns, Write, WritesTheEnd

LEMMA AbortedGenerates ==
    ASSUME StreamInv, NEW r \in Streams, aborted[r], Generate(r)
    PROVE  WritesTheEnd(r)
BY AbortedThrows, AbortedReturns DEF Generate

\* A handler writes to its own socket.
LEMMA OthersKeepTheirEvents ==
    ASSUME StreamInv, NEW r \in Streams, NEW q \in Streams, q # r,
           events' = events \/ \E written : Write(r, written)
    PROVE  events'[q] = events[q]
BY DEF StreamInv, TypeOK, Write

\* Every action writes to one socket at most.
LEMMA OneStreamWrites ==
    ASSUME NEW r \in Streams,
           \/ Begin(r) \/ HangOver(r) \/ TtftOver(r) \/ ReasoningOver(r) \/ TokenOver(r)
           \/ FetchAnswers(r) \/ ReadChunk(r) \/ ReadEnd(r) \/ ReadFails(r)
           \/ SaveAnswer(r) \/ RecordRow(r) \/ Finish(r) \/ ClientLeaves(r)
           \/ ReadResponse(r) \/ ResponseEnds(r) \/ ResponseBreaks(r)
    PROVE  events' = events \/ \E written : Write(r, written)
<1>1. ASSUME NEW w, Throws(r, w) PROVE \E written : Write(r, written)
    BY <1>1 DEF Throws
<1>2. Returns(r) => \E written : Write(r, written) BY DEF Returns
<1>3. Generate(r) => \E written : Write(r, written) BY <1>1, <1>2 DEF Generate
<1>4. ASSUME NEW next, Think(r, next) PROVE \E written : Write(r, written)
    BY <1>1, <1>4 DEF Think
<1>5. Begin(r) => \E written : Write(r, written) BY <1>1 DEF Begin
<1>6. HangOver(r) \/ ReadFails(r) => \E written : Write(r, written)
    BY <1>1 DEF HangOver, ReadFails
<1>7. TtftOver(r) \/ ReasoningOver(r) \/ TokenOver(r) => \E written : Write(r, written)
    BY <1>3, <1>4 DEF TtftOver, ReasoningOver, TokenOver
<1>8. FetchAnswers(r) => events' = events \/ \E written : Write(r, written)
    BY <1>1 DEF FetchAnswers
<1>9. ReadChunk(r) => \E written : Write(r, written) BY DEF ReadChunk
<1>10. ReadEnd(r) => \E written : Write(r, written) BY <1>2 DEF ReadEnd
<1>11. SaveAnswer(r) \/ RecordRow(r) \/ Finish(r) \/ ClientLeaves(r) => events' = events
    BY DEF SaveAnswer, RecordRow, Finish, ClientLeaves
<1>12. ReadResponse(r) \/ ResponseEnds(r) \/ ResponseBreaks(r) => events' = events
    BY DEF ReadResponse, ResponseEnds, ResponseBreaks, Server
<1> QED BY <1>5, <1>6, <1>7, <1>8, <1>9, <1>10, <1>11, <1>12

\* The action property, for one step and one stream.
LEMMA AbortedStep ==
    ASSUME StreamInv, [Next]_vars, NEW q \in Streams, aborted[q]
    PROVE  WritesTheEnd(q)
<1>1. CASE UNCHANGED vars \/ InjectFault
    BY <1>1 DEF vars, InjectFault, WritesTheEnd
<1>2. ASSUME NEW r \in Streams,
             \/ Begin(r) \/ HangOver(r) \/ TtftOver(r) \/ ReasoningOver(r) \/ TokenOver(r)
             \/ FetchAnswers(r) \/ ReadChunk(r) \/ ReadEnd(r) \/ ReadFails(r)
             \/ SaveAnswer(r) \/ RecordRow(r) \/ Finish(r) \/ ClientLeaves(r)
             \/ ReadResponse(r) \/ ResponseEnds(r) \/ ResponseBreaks(r)
      PROVE  WritesTheEnd(q)
    <2>1. CASE q # r
        <3>1. events' = events \/ \E written : Write(r, written) BY <1>2, OneStreamWrites
        <3> QED BY <2>1, <3>1, OthersKeepTheirEvents DEF WritesTheEnd
    <2>2. CASE q = r
        <3> USE <2>2
        <3>1. ~Begin(r)
            BY DEF Begin, StreamInv, OneStream, StageFits
        <3>2. HangOver(r) \/ ReadFails(r) => WritesTheEnd(r)
            BY AbortedThrows DEF HangOver, ReadFails
        <3>3. ASSUME NEW next, Think(r, next) PROVE WritesTheEnd(r)
            BY <3>3, AbortedThrows DEF Think
        <3>4. TtftOver(r) \/ ReasoningOver(r) \/ TokenOver(r) => WritesTheEnd(r)
            BY <3>3, AbortedGenerates DEF TtftOver, ReasoningOver, TokenOver
        <3>5. FetchAnswers(r) => WritesTheEnd(r) BY AbortedThrows DEF FetchAnswers
        <3>6. ~ReadChunk(r) /\ ~ReadEnd(r) BY DEF ReadChunk, ReadEnd
        <3>7. SaveAnswer(r) \/ RecordRow(r) \/ Finish(r) \/ ClientLeaves(r) => WritesTheEnd(r)
            BY DEF SaveAnswer, RecordRow, Finish, ClientLeaves, WritesTheEnd
        <3>8. ReadResponse(r) \/ ResponseEnds(r) \/ ResponseBreaks(r) => WritesTheEnd(r)
            BY DEF ReadResponse, ResponseEnds, ResponseBreaks, Server, WritesTheEnd
        <3> QED BY <1>2, <3>1, <3>2, <3>4, <3>5, <3>6, <3>7, <3>8
    <2> QED BY <2>1, <2>2
<1> QED BY <1>1, <1>2 DEF Next

\* Once the client has left nothing is written but the end of an answer that
\* was complete (mock-provider.ts 62-122, openai-provider.ts 25-83).
THEOREM AbortsWriteOnlyTheEnd == Spec => AfterAbortOnlyTheEnd
<1>1. StreamInv /\ [Next]_vars =>
          [\A r \in Streams : aborted[r] =>
              \A i \in (Len(events[r]) + 1)..Len(events'[r]) :
                  events'[r][i] \in {"meta", "done"}]_vars
    <2> SUFFICES ASSUME StreamInv, [Next]_vars, NEW r \in Streams, aborted[r]
                 PROVE  \A i \in (Len(events[r]) + 1)..Len(events'[r]) :
                            events'[r][i] \in {"meta", "done"}
        OBVIOUS
    <2>1. events[r] \in Seq(Events) BY DEF StreamInv, TypeOK
    <2>2. <<>> \in Seq(Events) /\ <<"meta", "done">> \in Seq(Events) BY DEF Events
    <2>3. \A i \in 1..Len(<<"meta", "done">>) : <<"meta", "done">>[i] \in {"meta", "done"}
        OBVIOUS
    <2>4. \A i \in 1..Len(<<>>) : <<>>[i] \in {"meta", "done"} OBVIOUS
    <2>5. CASE events'[r] = events[r] BY <2>1, <2>5
    <2>6. CASE events'[r] = events[r] \o <<>> BY <2>1, <2>2, <2>4, <2>6, OnlyTheEndAppended
    <2>7. CASE events'[r] = events[r] \o <<"meta", "done">>
        BY <2>1, <2>2, <2>3, <2>7, OnlyTheEndAppended
    <2> QED BY <2>5, <2>6, <2>7, AbortedStep DEF WritesTheEnd
<1> QED BY <1>1, StreamInvHolds, PTL DEF Spec, AfterAbortOnlyTheEnd

-----------------------------------------------------------------------------
(* ChatClient: the inductive invariant *)

\* What may be written of a message and not yet read.  Nothing is unread once
\* the connection is closed.
UnreadFits(s) ==
    /\ serving[s] \in {"idle", "request", "question"} => wire[s] = <<>>
    /\ serving[s] = "stream" => wire[s] \in {<<"start">>, <<>>}
    /\ serving[s] = "answer" => wire[s] \in {<<"start", "token">>, <<"token">>, <<>>}
    /\ serving[s] = "end" =>
          wire[s] \in {<<"start", "token">>, <<"token">>, <<"start", "error">>, <<"error">>, <<>>}
    /\ serving[s] = "over" =>
          wire[s] \in {<<"limited">>, <<"start", "token", "end">>, <<"token", "end">>,
                       <<"start", "error", "end">>, <<"error", "end">>, <<"end">>, <<>>}

Busy(s) == serving[s] \notin {"idle", "over"}
Resolved(s) == serving[s] \notin {"idle", "request"}

\* A message on both sides: the tab awaits what is served, unless it cut it.
CallFits(s) ==
    /\ serving[s] = "idle" <=> sending[s].step = "idle"
    /\ s \in gone => sending[s].step = "ended" /\ wire[s] = <<>>
    /\ Busy(s) /\ s \notin gone => Active(s)
    /\ Resolved(s) => where[s] = IF sending[s].conv = None THEN Fresh[s] ELSE sending[s].conv
    /\ UnreadFits(s)

\* Nobody knows of a conversation before it is made.
Unknown(c) ==
    /\ current # c
    /\ \A s \in Sends : sending[s].conv # c /\ where[s] # c
    /\ \A l \in Loads : loading[l].conv # c
    /\ \A d \in Deletes : deleting[d].conv # c
    /\ log[c] = <<>>

\* The turn was saved by its message, which has come that far.
Saved(t) ==
    serving[t.of] \in IF t.role = "user" THEN {"stream", "answer", "end", "over"}
                                         ELSE {"end", "over"}

Distinct(turns) == \A i, j \in 1..Len(turns) : turns[i] = turns[j] => i = j

\* Turns that the server has or gave out: each saved, once.
Genuine(turns) == Distinct(turns) /\ \A i \in 1..Len(turns) : Saved(turns[i])

\* Turns that the tab shows: each sent, once.
ShownOnce ==
    /\ \A i, j \in 1..Len(shown) : shown[i].turn = shown[j].turn => i = j
    /\ \A i \in 1..Len(shown) : serving[shown[i].turn.of] # "idle"

\* The question of a message whose answer is due: only messages that were cut
\* have saved a turn since.
AskedLast(s) ==
    \E j \in 1..Len(log[where[s]]) :
        /\ log[where[s]][j] = Question(s)
        /\ \A k \in (j + 1)..Len(log[where[s]]) : log[where[s]][k].of \in gone

CallsInv ==
    /\ ClientTypeOK
    /\ StreamIsInReach
    /\ ref # None => streaming
    /\ \A s \in Sends : CallFits(s)
    /\ \A s \in Sends : ~Resolved(s) => Unknown(Fresh[s])

TurnsInv ==
    /\ \A c \in Ids : Genuine(log[c])
    /\ \A l \in Loads : Genuine(loading[l].turns)
    /\ ShownOnce
    /\ \A s \in Sends : serving[s] \in {"stream", "answer"} /\ s \notin gone
                            /\ where[s] \in threads => AskedLast(s)
    /\ AnswersFollowQuestions

-----------------------------------------------------------------------------
(* ChatClient: while the tab is undisturbed *)

Wanted(t) == IF t.role = "user" THEN "said" ELSE "answer"

\* The first items are the turns, the last item's text excepted.
Follows(items, turns) ==
    /\ Len(turns) <= Len(items)
    /\ \A i \in 1..Len(turns) :
          /\ items[i].turn = turns[i]
          /\ i < Len(items) => items[i].text = Wanted(turns[i])

Shows(items, turns) ==
    /\ Len(items) = Len(turns)
    /\ \A i \in 1..Len(turns) : items[i].turn = turns[i] /\ items[i].text = Wanted(turns[i])

Stored(c) == IF c = None THEN <<>> ELSE log[c]

Loading(l) == loading[l].step \notin {"idle", "done"}
Deleting(d) == deleting[d].step \notin {"idle", "done"}

\* Only conversations that were given out are deleted.
DeletesNamed == \A d \in Deletes : Deleting(d) => deleting[d].conv # None

\* Where a message goes.
Dest(s) == IF sending[s].conv = None THEN Fresh[s] ELSE sending[s].conv

\* A deletion that has nothing to do with what the tab shows or awaits, and
\* one that has.
Elsewhere(d) ==
    /\ ~deleting[d].wasCurrent
    /\ deleting[d].conv # current
    /\ \A s \in Sends : Active(s) => deleting[d].conv # Dest(s)

Near(d) == Deleting(d) /\ ~Elsewhere(d)

\* The last two items are those of the message.
Local(s) ==
    LET k == Len(shown)
    IN  /\ k >= 2
        /\ shown[k - 1].turn = Question(s) /\ shown[k - 1].text = "said"
        /\ shown[k].turn = Answer(s) /\ shown[k].local

Refused(s) ==
    wire[s] \in {<<"limited">>, <<"start", "error">>, <<"error">>,
                 <<"start", "error", "end">>, <<"error", "end">>}

\* The conversation a message goes to, and how many of its turns are saved.
Target(s) == IF Resolved(s) THEN where[s] ELSE sending[s].conv
SoFar(s) == IF serving[s] \in {"request", "question"} THEN 0
            ELSE IF serving[s] \in {"stream", "answer"} THEN 1 ELSE 2

NoStart == {<<"token">>, <<"token", "end">>, <<"end">>}
NoToken == {<<>>, <<"end">>}

\* A message that is not refused: the conversation lacks its turns that are
\* not saved, the tab the events that it has not read.
SendFits(s) ==
    /\ Follows(shown, Stored(Target(s)))
    /\ Len(Stored(Target(s))) = Len(shown) - 2 + SoFar(s)
    /\ serving[s] = "over" => wire[s] # <<>>
    /\ IF serving[s] \in {"stream", "answer", "end", "over"}
          /\ wire[s] \in NoStart \cup {<<>>}
       THEN current = where[s] ELSE current = sending[s].conv
    /\ serving[s] \in {"answer", "end", "over"} /\ wire[s] \in NoToken =>
          shown[Len(shown)].text = "answer"

SendMode(s) == Local(s) /\ (Refused(s) \/ SendFits(s))

LoadMode(l) ==
    /\ loading[l].conv = current
    /\ loading[l].step = "answered" => loading[l].turns = Stored(current)

DeleteMode(d) ==
    /\ deleting[d].wasCurrent <=> deleting[d].conv = current
    /\ \/ deleting[d].step = "answered" /\ deleting[d].wasCurrent
       \/ Shows(shown, Stored(current))

\* One call at a time, but for deletions elsewhere.
Alone ==
    /\ \A s \in Sends, l \in Loads : ~(Active(s) /\ Loading(l))
    /\ \A s \in Sends, d \in Deletes : ~(Active(s) /\ Near(d))
    /\ \A l \in Loads, d \in Deletes : ~(Loading(l) /\ Near(d))
    /\ \A k, l \in Loads : Loading(k) /\ Loading(l) => k = l
    /\ \A d, e \in Deletes : Near(d) /\ Near(e) => d = e

\* The tab awaits nothing that it will show.
AtRest ==
    /\ \A s \in Sends : ~Active(s)
    /\ \A l \in Loads : ~Loading(l)
    /\ \A d \in Deletes : ~Near(d)

Undisturbed ==
    /\ \A s \in gone : serving[s] = "over"
    /\ Alone
    /\ \A s \in Sends : Active(s) => SendMode(s)
    /\ \A l \in Loads : Loading(l) => LoadMode(l)
    /\ \A d \in Deletes : Near(d) => DeleteMode(d)
    /\ AtRest => Shows(shown, Stored(current))

ClientInv == CallsInv /\ TurnsInv /\ DeletesNamed /\ (~disturbed => Undisturbed)

-----------------------------------------------------------------------------
(* ChatClient: types *)

\* The turns and the items of a message.
LEMMA ItemsTyped ==
    ASSUME NEW s \in Sends
    PROVE  /\ Question(s) \in Turn /\ Answer(s) \in Turn
           /\ \A text \in {"said", "empty", "answer", "notice"}, local \in BOOLEAN :
                 /\ Item(Question(s), text, local) \in Shown
                 /\ Item(Answer(s), text, local) \in Shown
BY DEF Question, Answer, Item, Turn, Shown

\* Setting a text leaves the turns that are shown as they are.
LEMMA SetTextTyped ==
    ASSUME ClientTypeOK, NEW s, NEW text \in {"said", "empty", "answer", "notice"},
           SetText(s, text)
    PROVE  /\ shown' \in Seq(Shown)
           /\ Len(shown') = Len(shown)
           /\ \A i \in 1..Len(shown) :
                 /\ shown'[i].turn = shown[i].turn /\ shown'[i].local = shown[i].local
                 /\ shown'[i].text = IF shown[i].local /\ shown[i].turn = Answer(s)
                                     THEN text ELSE shown[i].text
<1> DEFINE set(m) == [m EXCEPT !.text = text]
           new(i) == IF shown[i].local /\ shown[i].turn = Answer(s) THEN set(shown[i]) ELSE shown[i]
<1>1. shown \in Seq(Shown) /\ Len(shown) \in Nat BY DEF ClientTypeOK
<1>2. \A m \in Shown : /\ set(m) \in Shown /\ set(m).turn = m.turn /\ set(m).local = m.local
                       /\ set(m).text = text
    BY DEF Shown
<1>3. \A i \in 1..Len(shown) : shown[i] \in Shown BY <1>1
<1>4. shown' = [i \in 1..Len(shown) |-> new(i)] BY DEF SetText
<1> HIDE DEF set
<1>5. \A i \in 1..Len(shown) : new(i) \in Shown BY <1>2, <1>3
<1>6. \A i \in 1..Len(shown) : /\ new(i).turn = shown[i].turn /\ new(i).local = shown[i].local
                               /\ new(i).text = IF shown[i].local /\ shown[i].turn = Answer(s)
                                                THEN text ELSE shown[i].text
    BY <1>2, <1>3
<1> HIDE DEF new
<1>7. shown' \in Seq(Shown) /\ Len(shown') = Len(shown) BY <1>1, <1>4, <1>5
<1>8. \A i \in 1..Len(shown) : shown'[i] = new(i) BY <1>4
<1> QED BY <1>6, <1>7, <1>8

\* What is displayed of a conversation, turn by turn.
LEMMA DisplayedTyped ==
    ASSUME NEW turns \in Seq(Turn)
    PROVE  /\ Displayed(turns) \in Seq(Shown)
           /\ Len(Displayed(turns)) = Len(turns)
           /\ \A i \in 1..Len(turns) : /\ Displayed(turns)[i].turn = turns[i]
                                       /\ Displayed(turns)[i].text = Wanted(turns[i])
                                       /\ Displayed(turns)[i].local = FALSE
<1> DEFINE new(i) == Item(turns[i], IF turns[i].role = "user" THEN "said" ELSE "answer", FALSE)
<1>1. Len(turns) \in Nat /\ \A i \in 1..Len(turns) : turns[i] \in Turn OBVIOUS
<1>2. \A i \in 1..Len(turns) : /\ new(i) \in Shown /\ new(i).turn = turns[i]
                               /\ new(i).text = Wanted(turns[i]) /\ new(i).local = FALSE
    BY <1>1 DEF Item, Shown, Wanted
<1>3. Displayed(turns) = [i \in 1..Len(turns) |-> new(i)] BY DEF Displayed
<1> HIDE DEF new
<1>4. Displayed(turns) \in Seq(Shown) /\ Len(Displayed(turns)) = Len(turns) BY <1>1, <1>2, <1>3
<1>5. \A i \in 1..Len(turns) : Displayed(turns)[i] = new(i) BY <1>3
<1> QED BY <1>2, <1>4, <1>5

\* Two items more.
LEMMA TwoMore ==
    ASSUME NEW items \in Seq(Shown), NEW p \in Shown, NEW q \in Shown
    PROVE  /\ items \o <<p, q>> \in Seq(Shown)
           /\ Len(items) \in Nat /\ Len(items \o <<p, q>>) = Len(items) + 2
           /\ \A i \in 1..Len(items) : (items \o <<p, q>>)[i] = items[i]
           /\ (items \o <<p, q>>)[Len(items) + 1] = p
           /\ (items \o <<p, q>>)[Len(items) + 2] = q
<1>1. <<p, q>> \in Seq(Shown) /\ Len(<<p, q>>) = 2 OBVIOUS
<1> QED BY <1>1

\* What is known of the ids.
LEMMA IdsKnown ==
    /\ Existing \subseteq Ids
    /\ \A s \in Sends : Fresh[s] \in Ids /\ Fresh[s] # None /\ Fresh[s] \notin Existing
    /\ \A s, t \in Sends : Fresh[s] = Fresh[t] => s = t
    /\ None \notin Ids
BY ClientAssumption DEF Ids

\* A call of the tab that ends.
LEMMA EndSendTyped ==
    ASSUME ClientTypeOK, NEW s \in Sends, sending' = [sending EXCEPT ![s].step = "ended"]
    PROVE  /\ sending' \in [Sends -> [step : {"idle", "active", "ended"}, conv : Ids \cup {None}]]
           /\ sending'[s].step = "ended" /\ sending'[s].conv = sending[s].conv
           /\ \A t \in Sends : t # s => sending'[t] = sending[t]
<1> DEFINE Calls == [step : {"idle", "active", "ended"}, conv : Ids \cup {None}]
           b == [sending[s] EXCEPT !.step = "ended"]
<1>1. sending \in [Sends -> Calls] BY DEF ClientTypeOK
<1>2. sending[s] \in Calls BY <1>1
<1>3. b \in Calls /\ b.step = "ended" /\ b.conv = sending[s].conv BY <1>2
<1>4. sending' = [sending EXCEPT ![s] = b] OBVIOUS
<1> HIDE DEF b, Calls
<1>5. sending' \in [Sends -> Calls] BY <1>1, <1>3, <1>4
<1>6. sending'[s] = b /\ \A t \in Sends : t # s => sending'[t] = sending[t] BY <1>1, <1>4
<1> QED BY <1>3, <1>5, <1>6 DEF Calls

\* For each action: the types it keeps, what it changes, and what it leaves
\* alone.
LEMMA SendEffect ==
    ASSUME ClientTypeOK, NEW s \in Sends, Send(s)
    PROVE  /\ ClientTypeOK'
           /\ sending[s].step = "idle" /\ ~streaming /\ streaming' /\ ref' = s
           /\ sending'[s].step = "active" /\ sending'[s].conv = current
           /\ serving'[s] = "request"
           /\ \A t \in Sends : t # s => sending'[t] = sending[t] /\ serving'[t] = serving[t]
           /\ UNCHANGED <<current, loading, deleting, gone, where, wire, threads, log>>
<1> DEFINE Calls == [step : {"idle", "active", "ended"}, conv : Ids \cup {None}]
           b == [step |-> "active", conv |-> current]
<1>1. /\ sending[s].step = "idle" /\ ~streaming /\ streaming' = TRUE /\ ref' = s
      /\ sending' = [sending EXCEPT ![s] = b]
      /\ serving' = [serving EXCEPT ![s] = "request"]
      /\ shown' = shown \o <<Item(Question(s), "said", TRUE), Item(Answer(s), "empty", TRUE)>>
      /\ UNCHANGED <<current, loading, deleting, gone, where, wire, threads, log>>
      /\ disturbed' \in BOOLEAN
    BY DEF Send, server, ClientTypeOK
<1>2. b \in Calls /\ b.step = "active" /\ b.conv = current BY DEF ClientTypeOK
<1>3. sending \in [Sends -> Calls] BY DEF ClientTypeOK
<1> HIDE DEF b, Calls
<1>4. /\ sending' \in [Sends -> Calls] /\ sending'[s] = b
      /\ \A t \in Sends : t # s => sending'[t] = sending[t]
    BY <1>1, <1>2, <1>3
<1>5. /\ serving'[s] = "request" /\ \A t \in Sends : t # s => serving'[t] = serving[t]
      /\ serving' \in [Sends -> {"idle", "request", "question", "stream", "answer", "end", "over"}]
    BY <1>1 DEF ClientTypeOK
<1>6. shown' \in Seq(Shown)
    <2>1. Item(Question(s), "said", TRUE) \in Shown /\ Item(Answer(s), "empty", TRUE) \in Shown
        BY ItemsTyped
    <2>2. shown \in Seq(Shown) BY DEF ClientTypeOK
    <2> QED BY <1>1, <2>1, <2>2, TwoMore
<1>7. ClientTypeOK' BY <1>1, <1>4, <1>5, <1>6 DEF ClientTypeOK, Calls
<1> QED BY <1>1, <1>2, <1>4, <1>5, <1>7

-----------------------------------------------------------------------------
(* ChatClient: what the steps do *)

\* What a handler may write of a message.
Written == {"limited", "start", "token", "error", "end"}

\* What is left to read after an event.
LEMMA TailTyped ==
    ASSUME NEW w \in Seq(Written), w # <<>>
    PROVE  Head(w) \in Written /\ Tail(w) \in Seq(Written)
OBVIOUS

LEMMA ReceiveEffect ==
    ASSUME ClientTypeOK, NEW s \in Sends, Receive(s)
    PROVE  /\ ClientTypeOK'
           /\ Active(s) /\ wire[s] # <<>> /\ wire'[s] = Tail(wire[s])
           /\ \A t \in Sends : t # s => sending'[t] = sending[t] /\ wire'[t] = wire[t]
           /\ sending'[s].conv = sending[s].conv
           /\ \/ /\ Head(wire[s]) \in {"start", "token", "error"}
                 /\ UNCHANGED <<streaming, ref, sending>>
              \/ /\ Head(wire[s]) \in {"limited", "end"}
                 /\ streaming' = FALSE /\ ref' = None /\ sending'[s].step = "ended"
           /\ current' \in {current, where[s]}
           /\ Len(shown') = Len(shown)
           /\ \A i \in 1..Len(shown) : shown'[i].turn = shown[i].turn
           /\ UNCHANGED <<loading, deleting, gone, serving, where, threads, log>>
<1>1. /\ Active(s) /\ wire[s] # <<>>
      /\ wire' = [wire EXCEPT ![s] = Tail(wire[s])]
      /\ UNCHANGED <<loading, deleting, gone, serving, where, threads, log>>
    BY DEF Receive, server
<1>2. /\ wire' \in [Sends -> Seq(Written)] /\ wire'[s] = Tail(wire[s])
      /\ \A t \in Sends : t # s => wire'[t] = wire[t]
    <2>1. wire \in [Sends -> Seq(Written)] BY DEF ClientTypeOK, Written
    <2>2. Tail(wire[s]) \in Seq(Written) BY <1>1, <2>1, TailTyped
    <2> HIDE DEF Written
    <2> QED BY <1>1, <2>1, <2>2
<1> DEFINE Calls == [Sends -> [step : {"idle", "active", "ended"}, conv : Ids \cup {None}]]
<1>3. /\ sending' \in Calls
      /\ sending'[s].conv = sending[s].conv
      /\ \A t \in Sends : t # s => sending'[t] = sending[t]
      /\ \/ /\ Head(wire[s]) \in {"start", "token", "error"}
            /\ UNCHANGED <<streaming, ref, sending>>
         \/ /\ Head(wire[s]) \in {"limited", "end"}
            /\ streaming' = FALSE /\ ref' = None /\ sending'[s].step = "ended"
    <2>1. CASE Head(wire[s]) \in {"start", "token", "error"} /\ UNCHANGED <<streaming, ref, sending>>
        <3>1. sending \in Calls BY DEF ClientTypeOK
        <3> QED BY <2>1, <3>1
    <2>2. CASE Head(wire[s]) \in {"limited", "end"} /\ EndSend(s)
        BY <2>2, EndSendTyped DEF EndSend
    <2> QED BY <2>1, <2>2 DEF Receive
<1>4. /\ shown' \in Seq(Shown) /\ Len(shown') = Len(shown)
      /\ \A i \in 1..Len(shown) : shown'[i].turn = shown[i].turn
    <2>1. CASE shown' = shown BY <2>1 DEF ClientTypeOK
    <2>2. ASSUME NEW text \in {"answer", "notice"}, SetText(s, text)
          PROVE  /\ shown' \in Seq(Shown) /\ Len(shown') = Len(shown)
                 /\ \A i \in 1..Len(shown) : shown'[i].turn = shown[i].turn
        BY <2>2, SetTextTyped
    <2> QED BY <2>1, <2>2 DEF Receive
<1>5. current' \in {current, where[s]} BY DEF Receive, Adopt
<1>6. current' \in Ids \cup {None} /\ disturbed' \in BOOLEAN
    BY <1>5 DEF Receive, ClientTypeOK
<1>7. streaming' \in BOOLEAN /\ ref' \in Sends \cup {None} BY <1>3 DEF ClientTypeOK
<1>8. ClientTypeOK' BY <1>1, <1>2, <1>3, <1>4, <1>6, <1>7 DEF ClientTypeOK, Written
<1> QED BY <1>1, <1>2, <1>3, <1>4, <1>5, <1>8

\* The connection of a message is closed: by the user or by itself.
Cut(s) ==
    /\ sending' = [sending EXCEPT ![s].step = "ended"]
    /\ streaming' = FALSE /\ ref' = None
    /\ gone' = gone \cup {s}
    /\ wire' = [wire EXCEPT ![s] = <<>>]
    /\ disturbed' = TRUE
    /\ UNCHANGED <<current, loading, deleting, serving, where, server>>
    /\ shown' = shown \/ SetText(s, "notice")

LEMMA CutEffect ==
    ASSUME ClientTypeOK, NEW s \in Sends, Cut(s)
    PROVE  /\ ClientTypeOK'
           /\ sending'[s].step = "ended" /\ wire'[s] = <<>> /\ gone' = gone \cup {s}
           /\ \A t \in Sends : t # s => sending'[t] = sending[t] /\ wire'[t] = wire[t]
           /\ sending'[s].conv = sending[s].conv
           /\ streaming' = FALSE /\ ref' = None /\ disturbed' = TRUE
           /\ Len(shown') = Len(shown)
           /\ \A i \in 1..Len(shown) : shown'[i].turn = shown[i].turn
           /\ UNCHANGED <<current, loading, deleting, serving, where, threads, log>>
<1>1. /\ gone' = gone \cup {s} /\ wire' = [wire EXCEPT ![s] = <<>>]
      /\ streaming' = FALSE /\ ref' = None /\ disturbed' = TRUE
      /\ UNCHANGED <<current, loading, deleting, serving, where, threads, log>>
    BY DEF Cut, server
<1>2. /\ wire' \in [Sends -> Seq(Written)] /\ wire'[s] = <<>>
      /\ \A t \in Sends : t # s => wire'[t] = wire[t]
    <2>1. wire \in [Sends -> Seq(Written)] BY DEF ClientTypeOK, Written
    <2>2. <<>> \in Seq(Written) OBVIOUS
    <2> HIDE DEF Written
    <2> QED BY <1>1, <2>1, <2>2
<1>3. /\ sending' \in [Sends -> [step : {"idle", "active", "ended"}, conv : Ids \cup {None}]]
      /\ sending'[s].step = "ended" /\ sending'[s].conv = sending[s].conv
      /\ \A t \in Sends : t # s => sending'[t] = sending[t]
    BY EndSendTyped DEF Cut
<1>4. /\ shown' \in Seq(Shown) /\ Len(shown') = Len(shown)
      /\ \A i \in 1..Len(shown) : shown'[i].turn = shown[i].turn
    BY SetTextTyped DEF Cut, ClientTypeOK
<1>5. ClientTypeOK' BY <1>1, <1>2, <1>3, <1>4 DEF ClientTypeOK, Written
<1> QED BY <1>1, <1>2, <1>3, <1>4, <1>5

\* An event is written, or lost with the connection.
LEMMA WriteToTyped ==
    ASSUME ClientTypeOK, NEW s \in Sends, NEW event \in Written, WriteTo(s, event)
    PROVE  /\ wire' \in [Sends -> Seq(Written)]
           /\ \A t \in Sends : t # s => wire'[t] = wire[t]
           /\ s \in gone => wire'[s] = wire[s]
           /\ s \notin gone => wire'[s] = Append(wire[s], event)
<1>1. wire \in [Sends -> Seq(Written)] BY DEF ClientTypeOK, Written
<1>2. Append(wire[s], event) \in Seq(Written) BY <1>1
<1>3. wire' = IF s \in gone THEN wire ELSE [wire EXCEPT ![s] = Append(wire[s], event)]
    BY DEF WriteTo
<1> HIDE DEF Written
<1> QED BY <1>1, <1>2, <1>3

\* A step of the handler.
ServeStep(s, from, to) ==
    /\ serving[s] = from /\ serving' = [serving EXCEPT ![s] = to]
    /\ TabOnly

LEMMA ServeStepEffect ==
    ASSUME ClientTypeOK, NEW s \in Sends, NEW from,
           NEW to \in {"idle", "request", "question", "stream", "answer", "end", "over"},
           ServeStep(s, from, to)
    PROVE  /\ serving[s] = from /\ serving'[s] = to
           /\ \A t \in Sends : t # s => serving'[t] = serving[t]
           /\ serving' \in [Sends -> {"idle", "request", "question", "stream", "answer", "end", "over"}]
           /\ UNCHANGED <<current, shown, streaming, ref, sending, loading, deleting, gone, disturbed>>
BY DEF ServeStep, ClientTypeOK, TabOnly, hook

\* A turn is saved at the end of its conversation.
LEMMA SaveTyped ==
    ASSUME ClientTypeOK, NEW s \in Sends, where[s] \in Ids, NEW t \in Turn, Save(s, t)
    PROVE  /\ log' \in [Ids -> Seq(Turn)]
           /\ log'[where[s]] = Append(log[where[s]], t)
           /\ \A c \in Ids : c # where[s] => log'[c] = log[c]
<1>1. log \in [Ids -> Seq(Turn)] BY DEF ClientTypeOK
<1>2. Append(log[where[s]], t) \in Seq(Turn) BY <1>1
<1> HIDE DEF Turn
<1> QED BY <1>1, <1>2 DEF Save

\* Short lists of events.
LEMMA Appends ==
    ASSUME NEW x \in Written, NEW y \in Written, NEW z \in Written
    PROVE  /\ Append(<<>>, x) = <<x>>
           /\ Append(<<x>>, y) = <<x, y>>
           /\ Append(<<x, y>>, z) = <<x, y, z>>
<1> DEFINE t == Append(<<x>>, y)
           u == Append(<<x, y>>, z)
<1>1. t \in Seq(Written) /\ Len(t) = 2 /\ t[1] = x /\ t[2] = y OBVIOUS
<1>2. u \in Seq(Written) /\ Len(u) = 3 /\ u[1] = x /\ u[2] = y /\ u[3] = z OBVIOUS
<1> HIDE DEF t, u, Written
<1>3. t = <<x, y>> BY <1>1
<1>4. u = <<x, y, z>> BY <1>2
<1>5. Append(<<>>, x) = <<x>> OBVIOUS
<1> QED BY <1>3, <1>4, <1>5 DEF t, u

\* What is unread after an event more.
LEMMA Writes ==
    /\ Append(<<>>, "limited") = <<"limited">>
    /\ Append(<<>>, "start") = <<"start">>
    /\ Append(<<>>, "token") = <<"token">>
    /\ Append(<<>>, "error") = <<"error">>
    /\ Append(<<>>, "end") = <<"end">>
    /\ Append(<<"start">>, "token") = <<"start", "token">>
    /\ Append(<<"start">>, "error") = <<"start", "error">>
    /\ Append(<<"token">>, "end") = <<"token", "end">>
    /\ Append(<<"error">>, "end") = <<"error", "end">>
    /\ Append(<<"start", "token">>, "end") = <<"start", "token", "end">>
    /\ Append(<<"start", "error">>, "end") = <<"start", "error", "end">>
BY Appends DEF Written

\* What is unread, and what remains of it after a read.
LEMMA Tails ==
    /\ Head(<<"limited">>) = "limited" /\ Tail(<<"limited">>) = <<>>
    /\ Head(<<"start">>) = "start" /\ Tail(<<"start">>) = <<>>
    /\ Head(<<"token">>) = "token" /\ Tail(<<"token">>) = <<>>
    /\ Head(<<"error">>) = "error" /\ Tail(<<"error">>) = <<>>
    /\ Head(<<"end">>) = "end" /\ Tail(<<"end">>) = <<>>
    /\ Head(<<"start", "token">>) = "start" /\ Tail(<<"start", "token">>) = <<"token">>
    /\ Head(<<"start", "error">>) = "start" /\ Tail(<<"start", "error">>) = <<"error">>
    /\ Head(<<"token", "end">>) = "token" /\ Tail(<<"token", "end">>) = <<"end">>
    /\ Head(<<"error", "end">>) = "error" /\ Tail(<<"error", "end">>) = <<"end">>
    /\ Head(<<"start", "token", "end">>) = "start" /\ Tail(<<"start", "token", "end">>) = <<"token", "end">>
    /\ Head(<<"start", "error", "end">>) = "start" /\ Tail(<<"start", "error", "end">>) = <<"error", "end">>
OBVIOUS

-----------------------------------------------------------------------------
(* ChatClient: the messages on both sides *)

\* A message that a step leaves alone still fits.
LEMMA CallUntouched ==
    ASSUME NEW s \in Sends, CallFits(s), sending'[s] = sending[s], serving'[s] = serving[s],
           where'[s] = where[s], wire'[s] = wire[s], s \in gone' <=> s \in gone
    PROVE  CallFits(s)'
BY DEF CallFits, UnreadFits, Busy, Resolved, Active

\* A conversation stays unknown until it is made.
LEMMA UnknownUntouched ==
    ASSUME NEW c \in Ids, Unknown(c), current' # c,
           \A s \in Sends : sending'[s].conv # c /\ where'[s] # c,
           \A l \in Loads : loading'[l].conv # c,
           \A d \in Deletes : deleting'[d].conv # c,
           log'[c] = log[c]
    PROVE  Unknown(c)'
BY DEF Unknown

\* What leaves the messages and their handlers alone.
LEMMA CallsKept ==
    ASSUME CallsInv, ClientTypeOK',
           UNCHANGED <<sending, streaming, ref, gone, serving, where, wire>>,
           \A s \in Sends : ~Resolved(s) => Unknown(Fresh[s])'
    PROVE  CallsInv'
<1>1. StreamIsInReach' /\ (ref # None => streaming)'
    BY DEF CallsInv, StreamIsInReach, Active
<1>2. \A s \in Sends : CallFits(s)' BY CallUntouched DEF CallsInv
<1>3. \A s \in Sends : Resolved(s)' <=> Resolved(s) BY DEF Resolved
<1> QED BY <1>1, <1>2, <1>3 DEF CallsInv

\* CallsInv is kept by each action: first those of the tab.
LEMMA CallsAfterSend ==
    ASSUME CallsInv, NEW s \in Sends, Send(s)
    PROVE  CallsInv'
<1>1. /\ ClientTypeOK'
      /\ sending[s].step = "idle" /\ ~streaming /\ streaming' /\ ref' = s
      /\ sending'[s].step = "active" /\ sending'[s].conv = current
      /\ serving'[s] = "request"
      /\ \A t \in Sends : t # s => sending'[t] = sending[t] /\ serving'[t] = serving[t]
      /\ UNCHANGED <<current, loading, deleting, gone, where, wire, threads, log>>
    BY SendEffect DEF CallsInv
<1>2. \A t \in Sends : ~Active(t) BY <1>1 DEF CallsInv, StreamIsInReach
<1>3. StreamIsInReach' BY <1>1, <1>2 DEF StreamIsInReach, Active
<1>4. CallFits(s)'
    <2>1. CallFits(s) BY DEF CallsInv
    <2>2. serving[s] = "idle" /\ s \notin gone /\ wire[s] = <<>>
        BY <1>1, <2>1 DEF CallFits, UnreadFits
    <2> QED BY <1>1, <2>2 DEF CallFits, UnreadFits, Resolved, Active
<1>5. ASSUME NEW t \in Sends, t # s PROVE CallFits(t)'
    BY <1>1, <1>5, CallUntouched DEF CallsInv
<1>6. ASSUME NEW t \in Sends, ~Resolved(t)' PROVE Unknown(Fresh[t])'
    <2>1. ~Resolved(t)
        <3>1. CallFits(s) BY DEF CallsInv
        <3> QED BY <1>1, <1>6, <3>1 DEF Resolved, CallFits
    <2>2. Unknown(Fresh[t]) /\ Fresh[t] \in Ids BY <2>1, IdsKnown DEF CallsInv
    <2> QED BY <1>1, <2>2, UnknownUntouched DEF Unknown
<1> QED BY <1>1, <1>3, <1>4, <1>5, <1>6 DEF CallsInv

\* One message at a time is awaited.
LEMMA OneActive ==
    ASSUME CallsInv, NEW s \in Sends, Active(s)
    PROVE  streaming /\ ref = s /\ \A t \in Sends : Active(t) => t = s
BY DEF CallsInv, StreamIsInReach

LEMMA CallsAfterReceive ==
    ASSUME CallsInv, NEW s \in Sends, Receive(s)
    PROVE  CallsInv'
<1>1. /\ ClientTypeOK'
      /\ Active(s) /\ wire[s] # <<>> /\ wire'[s] = Tail(wire[s])
      /\ \A t \in Sends : t # s => sending'[t] = sending[t] /\ wire'[t] = wire[t]
      /\ sending'[s].conv = sending[s].conv
      /\ \/ /\ Head(wire[s]) \in {"start", "token", "error"}
            /\ UNCHANGED <<streaming, ref, sending>>
         \/ /\ Head(wire[s]) \in {"limited", "end"}
            /\ streaming' = FALSE /\ ref' = None /\ sending'[s].step = "ended"
      /\ current' \in {current, where[s]}
      /\ UNCHANGED <<loading, deleting, gone, serving, where, threads, log>>
    BY ReceiveEffect DEF CallsInv
<1>2. CallFits(s) /\ s \notin gone BY <1>1 DEF CallsInv, CallFits, Active
<1>3. /\ streaming /\ ref = s /\ \A t \in Sends : Active(t) => t = s
    BY <1>1, OneActive
<1>4. StreamIsInReach' /\ (ref # None => streaming)'
    BY <1>1, <1>3 DEF StreamIsInReach, Active
<1>5. UnreadFits(s)' /\ (Head(wire[s]) \in {"limited", "end"} => serving[s] = "over")
      /\ serving[s] # "idle"
    <2>1. UnreadFits(s) BY <1>2 DEF CallFits
    <2>2. serving[s] \in {"idle", "request", "question", "stream", "answer", "end", "over"}
        BY DEF ClientTypeOK, CallsInv
    <2>3. serving[s] \notin {"idle", "request", "question"} BY <1>1, <2>1 DEF UnreadFits
    <2>4. serving'[s] = serving[s] /\ wire[s] # <<>> /\ wire'[s] = Tail(wire[s]) BY <1>1
    <2>5. CASE serving[s] = "stream"
        BY <2>1, <2>4, <2>5, Tails DEF UnreadFits
    <2>6. CASE serving[s] = "answer"
        BY <2>1, <2>4, <2>6, Tails DEF UnreadFits
    <2>7. CASE serving[s] = "end"
        BY <2>1, <2>4, <2>7, Tails DEF UnreadFits
    <2>8. CASE serving[s] = "over"
        BY <2>1, <2>4, <2>8, Tails DEF UnreadFits
    <2> QED BY <2>2, <2>3, <2>5, <2>6, <2>7, <2>8
<1>6. CallFits(s)'
    BY <1>1, <1>2, <1>5 DEF CallFits, Busy, Resolved, Active
<1>7. ASSUME NEW t \in Sends, t # s PROVE CallFits(t)'
    BY <1>1, <1>7, CallUntouched DEF CallsInv
<1>8. ASSUME NEW t \in Sends, ~Resolved(t)' PROVE Unknown(Fresh[t])'
    <2>1. Unknown(Fresh[t]) /\ Fresh[t] \in Ids
        BY <1>1, <1>8, IdsKnown DEF CallsInv, Resolved
    <2>2. current' # Fresh[t] BY <1>1, <2>1 DEF Unknown
    <2>3. \A q \in Sends : sending'[q].conv = sending[q].conv BY <1>1
    <2> QED BY <1>1, <2>1, <2>2, <2>3, UnknownUntouched DEF Unknown
<1> QED BY <1>1, <1>4, <1>6, <1>7, <1>8 DEF CallsInv

LEMMA CallsAfterCut ==
    ASSUME CallsInv, NEW s \in Sends, Active(s), Cut(s)
    PROVE  CallsInv'
<1>1. /\ ClientTypeOK'
      /\ sending'[s].step = "ended" /\ wire'[s] = <<>> /\ gone' = gone \cup {s}
      /\ \A t \in Sends : t # s => sending'[t] = sending[t] /\ wire'[t] = wire[t]
      /\ sending'[s].conv = sending[s].conv
      /\ streaming' = FALSE /\ ref' = None
      /\ UNCHANGED <<current, loading, deleting, serving, where, threads, log>>
    BY CutEffect DEF CallsInv
<1>2. \A t \in Sends : Active(t) => t = s BY OneActive
<1>3. StreamIsInReach' BY <1>1, <1>2 DEF StreamIsInReach, Active
<1>4. CallFits(s) BY DEF CallsInv
<1>5. CallFits(s)'
    BY <1>1, <1>4 DEF CallFits, UnreadFits, Busy, Resolved, Active
<1>6. ASSUME NEW t \in Sends, t # s PROVE CallFits(t)'
    BY <1>1, <1>6, CallUntouched DEF CallsInv
<1>7. ASSUME NEW t \in Sends, ~Resolved(t)' PROVE Unknown(Fresh[t])'
    <2>1. Unknown(Fresh[t]) /\ Fresh[t] \in Ids
        BY <1>1, <1>7, IdsKnown DEF CallsInv, Resolved
    <2>2. \A q \in Sends : sending'[q].conv = sending[q].conv BY <1>1
    <2> QED BY <1>1, <2>1, <2>2, UnknownUntouched DEF Unknown
<1> QED BY <1>1, <1>3, <1>5, <1>6, <1>7 DEF CallsInv

\* A lost connection and the stop button do the same to the call.
LEMMA BreakCuts ==
    ASSUME NEW s \in Sends, Break(s)
    PROVE  Active(s) /\ Cut(s)
BY DEF Break, Cut, EndSend

LEMMA StopCuts ==
    ASSUME CallsInv, Stop
    PROVE  ref \in Sends /\ Active(ref) /\ Cut(ref)
<1>1. ref # None /\ streaming BY DEF Stop, CallsInv
<1>2. ref \in Sends /\ Active(ref) BY <1>1 DEF CallsInv, StreamIsInReach
<1> QED BY <1>2 DEF Stop, Cut

\* A step of the handler, seen from the messages.
LEMMA CallsAfterServeStep ==
    ASSUME CallsInv, NEW s \in Sends, NEW from, NEW to, ClientTypeOK',
           ServeStep(s, from, to), from # "idle", from # "over", to \notin {"idle", "request"},
           \A t \in Sends : t # s => where'[t] = where[t] /\ wire'[t] = wire[t],
           s \in gone => wire'[s] = <<>>,
           s \notin gone => UnreadFits(s)',
           where'[s] = IF sending[s].conv = None THEN Fresh[s] ELSE sending[s].conv,
           \A t \in Sends : t # s /\ ~Resolved(t) => log'[Fresh[t]] = log[Fresh[t]]
    PROVE  CallsInv'
<1>1. /\ serving[s] = from /\ serving'[s] = to
      /\ \A t \in Sends : t # s => serving'[t] = serving[t]
      /\ UNCHANGED <<current, shown, streaming, ref, sending, loading, deleting, gone, disturbed>>
    BY DEF ServeStep, TabOnly, hook, CallsInv, ClientTypeOK
<1>2. StreamIsInReach' /\ (ref # None => streaming)'
    BY <1>1 DEF CallsInv, StreamIsInReach, Active
<1>3. CallFits(s)'
    <2>1. CallFits(s) BY DEF CallsInv
    <2>2. UnreadFits(s)' BY <1>1 DEF UnreadFits, CallsInv, ClientTypeOK
    <2>3. serving[s] # "idle" /\ Busy(s) BY <1>1 DEF Busy
    <2> QED BY <1>1, <2>1, <2>2, <2>3 DEF CallFits, Busy, Resolved, Active
<1>4. ASSUME NEW t \in Sends, t # s PROVE CallFits(t)'
    BY <1>1, <1>4, CallUntouched DEF CallsInv
<1>5. ASSUME NEW t \in Sends, ~Resolved(t)' PROVE Unknown(Fresh[t])'
    <2>1. t # s /\ ~Resolved(t) BY <1>1, <1>5 DEF Resolved
    <2>2. Unknown(Fresh[t]) /\ Fresh[t] \in Ids BY <2>1, IdsKnown DEF CallsInv
    <2>3. where'[s] # Fresh[t]
        <3>1. Fresh[s] # Fresh[t] BY <2>1, IdsKnown
        <3>2. sending[s].conv # Fresh[t] BY <2>2 DEF Unknown
        <3> QED BY <3>1, <3>2
    <2>4. \A q \in Sends : sending'[q].conv # Fresh[t] /\ where'[q] # Fresh[t]
        BY <1>1, <2>2, <2>3 DEF Unknown
    <2> QED BY <1>1, <2>1, <2>2, <2>4, UnknownUntouched DEF Unknown
<1> QED BY <1>1, <1>2, <1>3, <1>4, <1>5 DEF CallsInv

\* Where the turns of a message go, once that is known.
LEMMA ResolvedKnows ==
    ASSUME CallsInv, NEW s \in Sends, Resolved(s)
    PROVE  /\ where[s] \in Ids
           /\ where[s] = IF sending[s].conv = None THEN Fresh[s] ELSE sending[s].conv
           /\ \A t \in Sends : ~Resolved(t) => where[s] # Fresh[t]
<1>1. CallFits(s) BY DEF CallsInv
<1>2. sending[s].conv \in Ids \cup {None} BY DEF CallsInv, ClientTypeOK
<1>3. \A t \in Sends : ~Resolved(t) => where[s] # Fresh[t] BY DEF CallsInv, Unknown
<1> QED BY <1>1, <1>2, <1>3, IdsKnown DEF CallFits

LEMMA ResolveEffect ==
    ASSUME CallsInv, NEW s \in Sends, Resolve(s)
    PROVE  /\ ClientTypeOK'
           /\ where'[s] = IF sending[s].conv = None THEN Fresh[s] ELSE sending[s].conv
           /\ \A t \in Sends : t # s => where'[t] = where[t] /\ wire'[t] = wire[t]
           /\ threads' \subseteq threads \cup {Fresh[s]}
           /\ sending[s].conv # None => threads' = threads
           /\ \/ ServeStep(s, "request", "question") /\ wire'[s] = wire[s]
              \/ /\ ServeStep(s, "request", "over")
                 /\ s \in gone => wire'[s] = wire[s]
                 /\ s \notin gone => wire'[s] = Append(wire[s], "limited")
           /\ log' = log
<1> DEFINE conv == IF sending[s].conv = None THEN Fresh[s] ELSE sending[s].conv
<1>1. /\ serving[s] = "request" /\ log' = log /\ TabOnly
      /\ where' = [where EXCEPT ![s] = conv]
      /\ threads' = IF sending[s].conv = None THEN threads \cup {conv} ELSE threads
      /\ \/ serving' = [serving EXCEPT ![s] = "question"] /\ UNCHANGED wire
         \/ serving' = [serving EXCEPT ![s] = "over"] /\ WriteTo(s, "limited")
    BY DEF Resolve, ServeTo
<1>2. conv \in Ids BY IdsKnown DEF CallsInv, ClientTypeOK
<1>3. /\ where' \in [Sends -> Ids \cup {None}] /\ where'[s] = conv
      /\ \A t \in Sends : t # s => where'[t] = where[t]
    BY <1>1, <1>2 DEF CallsInv, ClientTypeOK
<1>4. threads' \subseteq Ids /\ threads' \subseteq threads \cup {Fresh[s]}
      /\ (sending[s].conv # None => threads' = threads)
    BY <1>1, <1>2 DEF CallsInv, ClientTypeOK
<1>5. /\ wire' \in [Sends -> Seq(Written)]
      /\ \A t \in Sends : t # s => wire'[t] = wire[t]
      /\ \/ ServeStep(s, "request", "question") /\ wire'[s] = wire[s]
         \/ /\ ServeStep(s, "request", "over")
            /\ s \in gone => wire'[s] = wire[s]
            /\ s \notin gone => wire'[s] = Append(wire[s], "limited")
    <2>1. CASE serving' = [serving EXCEPT ![s] = "question"] /\ UNCHANGED wire
        BY <1>1, <2>1 DEF ServeStep, CallsInv, ClientTypeOK, Written
    <2>2. CASE serving' = [serving EXCEPT ![s] = "over"] /\ WriteTo(s, "limited")
        <3>1. "limited" \in Written BY DEF Written
        <3>2. ServeStep(s, "request", "over") BY <1>1, <2>2 DEF ServeStep
        <3> HIDE DEF Written
        <3> QED BY <2>2, <3>1, <3>2, WriteToTyped DEF CallsInv
    <2> QED BY <1>1, <2>1, <2>2
<1>6. /\ serving' \in [Sends -> {"idle", "request", "question", "stream", "answer", "end", "over"}]
      /\ UNCHANGED <<current, shown, streaming, ref, sending, loading, deleting, gone, disturbed>>
    BY <1>1 DEF TabOnly, hook, CallsInv, ClientTypeOK
<1>7. ClientTypeOK' BY <1>1, <1>3, <1>4, <1>5, <1>6 DEF CallsInv, ClientTypeOK, Written
<1> QED BY <1>1, <1>3, <1>4, <1>5, <1>7

LEMMA SaveQuestionEffect ==
    ASSUME CallsInv, NEW s \in Sends, SaveQuestion(s)
    PROVE  /\ ClientTypeOK' /\ where[s] \in Ids
           /\ ServeStep(s, "question", "stream")
           /\ log'[where[s]] = Append(log[where[s]], Question(s))
           /\ \A c \in Ids : c # where[s] => log'[c] = log[c]
           /\ \A t \in Sends : t # s => wire'[t] = wire[t]
           /\ s \in gone => wire'[s] = wire[s]
           /\ s \notin gone => wire'[s] = Append(wire[s], "start")
           /\ UNCHANGED <<where, threads>>
<1>1. /\ ServeStep(s, "question", "stream") /\ Save(s, Question(s)) /\ WriteTo(s, "start")
      /\ UNCHANGED <<where, threads>>
    BY DEF SaveQuestion, ServeStep, ServeTo
<1>2. where[s] \in Ids BY <1>1, ResolvedKnows DEF ServeStep, Resolved
<1>3. Question(s) \in Turn /\ "start" \in Written BY ItemsTyped DEF Written
<1>4. /\ log' \in [Ids -> Seq(Turn)]
      /\ log'[where[s]] = Append(log[where[s]], Question(s))
      /\ \A c \in Ids : c # where[s] => log'[c] = log[c]
    BY <1>1, <1>2, <1>3, SaveTyped DEF CallsInv
<1>5. /\ wire' \in [Sends -> Seq(Written)]
      /\ \A t \in Sends : t # s => wire'[t] = wire[t]
      /\ s \in gone => wire'[s] = wire[s]
      /\ s \notin gone => wire'[s] = Append(wire[s], "start")
    BY <1>1, <1>3, WriteToTyped DEF CallsInv
<1>6. ClientTypeOK'
    BY <1>1, <1>4, <1>5, ServeStepEffect DEF CallsInv, ClientTypeOK, Written
<1> QED BY <1>1, <1>2, <1>4, <1>5, <1>6

LEMMA StreamEffect ==
    ASSUME CallsInv, NEW s \in Sends, Stream(s)
    PROVE  /\ ClientTypeOK' /\ where[s] \in Ids
           /\ \A t \in Sends : t # s => wire'[t] = wire[t]
           /\ s \in gone => wire'[s] = wire[s]
           /\ \/ /\ ServeStep(s, "stream", "answer")
                 /\ s \notin gone => wire'[s] = Append(wire[s], "token")
              \/ /\ ServeStep(s, "stream", "end")
                 /\ s \notin gone => wire'[s] = Append(wire[s], "error")
           /\ UNCHANGED <<where, threads, log>>
<1>1. /\ serving[s] = "stream" /\ TabOnly /\ UNCHANGED <<where, threads, log>>
      /\ \/ WriteTo(s, "token") /\ ServeStep(s, "stream", "answer")
         \/ s \notin gone /\ WriteTo(s, "error") /\ ServeStep(s, "stream", "end")
         \/ s \in gone /\ UNCHANGED wire /\ ServeStep(s, "stream", "end")
    BY DEF Stream, ServeStep, ServeTo, server
<1>2. where[s] \in Ids BY <1>1, ResolvedKnows DEF Resolved
<1>3. /\ wire' \in [Sends -> Seq(Written)]
      /\ \A t \in Sends : t # s => wire'[t] = wire[t]
      /\ s \in gone => wire'[s] = wire[s]
      /\ \/ /\ ServeStep(s, "stream", "answer")
            /\ s \notin gone => wire'[s] = Append(wire[s], "token")
         \/ /\ ServeStep(s, "stream", "end")
            /\ s \notin gone => wire'[s] = Append(wire[s], "error")
    <2>1. CASE s \in gone /\ UNCHANGED wire /\ ServeStep(s, "stream", "end")
        BY <2>1 DEF CallsInv, ClientTypeOK, Written
    <2>2. "token" \in Written /\ "error" \in Written BY DEF Written
    <2>3. ClientTypeOK BY DEF CallsInv
    <2>4. CASE WriteTo(s, "token") /\ ServeStep(s, "stream", "answer")
        BY <2>2, <2>3, <2>4, WriteToTyped
    <2>5. CASE s \notin gone /\ WriteTo(s, "error") /\ ServeStep(s, "stream", "end")
        BY <2>2, <2>3, <2>5, WriteToTyped
    <2> QED BY <1>1, <2>1, <2>4, <2>5
<1>4. ClientTypeOK'
    BY <1>1, <1>3, ServeStepEffect DEF CallsInv, ClientTypeOK, Written
<1> QED BY <1>1, <1>2, <1>3, <1>4

LEMMA StoreAnswerEffect ==
    ASSUME CallsInv, NEW s \in Sends, StoreAnswer(s)
    PROVE  /\ ClientTypeOK' /\ where[s] \in Ids
           /\ ServeStep(s, "answer", "end")
           /\ log'[where[s]] = Append(log[where[s]], Answer(s))
           /\ \A c \in Ids : c # where[s] => log'[c] = log[c]
           /\ UNCHANGED <<where, wire, threads>>
<1>1. /\ ServeStep(s, "answer", "end") /\ Save(s, Answer(s)) /\ UNCHANGED <<where, wire, threads>>
    BY DEF StoreAnswer, ServeStep, ServeTo
<1>2. where[s] \in Ids BY <1>1, ResolvedKnows DEF ServeStep, Resolved
<1>3. Answer(s) \in Turn BY ItemsTyped
<1>4. /\ log' \in [Ids -> Seq(Turn)]
      /\ log'[where[s]] = Append(log[where[s]], Answer(s))
      /\ \A c \in Ids : c # where[s] => log'[c] = log[c]
    BY <1>1, <1>2, <1>3, SaveTyped DEF CallsInv
<1>5. ClientTypeOK'
    BY <1>1, <1>4, ServeStepEffect DEF CallsInv, ClientTypeOK
<1> QED BY <1>1, <1>2, <1>4, <1>5

LEMMA EndEffect ==
    ASSUME CallsInv, NEW s \in Sends, End(s)
    PROVE  /\ ClientTypeOK'
           /\ ServeStep(s, "end", "over")
           /\ \A t \in Sends : t # s => wire'[t] = wire[t]
           /\ s \in gone => wire'[s] = wire[s]
           /\ s \notin gone => wire'[s] = Append(wire[s], "end")
           /\ UNCHANGED <<where, threads, log>>
<1>1. /\ ServeStep(s, "end", "over") /\ WriteTo(s, "end") /\ UNCHANGED <<where, threads, log>>
    BY DEF End, ServeStep, ServeTo, server
<1>2. "end" \in Written BY DEF Written
<1>3. /\ wire' \in [Sends -> Seq(Written)]
      /\ \A t \in Sends : t # s => wire'[t] = wire[t]
      /\ s \in gone => wire'[s] = wire[s]
      /\ s \notin gone => wire'[s] = Append(wire[s], "end")
    BY <1>1, <1>2, WriteToTyped DEF CallsInv
<1>4. ClientTypeOK'
    BY <1>1, <1>3, ServeStepEffect DEF CallsInv, ClientTypeOK, Written
<1> QED BY <1>1, <1>3, <1>4

\* CallsInv is kept by the steps of a handler.
LEMMA CallsAfterServe ==
    ASSUME CallsInv, NEW s \in Sends, Serve(s)
    PROVE  CallsInv'
<1>1. CallFits(s) /\ (s \in gone => wire[s] = <<>>) /\ UnreadFits(s)
    BY DEF CallsInv, CallFits
<1>2. CASE Resolve(s)
    <2>1. /\ ClientTypeOK'
          /\ where'[s] = IF sending[s].conv = None THEN Fresh[s] ELSE sending[s].conv
          /\ \A t \in Sends : t # s => where'[t] = where[t] /\ wire'[t] = wire[t]
          /\ \/ ServeStep(s, "request", "question") /\ wire'[s] = wire[s]
             \/ /\ ServeStep(s, "request", "over")
                /\ s \in gone => wire'[s] = wire[s]
                /\ s \notin gone => wire'[s] = Append(wire[s], "limited")
          /\ log' = log
        BY <1>2, ResolveEffect
    <2>2. CASE ServeStep(s, "request", "question") /\ wire'[s] = wire[s]
        <3>1. serving[s] = "request" /\ serving'[s] = "question"
            BY <2>2, ServeStepEffect DEF CallsInv
        <3>2. UnreadFits(s)' BY <1>1, <2>2, <3>1 DEF UnreadFits
        <3> QED BY <1>1, <2>1, <2>2, <3>2, CallsAfterServeStep
    <2>3. CASE /\ ServeStep(s, "request", "over")
               /\ s \in gone => wire'[s] = wire[s]
               /\ s \notin gone => wire'[s] = Append(wire[s], "limited")
        <3>1. serving[s] = "request" /\ serving'[s] = "over"
            BY <2>3, ServeStepEffect DEF CallsInv
        <3>2. s \notin gone => UnreadFits(s)' BY <1>1, <2>3, <3>1, Writes DEF UnreadFits
        <3> QED BY <1>1, <2>1, <2>3, <3>2, CallsAfterServeStep
    <2> QED BY <2>1, <2>2, <2>3
<1>3. CASE SaveQuestion(s)
    <2>1. /\ ClientTypeOK' /\ where[s] \in Ids /\ UNCHANGED where
          /\ ServeStep(s, "question", "stream")
          /\ \A c \in Ids : c # where[s] => log'[c] = log[c]
          /\ \A t \in Sends : t # s => wire'[t] = wire[t]
          /\ s \in gone => wire'[s] = wire[s]
          /\ s \notin gone => wire'[s] = Append(wire[s], "start")
        BY <1>3, SaveQuestionEffect
    <2>2. serving[s] = "question" /\ serving'[s] = "stream"
        BY <2>1, ServeStepEffect DEF CallsInv
    <2>3. s \notin gone => UnreadFits(s)' BY <1>1, <2>1, <2>2, Writes DEF UnreadFits
    <2>4. /\ where[s] = IF sending[s].conv = None THEN Fresh[s] ELSE sending[s].conv
          /\ \A t \in Sends : ~Resolved(t) => where[s] # Fresh[t]
        BY <2>2, ResolvedKnows DEF Resolved
    <2>5. \A t \in Sends : t # s /\ ~Resolved(t) => log'[Fresh[t]] = log[Fresh[t]]
        BY <2>1, <2>4, IdsKnown
    <2> QED BY <1>1, <2>1, <2>3, <2>4, <2>5, CallsAfterServeStep
<1>4. CASE Stream(s)
    <2>1. /\ ClientTypeOK'
          /\ \A t \in Sends : t # s => wire'[t] = wire[t]
          /\ s \in gone => wire'[s] = wire[s]
          /\ \/ /\ ServeStep(s, "stream", "answer")
                /\ s \notin gone => wire'[s] = Append(wire[s], "token")
             \/ /\ ServeStep(s, "stream", "end")
                /\ s \notin gone => wire'[s] = Append(wire[s], "error")
          /\ UNCHANGED <<where, log>>
        BY <1>4, StreamEffect
    <2>2. serving[s] = "stream" BY <2>1 DEF ServeStep
    <2>3. where[s] = IF sending[s].conv = None THEN Fresh[s] ELSE sending[s].conv
        BY <2>2, ResolvedKnows DEF Resolved
    <2>4. wire[s] \in {<<"start">>, <<>>} BY <1>1, <2>2 DEF UnreadFits
    <2>5. CASE /\ ServeStep(s, "stream", "answer")
               /\ s \notin gone => wire'[s] = Append(wire[s], "token")
        <3>1. serving'[s] = "answer" BY <2>5, ServeStepEffect DEF CallsInv
        <3>2. s \notin gone => wire'[s] \in {<<"start", "token">>, <<"token">>}
            BY <2>4, <2>5, Writes
        <3>3. s \notin gone => UnreadFits(s)' BY <3>1, <3>2 DEF UnreadFits
        <3> QED BY <1>1, <2>1, <2>3, <2>5, <3>3, CallsAfterServeStep
    <2>6. CASE /\ ServeStep(s, "stream", "end")
               /\ s \notin gone => wire'[s] = Append(wire[s], "error")
        <3>1. serving'[s] = "end" BY <2>6, ServeStepEffect DEF CallsInv
        <3>2. s \notin gone => wire'[s] \in {<<"start", "error">>, <<"error">>}
            BY <2>4, <2>6, Writes
        <3>3. s \notin gone => UnreadFits(s)' BY <3>1, <3>2 DEF UnreadFits
        <3> QED BY <1>1, <2>1, <2>3, <2>6, <3>3, CallsAfterServeStep
    <2> QED BY <2>1, <2>5, <2>6
<1>5. CASE StoreAnswer(s)
    <2>1. /\ ClientTypeOK' /\ where[s] \in Ids /\ UNCHANGED <<where, wire>>
          /\ ServeStep(s, "answer", "end")
          /\ \A c \in Ids : c # where[s] => log'[c] = log[c]
        BY <1>5, StoreAnswerEffect
    <2>2. serving[s] = "answer" /\ serving'[s] = "end"
        BY <2>1, ServeStepEffect DEF CallsInv
    <2>3. UnreadFits(s)' BY <1>1, <2>1, <2>2 DEF UnreadFits
    <2>4. /\ where[s] = IF sending[s].conv = None THEN Fresh[s] ELSE sending[s].conv
          /\ \A t \in Sends : ~Resolved(t) => where[s] # Fresh[t]
        BY <2>2, ResolvedKnows DEF Resolved
    <2>5. \A t \in Sends : t # s /\ ~Resolved(t) => log'[Fresh[t]] = log[Fresh[t]]
        BY <2>1, <2>4, IdsKnown
    <2> QED BY <1>1, <2>1, <2>3, <2>4, <2>5, CallsAfterServeStep
<1>6. CASE End(s)
    <2>1. /\ ClientTypeOK' /\ UNCHANGED <<where, log>>
          /\ ServeStep(s, "end", "over")
          /\ \A t \in Sends : t # s => wire'[t] = wire[t]
          /\ s \in gone => wire'[s] = wire[s]
          /\ s \notin gone => wire'[s] = Append(wire[s], "end")
        BY <1>6, EndEffect
    <2>2. serving[s] = "end" /\ serving'[s] = "over"
        BY <2>1, ServeStepEffect DEF CallsInv
    <2>3. wire[s] \in {<<"start", "token">>, <<"token">>, <<"start", "error">>, <<"error">>, <<>>}
        BY <1>1, <2>2 DEF UnreadFits
    <2>4. s \notin gone =>
              wire'[s] \in {<<"start", "token", "end">>, <<"token", "end">>,
                            <<"start", "error", "end">>, <<"error", "end">>, <<"end">>}
        BY <2>1, <2>3, Writes
    <2>5. s \notin gone => UnreadFits(s)' BY <2>2, <2>4 DEF UnreadFits
    <2>6. where[s] = IF sending[s].conv = None THEN Fresh[s] ELSE sending[s].conv
        BY <2>2, ResolvedKnows DEF Resolved
    <2> QED BY <1>1, <2>1, <2>5, <2>6, CallsAfterServeStep
<1> QED BY <1>2, <1>3, <1>4, <1>5, <1>6 DEF Serve

-----------------------------------------------------------------------------
(* ChatClient: picks, deletions and their answers *)

\* Only conversations that were made can be picked.
LEMMA KnownIds ==
    ASSUME CallsInv
    PROVE  /\ Known \subseteq Ids
           /\ \A s \in Sends : ~Resolved(s) => Fresh[s] \notin Known
<1>1. \A s \in Sends : where[s] \in Ids \cup {None} BY DEF CallsInv, ClientTypeOK
<1>2. \A s \in Sends : ~Resolved(s) => \A t \in Sends : where[t] # Fresh[s]
    BY DEF CallsInv, Unknown
<1> QED BY <1>1, <1>2, IdsKnown DEF Known

LoadCalls == [step : {"idle", "asked", "answered", "failed", "done"},
              conv : Ids \cup {None}, turns : Seq(Turn)]
DeleteCalls == [step : {"idle", "asked", "answered", "done"},
                conv : Ids \cup {None}, wasCurrent : BOOLEAN]

LEMMA SelectEffect ==
    ASSUME CallsInv, NEW l \in Loads, NEW c \in Known, Select(l, c)
    PROVE  /\ ClientTypeOK' /\ c \in Ids
           /\ loading[l].step = "idle" /\ current' = c
           /\ loading'[l].step = "asked" /\ loading'[l].conv = c /\ loading'[l].turns = <<>>
           /\ \A k \in Loads : k # l => loading'[k] = loading[k]
           /\ disturbed' = ~Calm(c)
           /\ UNCHANGED <<shown, streaming, ref, sending, deleting, gone, serving, where, wire,
                          threads, log>>
<1> DEFINE b == [step |-> "asked", conv |-> c, turns |-> <<>>]
<1>1. /\ loading[l].step = "idle" /\ current' = c
      /\ loading' = [loading EXCEPT ![l] = b]
      /\ disturbed' = ~Calm(c)
      /\ UNCHANGED <<shown, streaming, ref, sending, deleting, gone, serving, where, wire,
                     threads, log>>
    BY DEF Select, server
<1>2. c \in Ids BY KnownIds
<1>3. b \in LoadCalls /\ b.step = "asked" /\ b.conv = c /\ b.turns = <<>>
    BY <1>2 DEF LoadCalls
<1>4. loading \in [Loads -> LoadCalls] BY DEF CallsInv, ClientTypeOK, LoadCalls
<1> HIDE DEF b
<1>5. /\ loading' \in [Loads -> LoadCalls] /\ loading'[l] = b
      /\ \A k \in Loads : k # l => loading'[k] = loading[k]
    BY <1>1, <1>3, <1>4
<1>6. disturbed' \in BOOLEAN BY <1>1
<1>7. ClientTypeOK' BY <1>1, <1>2, <1>5, <1>6 DEF CallsInv, ClientTypeOK, LoadCalls
<1> QED BY <1>1, <1>2, <1>3, <1>5, <1>7

LEMMA NewChatEffect ==
    ASSUME CallsInv, NewChat
    PROVE  /\ ClientTypeOK'
           /\ current' = None /\ shown' = <<>> /\ disturbed' = ~Calm(None)
           /\ UNCHANGED <<streaming, ref, sending, loading, deleting, gone, serving, where, wire,
                          threads, log>>
BY DEF CallsInv, ClientTypeOK, NewChat, server

LEMMA AnswerLoadEffect ==
    ASSUME CallsInv, NEW l \in Loads, AnswerLoad(l)
    PROVE  /\ ClientTypeOK'
           /\ loading[l].step = "asked"
           /\ \/ /\ loading[l].conv \in threads /\ loading'[l].step = "answered"
                 /\ loading'[l].turns = log[loading[l].conv]
              \/ loading'[l].step = "failed" /\ loading'[l].turns = loading[l].turns
           /\ loading'[l].conv = loading[l].conv
           /\ \A k \in Loads : k # l => loading'[k] = loading[k]
           /\ UNCHANGED <<current, shown, streaming, ref, sending, deleting, gone, serving, where,
                          wire, threads, log, disturbed>>
<1> DEFINE a == [loading[l] EXCEPT !.step = "answered", !.turns = log[loading[l].conv]]
           b == [loading[l] EXCEPT !.step = "failed"]
<1>1. /\ loading[l].step = "asked"
      /\ \/ loading[l].conv \in threads /\ loading' = [loading EXCEPT ![l] = a]
         \/ loading' = [loading EXCEPT ![l] = b]
      /\ UNCHANGED <<current, shown, streaming, ref, sending, deleting, gone, serving, where,
                     wire, threads, log, disturbed>>
    BY DEF AnswerLoad, hook, server
<1>2. loading \in [Loads -> LoadCalls] /\ loading[l] \in LoadCalls
    BY DEF CallsInv, ClientTypeOK, LoadCalls
<1>3. loading[l].conv \in threads =>
          /\ a \in LoadCalls /\ a.step = "answered" /\ a.turns = log[loading[l].conv]
          /\ a.conv = loading[l].conv
    <2>1. loading[l].conv \in threads => log[loading[l].conv] \in Seq(Turn)
        BY DEF CallsInv, ClientTypeOK
    <2> HIDE DEF Turn
    <2> QED BY <1>2, <2>1 DEF LoadCalls
<1>4. b \in LoadCalls /\ b.step = "failed" /\ b.turns = loading[l].turns /\ b.conv = loading[l].conv
    BY <1>2 DEF LoadCalls
<1> HIDE DEF a, b
<1>5. /\ loading' \in [Loads -> LoadCalls]
      /\ \/ loading[l].conv \in threads /\ loading'[l] = a
         \/ loading'[l] = b
      /\ \A k \in Loads : k # l => loading'[k] = loading[k]
    BY <1>1, <1>2, <1>3, <1>4
<1>6. ClientTypeOK' BY <1>1, <1>5 DEF CallsInv, ClientTypeOK, LoadCalls
<1> QED BY <1>1, <1>3, <1>4, <1>5, <1>6

LEMMA LoadedEffect ==
    ASSUME CallsInv, NEW l \in Loads, Loaded(l)
    PROVE  /\ ClientTypeOK'
           /\ loading'[l].step = "done" /\ loading'[l].conv = None /\ loading'[l].turns = <<>>
           /\ \A k \in Loads : k # l => loading'[k] = loading[k]
           /\ \/ /\ loading[l].step = "answered" /\ disturbed' = disturbed
                 /\ shown' = Displayed(loading[l].turns)
              \/ loading[l].step = "failed" /\ disturbed' = TRUE /\ shown' = shown
           /\ UNCHANGED <<current, streaming, ref, sending, deleting, gone, serving, where,
                          wire, threads, log>>
<1> DEFINE b == [step |-> "done", conv |-> None, turns |-> <<>>]
<1>1. /\ loading' = [loading EXCEPT ![l] = b]
      /\ \/ /\ loading[l].step = "answered" /\ disturbed' = disturbed
            /\ shown' = Displayed(loading[l].turns)
         \/ loading[l].step = "failed" /\ disturbed' = TRUE /\ shown' = shown
      /\ UNCHANGED <<current, streaming, ref, sending, deleting, gone, serving, where,
                     wire, threads, log>>
    BY DEF Loaded, server
<1>2. loading \in [Loads -> LoadCalls] BY DEF CallsInv, ClientTypeOK, LoadCalls
<1>3. b \in LoadCalls /\ b.step = "done" /\ b.conv = None /\ b.turns = <<>> BY DEF LoadCalls
<1>4. shown' \in Seq(Shown)
    <2>1. loading[l].turns \in Seq(Turn) BY DEF CallsInv, ClientTypeOK
    <2> QED BY <1>1, <2>1, DisplayedTyped DEF CallsInv, ClientTypeOK
<1> HIDE DEF b
<1>5. /\ loading' \in [Loads -> LoadCalls] /\ loading'[l] = b
      /\ \A k \in Loads : k # l => loading'[k] = loading[k]
    BY <1>1, <1>2, <1>3
<1>6. ClientTypeOK' BY <1>1, <1>4, <1>5 DEF CallsInv, ClientTypeOK, LoadCalls
<1> QED BY <1>1, <1>3, <1>5, <1>6

\* The three steps of a deletion but its answer at the server.
LEMMA DeleteEffect ==
    ASSUME CallsInv, NEW d \in Deletes, NEW c \in Known, Delete(d, c)
    PROVE  /\ ClientTypeOK' /\ c \in Ids
           /\ deleting[d].step = "idle"
           /\ deleting'[d].step = "asked" /\ deleting'[d].conv = c
           /\ deleting'[d].wasCurrent = (current = c)
           /\ \A e \in Deletes : e # d => deleting'[e] = deleting[e]
           /\ disturbed' = (disturbed \/ (InUse(c) /\ ~Calm(c)))
           /\ UNCHANGED <<current, shown, streaming, ref, sending, loading, gone, serving, where,
                          wire, threads, log>>
<1> DEFINE b == [step |-> "asked", conv |-> c, wasCurrent |-> current = c]
<1>1. /\ deleting[d].step = "idle"
      /\ deleting' = [deleting EXCEPT ![d] = b]
      /\ disturbed' = (disturbed \/ (InUse(c) /\ ~Calm(c)))
      /\ UNCHANGED <<current, shown, streaming, ref, sending, loading, gone, serving, where,
                     wire, threads, log>>
    BY DEF Delete, hook, server
<1>2. c \in Ids BY KnownIds
<1>3. b \in DeleteCalls /\ b.step = "asked" /\ b.conv = c /\ b.wasCurrent = (current = c)
    BY <1>2 DEF DeleteCalls
<1>4. deleting \in [Deletes -> DeleteCalls] BY DEF CallsInv, ClientTypeOK, DeleteCalls
<1> HIDE DEF b
<1>5. /\ deleting' \in [Deletes -> DeleteCalls] /\ deleting'[d] = b
      /\ \A e \in Deletes : e # d => deleting'[e] = deleting[e]
    BY <1>1, <1>3, <1>4
<1>6. disturbed' \in BOOLEAN BY <1>1
<1>7. ClientTypeOK' BY <1>1, <1>5, <1>6 DEF CallsInv, ClientTypeOK, DeleteCalls
<1> QED BY <1>1, <1>2, <1>3, <1>5, <1>7

\* A deletion is over; what is current and shown is not said.
DeletionOver(d) ==
    /\ deleting'[d].step = "done" /\ deleting'[d].conv = None
    /\ \A e \in Deletes : e # d => deleting'[e] = deleting[e]
    /\ UNCHANGED <<streaming, ref, sending, loading, gone, serving, where, wire, threads, log>>

LEMMA DeletionOverTyped ==
    ASSUME CallsInv, NEW d \in Deletes,
           deleting' = [deleting EXCEPT ![d] = [step |-> "done", conv |-> None, wasCurrent |-> FALSE]]
    PROVE  /\ deleting' \in [Deletes -> DeleteCalls]
           /\ deleting'[d].step = "done" /\ deleting'[d].conv = None
           /\ \A e \in Deletes : e # d => deleting'[e] = deleting[e]
<1> DEFINE b == [step |-> "done", conv |-> None, wasCurrent |-> FALSE]
<1>1. deleting \in [Deletes -> DeleteCalls] BY DEF CallsInv, ClientTypeOK, DeleteCalls
<1>2. b \in DeleteCalls /\ b.step = "done" /\ b.conv = None BY DEF DeleteCalls
<1>3. deleting' = [deleting EXCEPT ![d] = b] OBVIOUS
<1> HIDE DEF b
<1>4. /\ deleting' \in [Deletes -> DeleteCalls] /\ deleting'[d] = b
      /\ \A e \in Deletes : e # d => deleting'[e] = deleting[e]
    BY <1>1, <1>2, <1>3
<1> QED BY <1>2, <1>4

LEMMA DeletedEffect ==
    ASSUME CallsInv, NEW d \in Deletes, Deleted(d)
    PROVE  /\ ClientTypeOK' /\ DeletionOver(d)
           /\ deleting[d].step = "answered"
           /\ \/ deleting[d].wasCurrent /\ current' = None /\ shown' = <<>>
              \/ ~deleting[d].wasCurrent /\ UNCHANGED <<current, shown>>
<1>1. /\ deleting[d].step = "answered"
      /\ \/ deleting[d].wasCurrent /\ current' = None /\ shown' = <<>>
         \/ ~deleting[d].wasCurrent /\ UNCHANGED <<current, shown>>
      /\ deleting' = [deleting EXCEPT ![d] = [step |-> "done", conv |-> None, wasCurrent |-> FALSE]]
      /\ UNCHANGED <<streaming, ref, sending, loading, gone, serving, where, wire, threads, log,
                     disturbed>>
    BY DEF Deleted, server
<1>2. /\ deleting' \in [Deletes -> DeleteCalls]
      /\ deleting'[d].step = "done" /\ deleting'[d].conv = None
      /\ \A e \in Deletes : e # d => deleting'[e] = deleting[e]
    BY <1>1, DeletionOverTyped
<1>3. DeletionOver(d) BY <1>1, <1>2 DEF DeletionOver
<1>4. current' \in Ids \cup {None} /\ shown' \in Seq(Shown)
    <2>1. /\ current \in Ids \cup {None} /\ shown \in Seq(Shown) /\ <<>> \in Seq(Shown)
        BY DEF CallsInv, ClientTypeOK
    <2> HIDE DEF Shown
    <2> QED BY <1>1, <2>1
<1>5. ClientTypeOK' BY <1>1, <1>2, <1>4 DEF CallsInv, ClientTypeOK, DeleteCalls
<1> QED BY <1>1, <1>3, <1>5

LEMMA DeleteFailsEffect ==
    ASSUME CallsInv, NEW d \in Deletes, DeleteFails(d)
    PROVE  /\ ClientTypeOK' /\ DeletionOver(d)
           /\ deleting[d].step \in {"asked", "answered"}
           /\ disturbed' = (disturbed \/ (deleting[d].step = "answered" /\ deleting[d].wasCurrent))
           /\ UNCHANGED <<current, shown>>
<1>1. /\ deleting[d].step \in {"asked", "answered"}
      /\ disturbed' = (disturbed \/ (deleting[d].step = "answered" /\ deleting[d].wasCurrent))
      /\ deleting' = [deleting EXCEPT ![d] = [step |-> "done", conv |-> None, wasCurrent |-> FALSE]]
      /\ UNCHANGED <<current, shown, streaming, ref, sending, loading, gone, serving, where, wire,
                     threads, log>>
    BY DEF DeleteFails, hook, server
<1>2. /\ deleting' \in [Deletes -> DeleteCalls]
      /\ deleting'[d].step = "done" /\ deleting'[d].conv = None
      /\ \A e \in Deletes : e # d => deleting'[e] = deleting[e]
    BY <1>1, DeletionOverTyped
<1>3. DeletionOver(d) BY <1>1, <1>2 DEF DeletionOver
<1>4. disturbed' \in BOOLEAN BY <1>1
<1>5. ClientTypeOK' BY <1>1, <1>2, <1>4 DEF CallsInv, ClientTypeOK, DeleteCalls
<1> QED BY <1>1, <1>3, <1>5

LEMMA AnswerDeleteEffect ==
    ASSUME CallsInv, NEW d \in Deletes, AnswerDelete(d)
    PROVE  /\ ClientTypeOK'
           /\ deleting[d].step = "asked"
           /\ deleting'[d].step = "answered" /\ deleting'[d].conv = deleting[d].conv
           /\ deleting'[d].wasCurrent = deleting[d].wasCurrent
           /\ \A e \in Deletes : e # d => deleting'[e] = deleting[e]
           /\ threads' = threads \ {deleting[d].conv}
           /\ \A c \in Ids : log'[c] = IF c = deleting[d].conv THEN <<>> ELSE log[c]
           /\ UNCHANGED <<current, shown, streaming, ref, sending, loading, gone, serving, where,
                          wire, disturbed>>
<1> DEFINE b == [deleting[d] EXCEPT !.step = "answered"]
<1>1. /\ deleting[d].step = "asked"
      /\ deleting' = [deleting EXCEPT ![d] = b]
      /\ threads' = threads \ {deleting[d].conv}
      /\ log' = [log EXCEPT ![deleting[d].conv] = <<>>]
      /\ UNCHANGED <<current, shown, streaming, ref, sending, loading, gone, serving, where,
                     wire, disturbed>>
    BY DEF AnswerDelete, hook
<1>2. deleting \in [Deletes -> DeleteCalls] /\ deleting[d] \in DeleteCalls
    BY DEF CallsInv, ClientTypeOK, DeleteCalls
<1>3. /\ b \in DeleteCalls /\ b.step = "answered" /\ b.conv = deleting[d].conv
      /\ b.wasCurrent = deleting[d].wasCurrent
    BY <1>2 DEF DeleteCalls
<1>4. /\ log' \in [Ids -> Seq(Turn)]
      /\ \A c \in Ids : log'[c] = IF c = deleting[d].conv THEN <<>> ELSE log[c]
    <2>1. log \in [Ids -> Seq(Turn)] BY DEF CallsInv, ClientTypeOK
    <2>2. <<>> \in Seq(Turn) OBVIOUS
    <2> HIDE DEF Turn
    <2> QED BY <1>1, <2>1, <2>2
<1> HIDE DEF b
<1>5. /\ deleting' \in [Deletes -> DeleteCalls] /\ deleting'[d] = b
      /\ \A e \in Deletes : e # d => deleting'[e] = deleting[e]
    BY <1>1, <1>2, <1>3
<1>6. ClientTypeOK' BY <1>1, <1>4, <1>5 DEF CallsInv, ClientTypeOK, DeleteCalls
<1> QED BY <1>1, <1>3, <1>4, <1>5, <1>6

\* CallsInv is kept by loads and deletions, and so by every step.
LEMMA CallsAfterPick ==
    ASSUME CallsInv,
           \/ NewChat
           \/ \E l \in Loads : AnswerLoad(l) \/ Loaded(l) \/ \E c \in Known : Select(l, c)
           \/ \E d \in Deletes : AnswerDelete(d) \/ Deleted(d) \/ DeleteFails(d)
                                 \/ \E c \in Known : Delete(d, c)
    PROVE  CallsInv'
<1>1. ASSUME NEW s \in Sends, ~Resolved(s)
      PROVE  Unknown(Fresh[s]) /\ Fresh[s] \in Ids /\ Fresh[s] # None /\ Fresh[s] \notin Known
    BY <1>1, IdsKnown, KnownIds DEF CallsInv
<1>2. CASE NewChat
    <2>1. /\ ClientTypeOK' /\ current' = None
          /\ UNCHANGED <<streaming, ref, sending, loading, deleting, gone, serving, where, wire, log>>
        BY <1>2, NewChatEffect
    <2>2. \A s \in Sends : ~Resolved(s) => Unknown(Fresh[s])'
        BY <1>1, <2>1, UnknownUntouched DEF Unknown
    <2> QED BY <2>1, <2>2, CallsKept
<1>3. ASSUME NEW l \in Loads, AnswerLoad(l) PROVE CallsInv'
    <2>1. /\ ClientTypeOK' /\ \A k \in Loads : loading'[k].conv = loading[k].conv
          /\ UNCHANGED <<current, streaming, ref, sending, deleting, gone, serving, where, wire, log>>
        BY <1>3, AnswerLoadEffect
    <2>2. \A s \in Sends : ~Resolved(s) => Unknown(Fresh[s])'
        BY <1>1, <2>1, UnknownUntouched DEF Unknown
    <2> QED BY <2>1, <2>2, CallsKept
<1>4. ASSUME NEW l \in Loads, Loaded(l) PROVE CallsInv'
    <2>1. /\ ClientTypeOK'
          /\ \A k \in Loads : loading'[k].conv \in {loading[k].conv, None}
          /\ UNCHANGED <<current, streaming, ref, sending, deleting, gone, serving, where, wire, log>>
        BY <1>4, LoadedEffect
    <2>2. \A s \in Sends : ~Resolved(s) => Unknown(Fresh[s])'
        BY <1>1, <2>1, UnknownUntouched DEF Unknown
    <2> QED BY <2>1, <2>2, CallsKept
<1>5. ASSUME NEW l \in Loads, NEW c \in Known, Select(l, c) PROVE CallsInv'
    <2>1. /\ ClientTypeOK' /\ current' = c
          /\ \A k \in Loads : loading'[k].conv \in {loading[k].conv, c}
          /\ UNCHANGED <<streaming, ref, sending, deleting, gone, serving, where, wire, log>>
        BY <1>5, SelectEffect
    <2>2. \A s \in Sends : ~Resolved(s) => Unknown(Fresh[s])'
        BY <1>1, <2>1, UnknownUntouched DEF Unknown
    <2> QED BY <2>1, <2>2, CallsKept
<1>6. ASSUME NEW d \in Deletes, AnswerDelete(d) PROVE CallsInv'
    <2>1. /\ ClientTypeOK' /\ \A e \in Deletes : deleting'[e].conv = deleting[e].conv
          /\ \A c \in Ids : log'[c] = IF c = deleting[d].conv THEN <<>> ELSE log[c]
          /\ UNCHANGED <<current, streaming, ref, sending, loading, gone, serving, where, wire>>
        BY <1>6, AnswerDeleteEffect
    <2>2. ASSUME NEW s \in Sends, ~Resolved(s) PROVE Unknown(Fresh[s])'
        <3>1. Unknown(Fresh[s]) /\ Fresh[s] \in Ids BY <1>1, <2>2
        <3>2. log'[Fresh[s]] = log[Fresh[s]] BY <2>1, <3>1 DEF Unknown
        <3> QED BY <2>1, <3>1, <3>2, UnknownUntouched DEF Unknown
    <2> QED BY <2>1, <2>2, CallsKept
<1>7. ASSUME NEW d \in Deletes, Deleted(d) \/ DeleteFails(d) PROVE CallsInv'
    <2>1. /\ ClientTypeOK' /\ DeletionOver(d) /\ current' \in {current, None}
        BY <1>7, DeletedEffect, DeleteFailsEffect
    <2>2. /\ \A e \in Deletes : deleting'[e].conv \in {deleting[e].conv, None}
          /\ UNCHANGED <<streaming, ref, sending, loading, gone, serving, where, wire, log>>
        BY <2>1 DEF DeletionOver
    <2>3. \A s \in Sends : ~Resolved(s) => Unknown(Fresh[s])'
        BY <1>1, <2>1, <2>2, UnknownUntouched DEF Unknown
    <2> QED BY <2>1, <2>2, <2>3, CallsKept
<1>8. ASSUME NEW d \in Deletes, NEW c \in Known, Delete(d, c) PROVE CallsInv'
    <2>1. /\ ClientTypeOK'
          /\ \A e \in Deletes : deleting'[e].conv \in {deleting[e].conv, c}
          /\ UNCHANGED <<current, streaming, ref, sending, loading, gone, serving, where, wire, log>>
        BY <1>8, DeleteEffect
    <2>2. \A s \in Sends : ~Resolved(s) => Unknown(Fresh[s])'
        BY <1>1, <2>1, UnknownUntouched DEF Unknown
    <2> QED BY <2>1, <2>2, CallsKept
<1> QED BY <1>2, <1>3, <1>4, <1>5, <1>6, <1>7, <1>8

LEMMA CallsNext == CallsInv /\ [ClientNext]_clientVars => CallsInv'
<1> SUFFICES ASSUME CallsInv, [ClientNext]_clientVars PROVE CallsInv' OBVIOUS
<1>1. CASE UNCHANGED clientVars
    <2>1. ClientTypeOK' BY <1>1 DEF clientVars, hook, server, CallsInv, ClientTypeOK
    <2>2. UNCHANGED <<sending, streaming, ref, gone, serving, where, wire>>
        BY <1>1 DEF clientVars, hook
    <2>3. \A s \in Sends : ~Resolved(s) => Unknown(Fresh[s])'
        BY <1>1 DEF clientVars, hook, server, CallsInv, Unknown
    <2> QED BY <2>1, <2>2, <2>3, CallsKept
<1>2. ASSUME NEW s \in Sends, Send(s) \/ Receive(s) \/ Break(s) \/ Serve(s) PROVE CallsInv'
    BY <1>2, CallsAfterSend, CallsAfterReceive, CallsAfterCut, BreakCuts, CallsAfterServe
<1>3. CASE Stop BY <1>3, StopCuts, CallsAfterCut
<1> QED BY <1>1, <1>2, <1>3, CallsAfterPick DEF ClientNext

LEMMA CallsInit == ClientInit => CallsInv
<1> SUFFICES ASSUME ClientInit PROVE CallsInv OBVIOUS
<1>1. ClientTypeOK
    <2>1. <<>> \in Seq(Shown) /\ <<>> \in Seq(Turn) OBVIOUS
    <2>2. <<>> \in Seq({"limited", "start", "token", "error", "end"}) OBVIOUS
    <2>3. Existing \subseteq Ids BY IdsKnown
    <2> HIDE DEF Shown, Turn
    <2> QED BY <2>1, <2>2, <2>3 DEF ClientInit, ClientTypeOK
<1>2. StreamIsInReach /\ (ref # None => streaming)
    BY DEF ClientInit, StreamIsInReach, Active
<1>3. \A s \in Sends : CallFits(s)
    BY DEF ClientInit, CallFits, UnreadFits, Busy, Resolved, Active
<1>4. \A s \in Sends : Unknown(Fresh[s])
    BY IdsKnown DEF ClientInit, Unknown
<1> QED BY <1>1, <1>2, <1>3, <1>4 DEF CallsInv

-----------------------------------------------------------------------------
(* ChatClient: the turns *)

\* Handlers only go on.
Onward ==
    \A s \in Sends :
        /\ serving[s] # "idle" => serving'[s] # "idle"
        /\ serving[s] \in {"stream", "answer", "end", "over"} =>
              serving'[s] \in {"stream", "answer", "end", "over"}
        /\ serving[s] \in {"end", "over"} => serving'[s] \in {"end", "over"}

\* A handler only goes onward.
LEMMA StepIsOnward ==
    ASSUME CallsInv, NEW s \in Sends, NEW from, NEW to, ServeStep(s, from, to),
           <<from, to>> \in {<<"request", "question">>, <<"request", "over">>,
                             <<"question", "stream">>, <<"stream", "answer">>,
                             <<"stream", "end">>, <<"answer", "end">>, <<"end", "over">>}
    PROVE  Onward
<1>1. /\ serving[s] = from /\ serving'[s] = to
      /\ \A t \in Sends : t # s => serving'[t] = serving[t]
    BY DEF ServeStep, CallsInv, ClientTypeOK
<1>2. \/ from = "request" /\ to \in {"question", "over"}
      \/ from = "question" /\ to = "stream"
      \/ from = "stream" /\ to \in {"answer", "end"}
      \/ from = "answer" /\ to = "end"
      \/ from = "end" /\ to = "over"
    OBVIOUS
<1> QED BY <1>1, <1>2 DEF Onward

\* Every answer that was not cut follows its question, but for cut messages.
Followed(turns) ==
    \A i \in 1..Len(turns) : turns[i].role = "assistant" /\ turns[i].of \notin gone =>
        \E j \in 1..(i - 1) : /\ turns[j] = Question(turns[i].of)
                              /\ \A k \in (j + 1)..(i - 1) : turns[k].of \in gone

\* A question that waits for its answer.
AskedIn(turns, s) ==
    \E j \in 1..Len(turns) : /\ turns[j] = Question(s)
                             /\ \A k \in (j + 1)..Len(turns) : turns[k].of \in gone

\* Two parts of TurnsInv, as statements about one list.
LEMMA ByThread ==
    /\ AnswersFollowQuestions <=> \A c \in threads : Followed(log[c])
    /\ \A s \in Sends : AskedLast(s) <=> AskedIn(log[where[s]], s)
BY DEF AnswersFollowQuestions, Followed, AskedLast, AskedIn

\* They hold of a list that does not change while more messages are cut.
LEMMA FollowedKept ==
    ASSUME NEW c \in Ids, Followed(log[c]), log'[c] = log[c] \/ log'[c] = <<>>, gone \subseteq gone'
    PROVE  Followed(log[c])'
BY DEF Followed, Question

LEMMA AskedKept ==
    ASSUME NEW s \in Sends, AskedIn(log[where[s]], s), log'[where'[s]] = log[where[s]],
           gone \subseteq gone'
    PROVE  AskedIn(log[where[s]], s)'
BY DEF AskedIn, Question

\* Turns, and items, are of messages.
LEMMA TurnsAreOfSends ==
    ASSUME NEW turns \in Seq(Turn)
    PROVE  \A i \in 1..Len(turns) : turns[i].of \in Sends /\ turns[i].role \in {"user", "assistant"}
<1>1. \A i \in 1..Len(turns) : turns[i] \in Turn OBVIOUS
<1> QED BY <1>1 DEF Turn

LEMMA ItemsAreOfSends ==
    ASSUME NEW items \in Seq(Shown)
    PROVE  \A i \in 1..Len(items) : items[i].turn \in Turn /\ items[i].turn.of \in Sends
<1>1. \A i \in 1..Len(items) : items[i] \in Shown OBVIOUS
<1> QED BY <1>1 DEF Shown, Turn

\* What is genuine stays so while handlers go onward.
LEMMA GenuineLogKept ==
    ASSUME CallsInv, Onward, NEW c \in Ids, Genuine(log[c]), log'[c] = log[c] \/ log'[c] = <<>>
    PROVE  Genuine(log[c])'
<1>1. log[c] \in Seq(Turn) BY DEF CallsInv, ClientTypeOK
<1>2. \A i \in 1..Len(log[c]) : log[c][i].of \in Sends BY <1>1, TurnsAreOfSends
<1> QED BY <1>2 DEF Genuine, Distinct, Saved, Onward

LEMMA GenuineTurnsKept ==
    ASSUME CallsInv, Onward, NEW l \in Loads, Genuine(loading[l].turns),
           loading'[l].turns = loading[l].turns \/ loading'[l].turns = <<>>
    PROVE  Genuine(loading[l].turns)'
<1>1. loading[l].turns \in Seq(Turn) BY DEF CallsInv, ClientTypeOK
<1>2. \A i \in 1..Len(loading[l].turns) : loading[l].turns[i].of \in Sends BY <1>1, TurnsAreOfSends
<1> QED BY <1>2 DEF Genuine, Distinct, Saved, Onward

LEMMA ShownKept ==
    ASSUME CallsInv, Onward, ShownOnce, Len(shown') = Len(shown),
           \A i \in 1..Len(shown) : shown'[i].turn = shown[i].turn
    PROVE  ShownOnce'
<1>1. shown \in Seq(Shown) BY DEF CallsInv, ClientTypeOK
<1>2. \A i \in 1..Len(shown) : shown[i].turn.of \in Sends BY <1>1, ItemsAreOfSends
<1> QED BY <1>2 DEF ShownOnce, Onward

\* A step that saves no turn keeps TurnsInv.
LEMMA TurnsKept ==
    ASSUME CallsInv, TurnsInv, CallsInv', Onward, gone \subseteq gone',
           \A l \in Loads : Genuine(loading[l].turns)',
           ShownOnce',
           \A c \in Ids : log'[c] = log[c] \/ (log'[c] = <<>> /\ c \notin threads'),
           \A c \in threads' : c \in threads \/ log[c] = <<>>,
           \A s \in Sends : serving'[s] \in {"stream", "answer"} /\ where'[s] \in threads' =>
               /\ serving[s] \in {"stream", "answer"} /\ where[s] \in threads
               /\ where'[s] = where[s]
    PROVE  TurnsInv'
<1>1. \A c \in Ids : Genuine(log[c])' BY GenuineLogKept DEF TurnsInv
<1>2. ASSUME NEW s \in Sends, serving'[s] \in {"stream", "answer"}, s \notin gone',
             where'[s] \in threads'
      PROVE  AskedLast(s)'
    <2>1. /\ serving[s] \in {"stream", "answer"} /\ where[s] \in threads
          /\ where'[s] = where[s]
        BY <1>2
    <2>2. AskedIn(log[where[s]], s) BY <1>2, <2>1, ByThread DEF TurnsInv
    <2>3. where[s] \in Ids BY <2>1 DEF CallsInv, ClientTypeOK
    <2>4. log'[where'[s]] = log[where[s]] BY <1>2, <2>1, <2>3
    <2>5. AskedIn(log[where[s]], s)' BY <2>2, <2>4, AskedKept
    <2> QED BY <2>5 DEF AskedLast, AskedIn
<1>3. AnswersFollowQuestions'
    <2>1. ASSUME NEW c \in Ids, c \in threads' PROVE Followed(log[c])'
        <3>1. CASE c \in threads
            BY <2>1, <3>1, FollowedKept, ByThread DEF TurnsInv
        <3>2. CASE log[c] = <<>>
            BY <2>1, <3>2 DEF Followed
        <3> QED BY <2>1, <3>1, <3>2
    <2>2. threads' \subseteq Ids BY DEF CallsInv, ClientTypeOK
    <2>3. \A c \in threads' : Followed(log[c])' BY <2>1, <2>2
    <2> QED BY <2>3 DEF AnswersFollowQuestions, Followed
<1> QED BY <1>1, <1>2, <1>3 DEF TurnsInv

\* One turn is appended.
LEMMA TurnAppended ==
    ASSUME NEW turns \in Seq(Turn), NEW t \in Turn
    PROVE  /\ Len(turns) \in Nat /\ Len(Append(turns, t)) = Len(turns) + 1
           /\ Append(turns, t)[Len(turns) + 1] = t
           /\ \A i \in 1..Len(turns) : Append(turns, t)[i] = turns[i]
           /\ Append(turns, t) \in Seq(Turn)
<1> HIDE DEF Turn
<1> QED OBVIOUS

\* One turn is saved: by a message that has not saved it yet, while all others
\* that are served are cut.
LEMMA OthersAreCut ==
    ASSUME CallsInv, NEW s \in Sends, Busy(s), s \notin gone, NEW t \in Sends, t # s, Busy(t)
    PROVE  t \in gone
<1>1. CallFits(s) /\ CallFits(t) BY DEF CallsInv
<1>2. Active(s) BY <1>1 DEF CallFits
<1>3. ~Active(t) BY <1>2, OneActive
<1> QED BY <1>1, <1>3 DEF CallFits

\* A turn that is saved for the first time is there once.
LEMMA GenuineAfterSave ==
    ASSUME CallsInv, TurnsInv, Onward, NEW w \in Ids, NEW t \in Turn, ~Saved(t), Saved(t)',
           log'[w] = Append(log[w], t), \A c \in Ids : c # w => log'[c] = log[c]
    PROVE  \A c \in Ids : Genuine(log[c])'
<1> SUFFICES ASSUME NEW c \in Ids PROVE Genuine(log[c])' OBVIOUS
<1>1. CASE c # w BY <1>1, GenuineLogKept DEF TurnsInv
<1>2. CASE c = w
    <2>1. log[w] \in Seq(Turn) BY DEF CallsInv, ClientTypeOK
    <2>2. /\ Len(log[w]) \in Nat /\ Len(log'[w]) = Len(log[w]) + 1
          /\ log'[w][Len(log[w]) + 1] = t
          /\ \A i \in 1..Len(log[w]) : log'[w][i] = log[w][i]
        BY <2>1, TurnAppended
    <2>3. /\ \A i, j \in 1..Len(log[w]) : log[w][i] = log[w][j] => i = j
          /\ \A i \in 1..Len(log[w]) : Saved(log[w][i])
        BY DEF TurnsInv, Genuine, Distinct
    <2>4. \A i \in 1..Len(log[w]) : log[w][i] # t BY <2>3
    <2>5. \A i \in 1..Len(log'[w]) : i \in 1..Len(log[w]) \/ i = Len(log[w]) + 1 BY <2>2
    <2>6. \A i, j \in 1..Len(log'[w]) : log'[w][i] = log'[w][j] => i = j
        BY <2>2, <2>3, <2>4, <2>5
    <2>7. ASSUME NEW i \in 1..Len(log'[w]) PROVE serving'[log'[w][i].of] \in
              IF log'[w][i].role = "user" THEN {"stream", "answer", "end", "over"} ELSE {"end", "over"}
        <3>1. CASE i = Len(log[w]) + 1 BY <2>2, <3>1 DEF Saved
        <3>2. CASE i \in 1..Len(log[w])
            <4>1. log'[w][i] = log[w][i] /\ log[w][i].of \in Sends /\ Saved(log[w][i])
                BY <2>1, <2>2, <2>3, <3>2, TurnsAreOfSends
            <4> QED BY <4>1 DEF Saved, Onward
        <3> QED BY <2>5, <3>1, <3>2
    <2> QED BY <1>2, <2>6, <2>7 DEF Genuine, Distinct, Saved
<1> QED BY <1>1, <1>2

\* A question waits for its answer while cut messages save theirs.
LEMMA AskedAfterSave ==
    ASSUME CallsInv, TurnsInv, NEW s \in Sends, NEW t \in Turn, t.of = s, Busy(s),
           where[s] \in Ids, UNCHANGED <<where, threads, gone>>,
           log'[where[s]] = Append(log[where[s]], t),
           \A c \in Ids : c # where[s] => log'[c] = log[c],
           NEW q \in Sends, q # s, serving[q] \in {"stream", "answer"}, q \notin gone,
           where[q] \in threads
    PROVE  AskedLast(q)'
<1>1. s \in gone BY OthersAreCut DEF Busy
<1>2. PICK j \in 1..Len(log[where[q]]) :
          /\ log[where[q]][j] = Question(q)
          /\ \A k \in (j + 1)..Len(log[where[q]]) : log[where[q]][k].of \in gone
    BY DEF TurnsInv, AskedLast
<1>3. where[q] \in Ids BY DEF CallsInv, ClientTypeOK
<1>4. CASE where[q] # where[s]
    <2>1. log'[where'[q]] = log[where[q]] BY <1>3, <1>4
    <2>2. AskedIn(log[where[q]], q) BY <1>2 DEF AskedIn
    <2>3. AskedIn(log[where[q]], q)' BY <2>1, <2>2, AskedKept
    <2> QED BY <2>3 DEF AskedLast, AskedIn
<1>5. CASE where[q] = where[s]
    <2> DEFINE old == log[where[s]]
               new == Append(old, t)
    <2>1. old \in Seq(Turn) BY DEF CallsInv, ClientTypeOK
    <2>2. /\ Len(old) \in Nat /\ Len(new) = Len(old) + 1 /\ new[Len(old) + 1] = t
          /\ \A i \in 1..Len(old) : new[i] = old[i]
        BY <2>1, TurnAppended
    <2>3. log'[where'[q]] = new BY <1>5
    <2>4. j \in 1..Len(old) /\ old[j] = Question(q) /\ \A k \in (j + 1)..Len(old) : old[k].of \in gone
        BY <1>2, <1>5
    <2> HIDE DEF old, new
    <2>5. j \in 1..Len(new) /\ new[j] = Question(q) BY <2>2, <2>4
    <2>6. ASSUME NEW k \in (j + 1)..Len(new) PROVE new[k].of \in gone
        <3>1. CASE k = Len(old) + 1 BY <1>1, <2>2, <3>1
        <3>2. CASE k # Len(old) + 1
            <4>1. k \in (j + 1)..Len(old) /\ k \in 1..Len(old) BY <2>2, <2>4, <3>2
            <4> QED BY <2>2, <2>4, <4>1
        <3> QED BY <3>1, <3>2
    <2>7. \E i \in 1..Len(new) : /\ new[i] = Question(q)
                                 /\ \A k \in (i + 1)..Len(new) : new[k].of \in gone
        BY <2>5, <2>6
    <2> QED BY <2>3, <2>7 DEF AskedLast, Question
<1> QED BY <1>4, <1>5

\* An answer is saved after its question.
LEMMA FollowedAfterSave ==
    ASSUME CallsInv, TurnsInv, NEW w \in Ids, NEW t \in Turn,
           UNCHANGED <<threads, gone>>,
           log'[w] = Append(log[w], t), \A c \in Ids : c # w => log'[c] = log[c],
           t.role = "assistant" /\ t.of \notin gone /\ w \in threads =>
               AskedIn(log[w], t.of)
    PROVE  AnswersFollowQuestions'
<1>1. ASSUME NEW c \in threads PROVE Followed(log[c])'
    <2>1. c \in Ids /\ Followed(log[c]) BY <1>1, ByThread DEF CallsInv, ClientTypeOK, TurnsInv
    <2>2. CASE c # w BY <2>1, <2>2, FollowedKept
    <2>3. CASE c = w
        <3> DEFINE old == log[w]
                   new == Append(old, t)
        <3>1. old \in Seq(Turn) BY DEF CallsInv, ClientTypeOK
        <3>2. /\ Len(old) \in Nat /\ Len(new) = Len(old) + 1 /\ new[Len(old) + 1] = t
              /\ \A i \in 1..Len(old) : new[i] = old[i]
            BY <3>1, TurnAppended
        <3>3. Followed(old) BY <2>1, <2>3
        <3>4. t.role = "assistant" /\ t.of \notin gone => AskedIn(old, t.of) BY <2>3
        <3>5. log'[c] = new BY <2>3
        <3> HIDE DEF old, new
        <3>6. ASSUME NEW i \in 1..Len(new), new[i].role = "assistant", new[i].of \notin gone
              PROVE  \E j \in 1..(i - 1) : /\ new[j] = Question(new[i].of)
                                           /\ \A k \in (j + 1)..(i - 1) : new[k].of \in gone
            <4>1. CASE i = Len(old) + 1
                <5>1. new[i] = t BY <3>2, <4>1
                <5>2. PICK j \in 1..Len(old) :
                          /\ old[j] = Question(t.of)
                          /\ \A k \in (j + 1)..Len(old) : old[k].of \in gone
                    BY <3>4, <3>6, <5>1 DEF AskedIn
                <5>3. i - 1 = Len(old) BY <3>2, <4>1
                <5>4. new[j] = Question(new[i].of) BY <3>2, <5>1, <5>2
                <5>5. \A k \in (j + 1)..Len(old) : k \in 1..Len(old) BY <3>2
                <5>6. \A k \in (j + 1)..(i - 1) : new[k].of \in gone
                    BY <3>2, <5>2, <5>3, <5>5
                <5> QED BY <5>3, <5>4, <5>6
            <4>2. CASE i # Len(old) + 1
                <5>1. i \in 1..Len(old) /\ new[i] = old[i] BY <3>2, <4>2
                <5>2. PICK j \in 1..(i - 1) :
                          /\ old[j] = Question(old[i].of)
                          /\ \A k \in (j + 1)..(i - 1) : old[k].of \in gone
                    BY <3>3, <3>6, <5>1 DEF Followed
                <5>3. \A k \in 1..(i - 1) : new[k] = old[k] BY <3>2, <5>1
                <5>4. \A k \in (j + 1)..(i - 1) : k \in 1..(i - 1) OBVIOUS
                <5> QED BY <5>1, <5>2, <5>3, <5>4
            <4> QED BY <4>1, <4>2
        <3> QED BY <3>5, <3>6 DEF Followed, Question
    <2> QED BY <2>2, <2>3
<1>2. \A c \in threads' : Followed(log[c])' BY <1>1
<1> QED BY <1>2 DEF AnswersFollowQuestions, Followed

\* TurnsInv is kept by each action.
LEMMA TurnsAfterSend ==
    ASSUME CallsInv, TurnsInv, CallsInv', NEW s \in Sends, Send(s)
    PROVE  TurnsInv'
<1>1. /\ sending[s].step = "idle" /\ serving'[s] = "request"
      /\ \A t \in Sends : t # s => serving'[t] = serving[t]
      /\ UNCHANGED <<loading, gone, where, threads, log>>
    BY SendEffect DEF CallsInv
<1>2. serving[s] = "idle" BY <1>1 DEF CallsInv, CallFits
<1>3. Onward BY <1>1, <1>2 DEF Onward
<1>4. \A l \in Loads : Genuine(loading[l].turns)'
    BY <1>1, <1>3, GenuineTurnsKept DEF TurnsInv
<1>5. ShownOnce'
    <2> DEFINE p == Item(Question(s), "said", TRUE)
               q == Item(Answer(s), "empty", TRUE)
               new == shown \o <<p, q>>
    <2>1. /\ p \in Shown /\ p.turn = Question(s)
          /\ q \in Shown /\ q.turn = Answer(s)
        BY ItemsTyped DEF Item
    <2>2. /\ Question(s).of = s /\ Answer(s).of = s /\ Question(s) # Answer(s)
        BY DEF Question, Answer
    <2>3. shown \in Seq(Shown) BY DEF CallsInv, ClientTypeOK
    <2>4. shown' = new BY DEF Send
    <2> HIDE DEF p, q
    <2>5. /\ Len(shown) \in Nat /\ Len(new) = Len(shown) + 2
          /\ \A i \in 1..Len(shown) : new[i] = shown[i]
          /\ new[Len(shown) + 1] = p
          /\ new[Len(shown) + 2] = q
        BY <2>1, <2>3, TwoMore
    <2>6. \A i \in 1..Len(shown) : shown[i].turn.of \in Sends /\ shown[i].turn.of # s
        BY <1>2, <2>3, ItemsAreOfSends DEF TurnsInv, ShownOnce
    <2> HIDE DEF new
    <2>7. \A i \in 1..Len(new) : i \in 1..Len(shown) \/ i = Len(shown) + 1 \/ i = Len(shown) + 2
        BY <2>5
    <2>8. \A i, j \in 1..Len(shown) : shown[i].turn = shown[j].turn => i = j
        BY DEF TurnsInv, ShownOnce
    <2>9. \A i \in 1..Len(new) :
              /\ i \in 1..Len(shown) => new[i].turn = shown[i].turn /\ new[i].turn.of # s
              /\ i = Len(shown) + 1 => new[i].turn = Question(s)
              /\ i = Len(shown) + 2 => new[i].turn = Answer(s)
        BY <2>1, <2>5, <2>6
    <2>10. \A i, j \in 1..Len(new) : new[i].turn = new[j].turn => i = j
        BY <2>2, <2>7, <2>8, <2>9
    <2>11. \A i \in 1..Len(new) : serving'[new[i].turn.of] # "idle"
        <3>1. \A i \in 1..Len(shown) : serving[shown[i].turn.of] # "idle"
            BY DEF TurnsInv, ShownOnce
        <3> QED BY <1>1, <2>2, <2>6, <2>7, <2>9, <3>1
    <2> QED BY <2>4, <2>10, <2>11 DEF ShownOnce
<1>6. \A q \in Sends : serving'[q] \in {"stream", "answer"} => q # s /\ serving[q] = serving'[q]
    BY <1>1
<1> QED BY <1>1, <1>3, <1>4, <1>5, <1>6, TurnsKept

\* Steps that leave the handlers and the conversations alone.
LEMMA TurnsSameServer ==
    ASSUME CallsInv, TurnsInv, CallsInv', UNCHANGED <<serving, where, threads, log>>,
           gone \subseteq gone', ShownOnce',
           \A l \in Loads : Genuine(loading[l].turns)'
    PROVE  TurnsInv'
<1>1. Onward BY DEF Onward
<1> QED BY <1>1, TurnsKept

LEMMA TurnsAfterReceive ==
    ASSUME CallsInv, TurnsInv, CallsInv', NEW s \in Sends, Receive(s)
    PROVE  TurnsInv'
<1>1. /\ Len(shown') = Len(shown)
      /\ \A i \in 1..Len(shown) : shown'[i].turn = shown[i].turn
      /\ UNCHANGED <<loading, gone, serving, where, threads, log>>
    BY ReceiveEffect DEF CallsInv
<1>2. Onward BY <1>1 DEF Onward
<1>3. ShownOnce' BY <1>1, <1>2, ShownKept DEF TurnsInv
<1>4. \A l \in Loads : Genuine(loading[l].turns)'
    BY <1>1, <1>2, GenuineTurnsKept DEF TurnsInv
<1> QED BY <1>1, <1>3, <1>4, TurnsSameServer

LEMMA TurnsAfterCut ==
    ASSUME CallsInv, TurnsInv, CallsInv', NEW s \in Sends, Cut(s)
    PROVE  TurnsInv'
<1>1. /\ Len(shown') = Len(shown) /\ gone \subseteq gone'
      /\ \A i \in 1..Len(shown) : shown'[i].turn = shown[i].turn
      /\ UNCHANGED <<loading, serving, where, threads, log>>
    BY CutEffect DEF CallsInv
<1>2. Onward BY <1>1 DEF Onward
<1>3. ShownOnce' BY <1>1, <1>2, ShownKept DEF TurnsInv
<1>4. \A l \in Loads : Genuine(loading[l].turns)'
    BY <1>1, <1>2, GenuineTurnsKept DEF TurnsInv
<1> QED BY <1>1, <1>3, <1>4, TurnsSameServer

LEMMA TurnsAfterServe ==
    ASSUME CallsInv, TurnsInv, CallsInv', NEW s \in Sends, Serve(s)
    PROVE  TurnsInv'
<1>1. ASSUME NEW from, NEW to,
             to \in {"idle", "request", "question", "stream", "answer", "end", "over"},
             ServeStep(s, from, to),
             <<from, to>> \in {<<"request", "question">>, <<"request", "over">>,
                               <<"question", "stream">>, <<"stream", "answer">>,
                               <<"stream", "end">>, <<"answer", "end">>, <<"end", "over">>}
      PROVE  /\ Onward /\ ShownOnce'
             /\ \A l \in Loads : Genuine(loading[l].turns)'
             /\ serving[s] = from /\ serving'[s] = to
             /\ \A t \in Sends : t # s => serving'[t] = serving[t]
             /\ gone' = gone
    <2>1. Onward BY <1>1, StepIsOnward
    <2>2. /\ serving[s] = from /\ serving'[s] = to
          /\ \A t \in Sends : t # s => serving'[t] = serving[t]
          /\ UNCHANGED <<shown, loading, gone>>
        BY <1>1, ServeStepEffect DEF CallsInv
    <2>3. ShownOnce' BY <2>1, <2>2, ShownKept DEF TurnsInv
    <2>4. \A l \in Loads : Genuine(loading[l].turns)'
        BY <2>1, <2>2, GenuineTurnsKept DEF TurnsInv
    <2> QED BY <2>1, <2>2, <2>3, <2>4
<1>2. CASE Resolve(s)
    <2>1. /\ \A t \in Sends : t # s => where'[t] = where[t]
          /\ threads' \subseteq threads \cup {Fresh[s]}
          /\ ServeStep(s, "request", "question") \/ ServeStep(s, "request", "over")
          /\ log' = log
        BY <1>2, ResolveEffect
    <2>2. PICK to \in {"question", "over"} : ServeStep(s, "request", to) BY <2>1
    <2>3. /\ Onward /\ ShownOnce'
          /\ \A l \in Loads : Genuine(loading[l].turns)'
          /\ serving[s] = "request" /\ serving'[s] = to
          /\ \A t \in Sends : t # s => serving'[t] = serving[t]
          /\ gone' = gone
        BY <1>1, <2>2
    <2>4. Unknown(Fresh[s]) BY <2>3 DEF CallsInv, Resolved
    <2>5. \A c \in threads' : c \in threads \/ log[c] = <<>> BY <2>1, <2>4 DEF Unknown
    <2>6. ASSUME NEW q \in Sends, serving'[q] \in {"stream", "answer"}, where'[q] \in threads'
          PROVE  /\ serving[q] \in {"stream", "answer"} /\ where[q] \in threads
                 /\ where'[q] = where[q]
        <3>1. q # s BY <2>3, <2>6
        <3>2. where[q] # Fresh[s] BY <2>4 DEF Unknown
        <3> QED BY <2>1, <2>3, <2>6, <3>1, <3>2
    <2> QED BY <2>1, <2>3, <2>5, <2>6, TurnsKept
<1>3. CASE SaveQuestion(s)
    <2>1. /\ ServeStep(s, "question", "stream") /\ where[s] \in Ids
          /\ log'[where[s]] = Append(log[where[s]], Question(s))
          /\ \A c \in Ids : c # where[s] => log'[c] = log[c]
          /\ UNCHANGED <<where, threads>>
        BY <1>3, SaveQuestionEffect
    <2>2. /\ Onward /\ ShownOnce'
          /\ \A l \in Loads : Genuine(loading[l].turns)'
          /\ serving[s] = "question" /\ serving'[s] = "stream"
          /\ \A t \in Sends : t # s => serving'[t] = serving[t]
          /\ gone' = gone
        BY <1>1, <2>1
    <2>3. /\ Question(s) \in Turn /\ Question(s).of = s /\ Question(s).role = "user"
        BY ItemsTyped DEF Question
    <2>4. ~Saved(Question(s)) /\ Saved(Question(s))'
        BY <2>2, <2>3 DEF Saved, Question
    <2>5. \A c \in Ids : Genuine(log[c])'
        <3> HIDE DEF Turn
        <3> QED BY <2>1, <2>2, <2>3, <2>4, GenuineAfterSave
    <2>6. AnswersFollowQuestions'
        BY <2>1, <2>2, <2>3, FollowedAfterSave
    <2>7. ASSUME NEW q \in Sends, serving'[q] \in {"stream", "answer"}, q \notin gone',
                 where'[q] \in threads'
          PROVE  AskedLast(q)'
        <3>1. CASE q # s
            <4>1. Busy(s) BY <2>2 DEF Busy
            <4> QED BY <2>1, <2>2, <2>3, <2>7, <3>1, <4>1, AskedAfterSave
        <3>2. CASE q = s
            <4>1. log[where[s]] \in Seq(Turn) BY <2>1 DEF CallsInv, ClientTypeOK
            <4>2. /\ Len(log[where[s]]) \in Nat
                  /\ Len(log'[where'[q]]) = Len(log[where[s]]) + 1
                  /\ log'[where'[q]][Len(log[where[s]]) + 1] = Question(q)
                BY <2>1, <2>3, <3>2, <4>1, TurnAppended
            <4>3. \E j \in 1..Len(log'[where'[q]]) :
                      /\ log'[where'[q]][j] = Question(q)
                      /\ \A k \in (j + 1)..Len(log'[where'[q]]) : log'[where'[q]][k].of \in gone'
                BY <4>2
            <4> QED BY <4>3 DEF AskedLast, Question
        <3> QED BY <3>1, <3>2
    <2> QED BY <2>2, <2>5, <2>6, <2>7 DEF TurnsInv
<1>4. CASE Stream(s)
    <2>1. /\ ServeStep(s, "stream", "answer") \/ ServeStep(s, "stream", "end")
          /\ UNCHANGED <<where, threads, log>>
        BY <1>4, StreamEffect
    <2>2. PICK to \in {"answer", "end"} : ServeStep(s, "stream", to) BY <2>1
    <2>3. /\ Onward /\ ShownOnce'
          /\ \A l \in Loads : Genuine(loading[l].turns)'
          /\ serving[s] = "stream" /\ serving'[s] = to
          /\ \A t \in Sends : t # s => serving'[t] = serving[t]
          /\ gone' = gone
        BY <1>1, <2>2
    <2> QED BY <2>1, <2>3, TurnsKept
<1>5. CASE StoreAnswer(s)
    <2>1. /\ ServeStep(s, "answer", "end") /\ where[s] \in Ids
          /\ log'[where[s]] = Append(log[where[s]], Answer(s))
          /\ \A c \in Ids : c # where[s] => log'[c] = log[c]
          /\ UNCHANGED <<where, threads>>
        BY <1>5, StoreAnswerEffect
    <2>2. /\ Onward /\ ShownOnce'
          /\ \A l \in Loads : Genuine(loading[l].turns)'
          /\ serving[s] = "answer" /\ serving'[s] = "end"
          /\ \A t \in Sends : t # s => serving'[t] = serving[t]
          /\ gone' = gone
        BY <1>1, <2>1
    <2>3. /\ Answer(s) \in Turn /\ Answer(s).of = s /\ Answer(s).role = "assistant"
        BY ItemsTyped DEF Answer
    <2>4. ~Saved(Answer(s)) /\ Saved(Answer(s))'
        BY <2>2, <2>3 DEF Saved, Answer
    <2>5. \A c \in Ids : Genuine(log[c])'
        <3> HIDE DEF Turn
        <3> QED BY <2>1, <2>2, <2>3, <2>4, GenuineAfterSave
    <2>6. s \notin gone /\ where[s] \in threads => AskedIn(log[where[s]], s)
        BY <2>2, ByThread DEF TurnsInv
    <2>7. AnswersFollowQuestions'
        BY <2>1, <2>2, <2>3, <2>6, FollowedAfterSave
    <2>8. ASSUME NEW q \in Sends, serving'[q] \in {"stream", "answer"}, q \notin gone',
                 where'[q] \in threads'
          PROVE  AskedLast(q)'
        <3>1. q # s /\ Busy(s) BY <2>2, <2>8 DEF Busy
        <3> QED BY <2>1, <2>2, <2>3, <2>8, <3>1, AskedAfterSave
    <2> QED BY <2>2, <2>5, <2>7, <2>8 DEF TurnsInv
<1>6. CASE End(s)
    <2>1. ServeStep(s, "end", "over") /\ UNCHANGED <<where, threads, log>>
        BY <1>6, EndEffect
    <2>2. /\ Onward /\ ShownOnce'
          /\ \A l \in Loads : Genuine(loading[l].turns)'
          /\ serving[s] = "end" /\ serving'[s] = "over"
          /\ \A t \in Sends : t # s => serving'[t] = serving[t]
          /\ gone' = gone
        BY <1>1, <2>1
    <2> QED BY <2>1, <2>2, TurnsKept
<1> QED BY <1>2, <1>3, <1>4, <1>5, <1>6 DEF Serve

\* A loaded conversation shows each turn once.
LEMMA DisplayedOnce ==
    ASSUME CallsInv, NEW l \in Loads, Genuine(loading[l].turns), UNCHANGED serving,
           shown' = Displayed(loading[l].turns)
    PROVE  ShownOnce'
<1> DEFINE turns == loading[l].turns
<1>1. turns \in Seq(Turn) BY DEF CallsInv, ClientTypeOK
<1>2. /\ Len(shown') = Len(turns)
      /\ \A i \in 1..Len(turns) : shown'[i].turn = turns[i]
    BY <1>1, DisplayedTyped
<1>3. /\ \A i, j \in 1..Len(turns) : turns[i] = turns[j] => i = j
      /\ \A i \in 1..Len(turns) : serving[turns[i].of] # "idle"
    BY DEF Genuine, Distinct, Saved
<1> HIDE DEF turns
<1>4. \A i, j \in 1..Len(shown') : shown'[i].turn = shown'[j].turn => i = j
    BY <1>2, <1>3
<1>5. \A i \in 1..Len(shown') : serving'[shown'[i].turn.of] # "idle"
    BY <1>2, <1>3
<1> QED BY <1>4, <1>5 DEF ShownOnce

\* TurnsInv is kept by loads and deletions, and so by every step.
LEMMA TurnsAfterPick ==
    ASSUME CallsInv, TurnsInv, CallsInv',
           \/ NewChat
           \/ \E l \in Loads : AnswerLoad(l) \/ Loaded(l) \/ \E c \in Known : Select(l, c)
           \/ \E d \in Deletes : AnswerDelete(d) \/ Deleted(d) \/ DeleteFails(d)
                                 \/ \E c \in Known : Delete(d, c)
    PROVE  TurnsInv'
<1>1. ASSUME UNCHANGED serving
      PROVE  /\ Onward
             /\ shown' = shown \/ shown' = <<>> => ShownOnce'
             /\ (\A l \in Loads : loading'[l].turns = loading[l].turns \/ loading'[l].turns = <<>>)
                    => \A l \in Loads : Genuine(loading[l].turns)'
    <2>1. Onward BY <1>1 DEF Onward
    <2>2. shown' = shown => ShownOnce' BY <2>1, ShownKept DEF TurnsInv
    <2>3. shown' = <<>> => ShownOnce' BY DEF ShownOnce
    <2>4. (\A l \in Loads : loading'[l].turns = loading[l].turns \/ loading'[l].turns = <<>>)
              => \A l \in Loads : Genuine(loading[l].turns)'
        BY <2>1, GenuineTurnsKept DEF TurnsInv
    <2> QED BY <2>1, <2>2, <2>3, <2>4
<1>2. CASE NewChat
    <2>1. /\ shown' = <<>>
          /\ UNCHANGED <<loading, gone, serving, where, threads, log>>
        BY <1>2, NewChatEffect
    <2> QED BY <1>1, <2>1, TurnsSameServer
<1>3. ASSUME NEW l \in Loads, AnswerLoad(l) PROVE TurnsInv'
    <2>1. /\ \/ /\ loading[l].conv \in threads /\ loading'[l].step = "answered"
                /\ loading'[l].turns = log[loading[l].conv]
             \/ loading'[l].turns = loading[l].turns
          /\ \A k \in Loads : k # l => loading'[k] = loading[k]
          /\ UNCHANGED <<shown, gone, serving, where, threads, log>>
        BY <1>3, AnswerLoadEffect
    <2>2. CASE loading'[l].turns = loading[l].turns
        <3>1. \A k \in Loads : loading'[k].turns = loading[k].turns BY <2>1, <2>2
        <3> QED BY <1>1, <2>1, <3>1, TurnsSameServer
    <2>3. CASE loading[l].conv \in threads /\ loading'[l].turns = log[loading[l].conv]
        <3>1. PICK c \in Ids : c = loading[l].conv BY <2>3 DEF CallsInv, ClientTypeOK
        <3>2. Genuine(log[c])' BY <1>1, <2>1, GenuineLogKept DEF TurnsInv
        <3>3. loading'[l].turns = log'[c] BY <2>1, <2>3, <3>1
        <3>4. Genuine(loading[l].turns)' BY <3>2, <3>3 DEF Genuine, Distinct, Saved
        <3>5. ASSUME NEW k \in Loads, k # l PROVE Genuine(loading[k].turns)'
            <4>1. loading'[k].turns = loading[k].turns BY <2>1, <3>5
            <4> QED BY <1>1, <2>1, <4>1, GenuineTurnsKept DEF TurnsInv
        <3>6. \A k \in Loads : Genuine(loading[k].turns)' BY <3>4, <3>5
        <3>7. ShownOnce' BY <1>1, <2>1
        <3> QED BY <2>1, <3>6, <3>7, TurnsSameServer
    <2> QED BY <2>1, <2>2, <2>3
<1>4. ASSUME NEW l \in Loads, Loaded(l) PROVE TurnsInv'
    <2>1. /\ \A k \in Loads : loading'[k].turns = loading[k].turns \/ loading'[k].turns = <<>>
          /\ shown' = Displayed(loading[l].turns) \/ shown' = shown
          /\ UNCHANGED <<gone, serving, where, threads, log>>
        BY <1>4, LoadedEffect
    <2>2. ShownOnce' BY <1>1, <2>1, DisplayedOnce DEF TurnsInv
    <2> QED BY <1>1, <2>1, <2>2, TurnsSameServer
<1>5. ASSUME NEW l \in Loads, NEW c \in Known, Select(l, c) PROVE TurnsInv'
    <2>1. /\ \A k \in Loads : loading'[k].turns = loading[k].turns \/ loading'[k].turns = <<>>
          /\ UNCHANGED <<shown, gone, serving, where, threads, log>>
        BY <1>5, SelectEffect
    <2> QED BY <1>1, <2>1, TurnsSameServer
<1>6. ASSUME NEW d \in Deletes, AnswerDelete(d) PROVE TurnsInv'
    <2>1. /\ threads' = threads \ {deleting[d].conv}
          /\ \A c \in Ids : log'[c] = IF c = deleting[d].conv THEN <<>> ELSE log[c]
          /\ UNCHANGED <<shown, loading, gone, serving, where>>
        BY <1>6, AnswerDeleteEffect
    <2>2. \A c \in Ids : log'[c] = log[c] \/ (log'[c] = <<>> /\ c \notin threads') BY <2>1
    <2>3. /\ Onward /\ ShownOnce' /\ \A l \in Loads : Genuine(loading[l].turns)'
        BY <1>1, <2>1
    <2> QED BY <2>1, <2>2, <2>3, TurnsKept
<1>7. ASSUME NEW d \in Deletes, Deleted(d) \/ DeleteFails(d) PROVE TurnsInv'
    <2>1. DeletionOver(d) /\ (shown' = shown \/ shown' = <<>>)
        BY <1>7, DeletedEffect, DeleteFailsEffect
    <2>2. UNCHANGED <<loading, gone, serving, where, threads, log>> BY <2>1 DEF DeletionOver
    <2> QED BY <1>1, <2>1, <2>2, TurnsSameServer
<1>8. ASSUME NEW d \in Deletes, NEW c \in Known, Delete(d, c) PROVE TurnsInv'
    <2>1. UNCHANGED <<shown, loading, gone, serving, where, threads, log>>
        BY <1>8, DeleteEffect
    <2> QED BY <1>1, <2>1, TurnsSameServer
<1> QED BY <1>2, <1>3, <1>4, <1>5, <1>6, <1>7, <1>8

LEMMA TurnsNext == CallsInv /\ TurnsInv /\ [ClientNext]_clientVars => TurnsInv'
<1> SUFFICES ASSUME CallsInv, TurnsInv, [ClientNext]_clientVars PROVE TurnsInv' OBVIOUS
<1>0. CallsInv' BY CallsNext
<1>1. CASE UNCHANGED clientVars
    <2>1. UNCHANGED <<shown, loading, gone, serving, where, threads, log>>
        BY <1>1 DEF clientVars, hook, server
    <2>2. Onward BY <2>1 DEF Onward
    <2>3. ShownOnce' /\ \A l \in Loads : Genuine(loading[l].turns)'
        BY <2>1, <2>2, ShownKept, GenuineTurnsKept DEF TurnsInv
    <2> QED BY <1>0, <2>1, <2>3, TurnsSameServer
<1>2. ASSUME NEW s \in Sends, Send(s) \/ Receive(s) \/ Break(s) \/ Serve(s) PROVE TurnsInv'
    BY <1>0, <1>2, TurnsAfterSend, TurnsAfterReceive, TurnsAfterCut, BreakCuts, TurnsAfterServe
<1>3. CASE Stop BY <1>0, <1>3, StopCuts, TurnsAfterCut
<1> QED BY <1>0, <1>1, <1>2, <1>3, TurnsAfterPick DEF ClientNext

LEMMA TurnsInit == ClientInit => TurnsInv
BY IdsKnown DEF ClientInit, TurnsInv, Genuine, Distinct, Saved, ShownOnce, AnswersFollowQuestions

-----------------------------------------------------------------------------
(* ChatClient: what is shown *)

\* Nothing is served but what the tab awaits, unless it cut it.
LEMMA DeletesNamedNext ==
    ASSUME CallsInv, DeletesNamed, [ClientNext]_clientVars
    PROVE  DeletesNamed'
<1>1. CASE UNCHANGED deleting BY <1>1 DEF DeletesNamed, Deleting
<1>2. ASSUME NEW d \in Deletes, NEW c \in Known, Delete(d, c) PROVE DeletesNamed'
    <2>1. /\ c # None /\ deleting'[d].conv = c
          /\ \A e \in Deletes : e # d => deleting'[e] = deleting[e]
        BY <1>2, DeleteEffect DEF Known
    <2> QED BY <2>1 DEF DeletesNamed, Deleting
<1>3. ASSUME NEW d \in Deletes, AnswerDelete(d) PROVE DeletesNamed'
    <2>1. /\ deleting[d].step = "asked" /\ deleting'[d].conv = deleting[d].conv
          /\ \A e \in Deletes : e # d => deleting'[e] = deleting[e]
        BY <1>3, AnswerDeleteEffect
    <2> QED BY <2>1 DEF DeletesNamed, Deleting
<1>4. ASSUME NEW d \in Deletes, Deleted(d) \/ DeleteFails(d) PROVE DeletesNamed'
    <2>1. /\ deleting'[d].step = "done"
          /\ \A e \in Deletes : e # d => deleting'[e] = deleting[e]
        BY <1>4, DeletedEffect, DeleteFailsEffect DEF DeletionOver
    <2> QED BY <2>1 DEF DeletesNamed, Deleting
<1>5. ASSUME NEW s \in Sends, Send(s) \/ Receive(s) \/ Break(s) \/ Serve(s)
      PROVE  UNCHANGED deleting
    <2>1. CASE Serve(s)
        BY <2>1 DEF Serve, Resolve, SaveQuestion, Stream, StoreAnswer, End, TabOnly
    <2> QED BY <1>5, <2>1 DEF Send, Receive, Break
<1>6. CASE Stop \/ NewChat \/ UNCHANGED clientVars
    BY <1>1, <1>6 DEF Stop, NewChat, clientVars
<1>7. ASSUME NEW l \in Loads, AnswerLoad(l) \/ Loaded(l) \/ \E c \in Known : Select(l, c)
      PROVE  UNCHANGED deleting
    BY <1>7 DEF AnswerLoad, Loaded, Select
<1> QED BY <1>1, <1>2, <1>3, <1>4, <1>5, <1>6, <1>7 DEF ClientNext

LEMMA ServedOnly ==
    ASSUME CallsInv, \A s \in gone : serving[s] = "over"
    PROVE  \A s \in Sends : Busy(s) => Active(s) /\ s \notin gone
BY DEF CallsInv, CallFits, Busy

\* What is calm for a conversation becomes no deletion that it has to do with.
LEMMA CalmGone ==
    ASSUME CallsInv, NEW c, Calm(c)
    PROVE  /\ \A s \in gone : serving[s] = "over"
           /\ \A s \in Sends : ~Active(s)
           /\ \A l \in Loads : ~Loading(l)
           /\ \A d \in Deletes : Deleting(d) =>
                 ~deleting[d].wasCurrent /\ deleting[d].conv # c
<1>1. \A s \in gone : s \in Sends /\ serving[s] # "idle"
    BY DEF CallsInv, CallFits, ClientTypeOK
<1>2. \A d \in Deletes : Deleting(d) => deleting[d].step \in {"asked", "answered"}
    BY DEF CallsInv, ClientTypeOK, Deleting
<1> QED BY <1>1, <1>2 DEF Calm, Loading

\* A deletion stays where it is while the tab stays where it is.
LEMMA NearKept ==
    ASSUME NEW d \in Deletes, deleting'[d] = deleting[d],
           \A s \in Sends : Active(s)' => Active(s) /\ sending'[s].conv = sending[s].conv,
           current' = current \/ \E s \in Sends : Active(s) /\ current' = Dest(s)
    PROVE  Near(d)' => Near(d)
<1> SUFFICES ASSUME Deleting(d), Elsewhere(d) PROVE Elsewhere(d)'
    BY DEF Near, Deleting
<1>1. deleting[d].conv # current' BY DEF Elsewhere
<1>2. \A s \in Sends : Active(s)' => deleting[d].conv # Dest(s)' BY DEF Elsewhere, Dest
<1> QED BY <1>1, <1>2 DEF Elsewhere

\* The turns of the current conversation; a new chat has none.
LEMMA StoredTyped ==
    ASSUME CallsInv, NEW c \in Ids \cup {None}
    PROVE  Stored(c) \in Seq(Turn) /\ Len(Stored(c)) \in Nat
<1>1. <<>> \in Seq(Turn) OBVIOUS
<1>2. c # None => log[c] \in Seq(Turn) BY DEF CallsInv, ClientTypeOK
<1>3. Stored(c) \in Seq(Turn) BY <1>1, <1>2 DEF Stored
<1> HIDE DEF Turn
<1> QED BY <1>3

\* A conversation that was loaded is shown.
LEMMA DisplayedShows ==
    ASSUME NEW turns \in Seq(Turn)
    PROVE  Shows(Displayed(turns), turns)
BY DisplayedTyped DEF Shows

\* What the property says of a view that shows the turns.
LEMMA ShowsIsDisplayed ==
    ASSUME NEW items \in Seq(Shown), NEW turns \in Seq(Turn), Shows(items, turns)
    PROVE  [i \in 1..Len(items) |-> [items[i] EXCEPT !.local = FALSE]] = Displayed(turns)
<1> DEFINE plain(m) == [m EXCEPT !.local = FALSE]
           item(t) == Item(t, IF t.role = "user" THEN "said" ELSE "answer", FALSE)
<1>1. ASSUME NEW m \in Shown, NEW t \in Turn, m.turn = t, m.text = Wanted(t)
      PROVE  plain(m) = item(t)
    <2> DEFINE p == plain(m)
               q == item(t)
    <2>1. p \in Shown /\ p.turn = m.turn /\ p.text = m.text /\ p.local = FALSE BY DEF Shown
    <2>2. q \in Shown /\ q.turn = t /\ q.text = Wanted(t) /\ q.local = FALSE
        BY DEF Shown, Item, Wanted
    <2> HIDE DEF p, q
    <2>3. p = q BY <1>1, <2>1, <2>2 DEF Shown
    <2> QED BY <2>3 DEF p, q
<1>2. \A i \in 1..Len(items) : items[i] \in Shown OBVIOUS
<1>3. \A i \in 1..Len(turns) : turns[i] \in Turn OBVIOUS
<1>4. /\ Len(items) = Len(turns)
      /\ \A i \in 1..Len(turns) : items[i].turn = turns[i] /\ items[i].text = Wanted(turns[i])
    BY DEF Shows
<1> HIDE DEF plain, item
<1>5. \A i \in 1..Len(items) : plain(items[i]) = item(turns[i])
    BY <1>1, <1>2, <1>3, <1>4
<1>6. [i \in 1..Len(items) |-> plain(items[i])] = [i \in 1..Len(turns) |-> item(turns[i])]
    BY <1>4, <1>5
<1> QED BY <1>6 DEF plain, item, Displayed

\* The user sends a message: two items that are not stored yet.
LEMMA ViewAfterSend ==
    ASSUME CallsInv, Undisturbed, NEW s \in Sends, Send(s), Calm(current)
    PROVE  Undisturbed'
<1>1. /\ sending[s].step = "idle" /\ sending'[s].step = "active" /\ sending'[s].conv = current
      /\ serving'[s] = "request"
      /\ \A t \in Sends : t # s => sending'[t] = sending[t] /\ serving'[t] = serving[t]
      /\ UNCHANGED <<current, loading, deleting, gone, where, wire, threads, log>>
    BY SendEffect DEF CallsInv
<1>2. /\ \A t \in gone : serving[t] = "over"
      /\ \A t \in Sends : ~Active(t)
      /\ \A l \in Loads : ~Loading(l)
      /\ \A d \in Deletes : Deleting(d) =>
            ~deleting[d].wasCurrent /\ deleting[d].conv # current
    BY CalmGone
<1>3. Shows(shown, Stored(current))
    <2>1. \A d \in Deletes : ~Near(d) BY <1>2 DEF Near, Elsewhere
    <2> QED BY <1>2, <2>1 DEF Undisturbed, AtRest
<1>4. \A t \in Sends : Active(t)' => t = s BY <1>1, <1>2 DEF Active
<1>5. \A l \in Loads : ~Loading(l)' BY <1>1, <1>2 DEF Loading
<1>6. \A d \in Deletes : ~Near(d)'
    <2> SUFFICES ASSUME NEW d \in Deletes, Deleting(d) PROVE Elsewhere(d)'
        BY <1>1 DEF Near, Deleting
    <2>1. deleting[d].conv # Dest(s)'
        <3>1. Unknown(Fresh[s]) BY <1>1 DEF CallsInv, CallFits, Resolved
        <3>2. deleting[d].conv # Fresh[s] BY <3>1 DEF Unknown
        <3> QED BY <1>1, <1>2, <3>2 DEF Dest
    <2> QED BY <1>1, <1>2, <1>4, <2>1 DEF Elsewhere
<1>7. (\A t \in gone : serving[t] = "over")'
    <2>1. s \notin gone BY <1>1 DEF CallsInv, CallFits
    <2> QED BY <1>1, <1>2, <2>1 DEF CallsInv, ClientTypeOK
<1>8. ~AtRest' BY <1>1 DEF AtRest, Active
<1>9. SendMode(s)'
    <2> DEFINE p == Item(Question(s), "said", TRUE)
               q == Item(Answer(s), "empty", TRUE)
               new == shown \o <<p, q>>
    <2>1. /\ p \in Shown /\ p.turn = Question(s) /\ p.text = "said"
          /\ q \in Shown /\ q.turn = Answer(s) /\ q.local = TRUE
        BY ItemsTyped DEF Item
    <2>2. shown \in Seq(Shown) BY DEF CallsInv, ClientTypeOK
    <2>3. shown' = new BY DEF Send
    <2> HIDE DEF p, q
    <2>4. /\ Len(shown) \in Nat /\ Len(new) = Len(shown) + 2
          /\ \A i \in 1..Len(shown) : new[i] = shown[i]
          /\ new[Len(shown) + 1] = p
          /\ new[Len(shown) + 2] = q
        BY <2>1, <2>2, TwoMore
    <2> HIDE DEF new
    <2>5. Len(new) - 1 = Len(shown) + 1 /\ Len(new) >= 2 BY <2>4
    <2>6. new[Len(new) - 1] = p /\ new[Len(new)] = q BY <2>4, <2>5
    <2>7. Local(s)'
        BY <2>1, <2>3, <2>5, <2>6 DEF Local, Question, Answer
    <2>8. Stored(Target(s))' = Stored(current)
        BY <1>1 DEF Stored, Target, Resolved
    <2>9. /\ Len(shown) = Len(Stored(current))
          /\ \A i \in 1..Len(Stored(current)) :
                /\ shown[i].turn = Stored(current)[i]
                /\ shown[i].text = Wanted(Stored(current)[i])
        BY <1>3 DEF Shows
    <2>10. Follows(new, Stored(current)) BY <2>4, <2>9 DEF Follows
    <2>11. SoFar(s)' = 0 BY <1>1 DEF SoFar
    <2>12. /\ Follows(shown, Stored(Target(s)))'
           /\ Len(Stored(Target(s))') = Len(shown') - 2 + SoFar(s)'
        BY <2>3, <2>4, <2>8, <2>9, <2>10, <2>11 DEF Follows, Wanted
    <2>13. SendFits(s)' BY <1>1, <2>12 DEF SendFits
    <2> QED BY <2>7, <2>13 DEF SendMode
<1>10. Alone' BY <1>4, <1>5, <1>6 DEF Alone
<1> QED BY <1>4, <1>5, <1>6, <1>7, <1>8, <1>9, <1>10 DEF Undisturbed

\* Lists of events that differ.
LEMMA NotEmpty ==
    /\ <<"token">> # <<>> /\ <<"end">> # <<>> /\ <<"token", "end">> # <<>>
OBVIOUS

LEMMA Starts ==
    /\ \A w \in {<<"start">>, <<"start", "token">>, <<"start", "token", "end">>} :
          w \notin {<<>>, <<"token">>, <<"token", "end">>, <<"end">>}
    /\ \A w \in {<<"start">>, <<"start", "token">>, <<"token">>} :
          w \notin {<<"limited">>, <<"start", "error">>, <<"error">>,
                    <<"start", "error", "end">>, <<"error", "end">>}
OBVIOUS

LEMMA Refusals ==
    <<>> \notin {<<"limited">>, <<"start", "error">>, <<"error">>,
                 <<"start", "error", "end">>, <<"error", "end">>}
OBVIOUS

\* While a message of an undisturbed tab is awaited nothing else is.
LEMMA AwaitedAlone ==
    ASSUME CallsInv, Undisturbed, NEW s \in Sends, Active(s)
    PROVE  /\ \A t \in Sends : Active(t) => t = s
           /\ \A l \in Loads : ~Loading(l)
           /\ \A d \in Deletes : ~Near(d)
           /\ SendMode(s)
           /\ s \notin gone /\ CallFits(s)
<1>1. \A t \in Sends : Active(t) => t = s BY OneActive
<1>2. CallFits(s) BY DEF CallsInv
<1> QED BY <1>1, <1>2 DEF Undisturbed, Alone, CallFits, Active

\* A step of a message that is awaited before and after it.
LEMMA ViewInSend ==
    ASSUME CallsInv, Undisturbed, NEW s \in Sends, Active(s),
           UNCHANGED <<sending, loading, deleting, gone>>,
           current' \in {current, Dest(s)},
           \A t \in gone : serving'[t] = serving[t],
           SendMode(s)'
    PROVE  Undisturbed'
<1>1. /\ \A t \in Sends : Active(t) => t = s
      /\ \A l \in Loads : ~Loading(l)
      /\ \A d \in Deletes : ~Near(d)
    BY AwaitedAlone
<1>2. /\ \A t \in Sends : Active(t)' <=> Active(t)
      /\ \A l \in Loads : ~Loading(l)'
    BY <1>1 DEF Active, Loading
<1>3. \A d \in Deletes : ~Near(d)' BY <1>1, <1>2, NearKept
<1>4. ~AtRest' BY <1>2 DEF AtRest
<1>5. Alone' BY <1>1, <1>2, <1>3 DEF Alone
<1>6. (\A t \in gone : serving[t] = "over")' BY DEF Undisturbed
<1>7. \A t \in Sends : Active(t)' => SendMode(t)' BY <1>1, <1>2
<1> QED BY <1>2, <1>3, <1>4, <1>5, <1>6, <1>7 DEF Undisturbed

\* The text of the last item is set, and of no other.
LEMMA LastText ==
    ASSUME CallsInv, TurnsInv, NEW s \in Sends, Local(s),
           NEW text \in {"said", "empty", "answer", "notice"}, SetText(s, text)
    PROVE  /\ Len(shown) \in Nat /\ Len(shown) >= 2 /\ Len(shown') = Len(shown)
           /\ \A i \in 1..Len(shown) : shown'[i].turn = shown[i].turn /\ shown'[i].local = shown[i].local
           /\ \A i \in 1..Len(shown) : i # Len(shown) => shown'[i].text = shown[i].text
           /\ shown'[Len(shown)].text = text
<1>1. shown \in Seq(Shown) /\ Len(shown) \in Nat /\ Len(shown) >= 2
    BY DEF CallsInv, ClientTypeOK, Local
<1>2. /\ Len(shown') = Len(shown)
      /\ \A i \in 1..Len(shown) :
            /\ shown'[i].turn = shown[i].turn /\ shown'[i].local = shown[i].local
            /\ shown'[i].text = IF shown[i].local /\ shown[i].turn = Answer(s)
                                THEN text ELSE shown[i].text
    BY SetTextTyped DEF CallsInv
<1>3. Len(shown) \in 1..Len(shown) BY <1>1
<1>4. \A i \in 1..Len(shown) : shown[i].turn = Answer(s) => i = Len(shown)
    BY <1>3 DEF TurnsInv, ShownOnce, Local
<1> QED BY <1>1, <1>2, <1>3, <1>4 DEF Local

\* What is left to read, when it begins with the start.
LEMMA UnreadStarts ==
    ASSUME CallsInv, NEW s \in Sends, UnreadFits(s), wire[s] # <<>>, Head(wire[s]) = "start"
    PROVE  \/ wire[s] = <<"start">> /\ serving[s] = "stream" /\ Tail(wire[s]) = <<>>
           \/ /\ wire[s] = <<"start", "token">> /\ serving[s] \in {"answer", "end"}
              /\ Tail(wire[s]) = <<"token">>
           \/ /\ wire[s] = <<"start", "token", "end">> /\ serving[s] = "over"
              /\ Tail(wire[s]) = <<"token", "end">>
           \/ Refused(s) /\ Tail(wire[s]) \in {<<"error">>, <<"error", "end">>}
                         /\ serving[s] \in {"end", "over"}
<1>1. serving[s] \in {"idle", "request", "question", "stream", "answer", "end", "over"}
    BY DEF CallsInv, ClientTypeOK
<1>2. serving[s] \notin {"idle", "request", "question"} BY DEF UnreadFits
<1>3. wire[s] \in {<<"start">>, <<"start", "token">>, <<"start", "error">>,
                   <<"start", "token", "end">>, <<"start", "error", "end">>}
    <2>1. CASE serving[s] = "stream" BY <2>1, Tails DEF UnreadFits
    <2>2. CASE serving[s] = "answer" BY <2>2, Tails DEF UnreadFits
    <2>3. CASE serving[s] = "end" BY <2>3, Tails DEF UnreadFits
    <2>4. CASE serving[s] = "over" BY <2>4, Tails DEF UnreadFits
    <2> QED BY <1>1, <1>2, <2>1, <2>2, <2>3, <2>4
<1>4. CASE wire[s] = <<"start">>
    BY <1>1, <1>2, <1>4, Tails DEF UnreadFits
<1>5. CASE wire[s] = <<"start", "token">>
    BY <1>1, <1>2, <1>5, Tails DEF UnreadFits
<1>6. CASE wire[s] = <<"start", "token", "end">>
    BY <1>1, <1>2, <1>6, Tails DEF UnreadFits
<1>7. CASE wire[s] \in {<<"start", "error">>, <<"start", "error", "end">>}
    BY <1>1, <1>2, <1>7, Tails DEF UnreadFits, Refused
<1> QED BY <1>3, <1>4, <1>5, <1>6, <1>7

\* The same, when it begins with a token, or with the end.
LEMMA UnreadTokens ==
    ASSUME CallsInv, NEW s \in Sends, UnreadFits(s), wire[s] # <<>>, Head(wire[s]) = "token"
    PROVE  \/ /\ wire[s] = <<"token">> /\ serving[s] \in {"answer", "end"}
              /\ Tail(wire[s]) = <<>>
           \/ /\ wire[s] = <<"token", "end">> /\ serving[s] = "over"
              /\ Tail(wire[s]) = <<"end">>
<1>1. serving[s] \in {"idle", "request", "question", "stream", "answer", "end", "over"}
    BY DEF CallsInv, ClientTypeOK
<1>2. serving[s] \notin {"idle", "request", "question"} BY DEF UnreadFits
<1>3. wire[s] \in {<<"token">>, <<"token", "end">>}
    <2>1. CASE serving[s] = "stream" BY <2>1, Tails DEF UnreadFits
    <2>2. CASE serving[s] = "answer" BY <2>2, Tails DEF UnreadFits
    <2>3. CASE serving[s] = "end" BY <2>3, Tails DEF UnreadFits
    <2>4. CASE serving[s] = "over" BY <2>4, Tails DEF UnreadFits
    <2> QED BY <1>1, <1>2, <2>1, <2>2, <2>3, <2>4
<1>4. CASE wire[s] = <<"token">>
    BY <1>1, <1>2, <1>4, Tails DEF UnreadFits
<1>5. CASE wire[s] = <<"token", "end">>
    BY <1>1, <1>2, <1>5, Tails DEF UnreadFits
<1> QED BY <1>3, <1>4, <1>5

LEMMA UnreadEnds ==
    ASSUME CallsInv, NEW s \in Sends, UnreadFits(s), wire[s] # <<>>, Head(wire[s]) = "end"
    PROVE  wire[s] = <<"end">> /\ serving[s] = "over"
<1>1. serving[s] \in {"idle", "request", "question", "stream", "answer", "end", "over"}
    BY DEF CallsInv, ClientTypeOK
<1>2. serving[s] \notin {"idle", "request", "question"} BY DEF UnreadFits
<1>3. CASE serving[s] = "stream" BY <1>3, Tails DEF UnreadFits
<1>4. CASE serving[s] = "answer" BY <1>4, Tails DEF UnreadFits
<1>5. CASE serving[s] = "end" BY <1>5, Tails DEF UnreadFits
<1>6. CASE serving[s] = "over" BY <1>6, Tails DEF UnreadFits
<1> QED BY <1>1, <1>2, <1>3, <1>4, <1>5, <1>6

\* The tab reads the start: it adopts the conversation of the message.
LEMMA ViewAfterStart ==
    ASSUME CallsInv, Undisturbed, NEW s \in Sends, Receive(s), Head(wire[s]) = "start"
    PROVE  Undisturbed'
<1>1. /\ Active(s) /\ wire[s] # <<>> /\ wire'[s] = Tail(wire[s])
      /\ UNCHANGED <<loading, deleting, gone, serving, where, threads, log>>
    BY ReceiveEffect DEF CallsInv
<1>2. Adopt(s) /\ UNCHANGED <<shown, sending>> BY DEF Receive
<1>3. SendMode(s) /\ CallFits(s) BY <1>1, AwaitedAlone
<1>4. UnreadFits(s) BY <1>3 DEF CallFits
<1>5. serving[s] \in {"stream", "answer", "end", "over"} BY <1>1, <1>4, UnreadStarts
<1>9. current' \in {current, Dest(s)}
    BY <1>2, <1>3, <1>5 DEF Adopt, CallFits, Resolved, Dest
<1>6. Local(s)' BY <1>2, <1>3 DEF SendMode, Local
<1>7. CASE Refused(s)
    <2>1. wire'[s] \in {<<"error">>, <<"error", "end">>}
        BY <1>1, <1>4, <1>7, UnreadStarts DEF Refused
    <2>2. Refused(s)' BY <2>1 DEF Refused
    <2> QED BY <1>1, <1>2, <1>6, <1>9, <2>2, ViewInSend DEF SendMode
<1>8. CASE ~Refused(s)
    <2>1. SendFits(s) BY <1>3, <1>8 DEF SendMode
    <2>2. \/ wire[s] = <<"start">> /\ serving[s] = "stream" /\ wire'[s] = <<>>
          \/ /\ wire[s] = <<"start", "token">> /\ serving[s] \in {"answer", "end"}
             /\ wire'[s] = <<"token">>
          \/ /\ wire[s] = <<"start", "token", "end">> /\ serving[s] = "over"
             /\ wire'[s] = <<"token", "end">>
        BY <1>1, <1>4, <1>8, UnreadStarts
    <2>3. Resolved(s) BY <1>5 DEF Resolved
    <2>4. current = sending[s].conv BY <2>1, <2>2 DEF SendFits, NoStart
    <2>5. where[s] = IF sending[s].conv = None THEN Fresh[s] ELSE sending[s].conv
        BY <1>3, <2>3 DEF CallFits
    <2>6. current' = where[s] BY <1>2, <2>4, <2>5 DEF Adopt
    <2>7. /\ wire'[s] \in NoStart \cup {<<>>}
          /\ serving[s] = "over" => wire'[s] # <<>>
        BY <2>2, NotEmpty DEF NoStart
    <2>8. serving[s] \in {"answer", "end", "over"} => wire'[s] \notin NoToken
        BY <2>2 DEF NoToken
    <2>9. /\ Target(s)' = Target(s) /\ SoFar(s)' = SoFar(s)
          /\ Stored(Target(s))' = Stored(Target(s))
        BY <1>1, <1>2 DEF Target, SoFar, Stored, Resolved
    <2>10. /\ Follows(shown, Stored(Target(s)))'
           /\ (Len(Stored(Target(s))) = Len(shown) - 2 + SoFar(s))'
        BY <1>2, <2>1, <2>9 DEF SendFits, Follows, Wanted
    <2>11. SendFits(s)'
        BY <1>1, <1>5, <2>6, <2>7, <2>8, <2>10 DEF SendFits, NoStart, NoToken
    <2> QED BY <1>1, <1>2, <1>6, <1>9, <2>11, ViewInSend DEF SendMode
<1> QED BY <1>7, <1>8

\* The tab reads the answer: the text is that of the turn that is stored, or
\* will be.
LEMMA ViewAfterToken ==
    ASSUME CallsInv, TurnsInv, Undisturbed, NEW s \in Sends, Receive(s), Head(wire[s]) = "token"
    PROVE  Undisturbed'
<1>1. /\ Active(s) /\ wire[s] # <<>> /\ wire'[s] = Tail(wire[s])
      /\ UNCHANGED <<loading, deleting, gone, serving, where, threads, log>>
    BY ReceiveEffect DEF CallsInv
<1>2. SetText(s, "answer") /\ UNCHANGED <<current, sending>> BY DEF Receive
<1>3. SendMode(s) /\ CallFits(s) BY <1>1, AwaitedAlone
<1>4. UnreadFits(s) BY <1>3 DEF CallFits
<1>5. \/ /\ wire[s] = <<"token">> /\ serving[s] \in {"answer", "end"} /\ wire'[s] = <<>>
      \/ /\ wire[s] = <<"token", "end">> /\ serving[s] = "over" /\ wire'[s] = <<"end">>
    BY <1>1, <1>4, UnreadTokens
<1>6. ~Refused(s) BY <1>5 DEF Refused
<1>7. SendFits(s) /\ Local(s) BY <1>3, <1>6 DEF SendMode
<1>8. /\ Len(shown) \in Nat /\ Len(shown) >= 2 /\ Len(shown') = Len(shown)
      /\ \A i \in 1..Len(shown) : shown'[i].turn = shown[i].turn /\ shown'[i].local = shown[i].local
      /\ \A i \in 1..Len(shown) : i # Len(shown) => shown'[i].text = shown[i].text
      /\ shown'[Len(shown)].text = "answer"
    BY <1>2, <1>7, LastText
<1>9. Len(shown) - 1 \in 1..Len(shown) /\ Len(shown) \in 1..Len(shown)
      /\ Len(shown) - 1 # Len(shown)
    BY <1>8
<1>10. Local(s)' BY <1>7, <1>8, <1>9 DEF Local, Question, Answer
<1>11. /\ Target(s)' = Target(s) /\ SoFar(s)' = SoFar(s)
       /\ Stored(Target(s))' = Stored(Target(s))
    BY <1>1, <1>2 DEF Target, SoFar, Stored, Resolved
<1>12. Follows(shown, Stored(Target(s)))'
    <2> DEFINE turns == Stored(Target(s))
    <2>1. /\ Len(turns) <= Len(shown)
          /\ \A i \in 1..Len(turns) : /\ shown[i].turn = turns[i]
                                      /\ i < Len(shown) => shown[i].text = Wanted(turns[i])
        BY <1>7 DEF SendFits, Follows
    <2>2. Len(turns) \in Nat
        <3>1. Target(s) \in Ids \cup {None} BY DEF Target, CallsInv, ClientTypeOK
        <3> QED BY <3>1, StoredTyped
    <2> HIDE DEF turns
    <2>3. /\ Len(turns) <= Len(shown')
          /\ \A i \in 1..Len(turns) : /\ shown'[i].turn = turns[i]
                                      /\ i < Len(shown') => shown'[i].text = Wanted(turns[i])
        <3>1. \A i \in 1..Len(turns) : i \in 1..Len(shown) BY <1>8, <2>1, <2>2
        <3> QED BY <1>8, <2>1, <3>1
    <2> QED BY <1>11, <2>3 DEF Follows, turns, Wanted
<1>13. (Len(Stored(Target(s))) = Len(shown) - 2 + SoFar(s))'
    BY <1>7, <1>8, <1>11 DEF SendFits
<1>14. current' = where[s]
    BY <1>2, <1>5, <1>7 DEF SendFits, NoStart
<1>15. /\ wire'[s] \in NoStart \cup {<<>>}
       /\ serving[s] = "over" => wire'[s] # <<>>
    BY <1>5, NotEmpty DEF NoStart
<1>16. serving[s] \in {"stream", "answer", "end", "over"} BY <1>5
<1>17. SendFits(s)'
    BY <1>1, <1>8, <1>12, <1>13, <1>14, <1>15, <1>16 DEF SendFits, NoStart, NoToken
<1> QED BY <1>1, <1>2, <1>10, <1>17, ViewInSend DEF SendMode

\* The messages that follow the turns, all of them read, show them.
LEMMA AllRead ==
    ASSUME CallsInv, NEW s \in Sends, NEW turns \in Seq(Turn), Local(s), Follows(shown, turns),
           Len(turns) = Len(shown), shown[Len(shown)].text = "answer"
    PROVE  Shows(shown, turns)
<1>1. Len(shown) \in Nat /\ Len(shown) >= 2 BY DEF CallsInv, ClientTypeOK, Local
<1>2. \A i \in 1..Len(turns) : /\ shown[i].turn = turns[i]
                               /\ i < Len(shown) => shown[i].text = Wanted(turns[i])
    BY DEF Follows
<1>3. Len(shown) \in 1..Len(turns) BY <1>1
<1>4. turns[Len(shown)] = Answer(s) BY <1>2, <1>3 DEF Local
<1>5. Wanted(turns[Len(shown)]) = "answer" BY <1>4 DEF Wanted, Answer
<1>6. \A i \in 1..Len(turns) : i < Len(shown) \/ i = Len(shown) BY <1>1
<1> QED BY <1>2, <1>5, <1>6 DEF Shows

\* The tab reads the end: all is stored and all is read.
LEMMA ViewAfterEnd ==
    ASSUME CallsInv, Undisturbed, NEW s \in Sends, Receive(s), Head(wire[s]) = "end"
    PROVE  Undisturbed'
<1>1. /\ Active(s) /\ wire[s] # <<>>
      /\ \A t \in Sends : t # s => sending'[t] = sending[t]
      /\ UNCHANGED <<loading, deleting, gone, serving, where, threads, log>>
    BY ReceiveEffect DEF CallsInv
<1>2. UNCHANGED <<current, shown>> /\ sending'[s].step = "ended"
    BY ReceiveEffect DEF Receive, CallsInv
<1>3. /\ SendMode(s) /\ CallFits(s)
      /\ \A t \in Sends : Active(t) => t = s
      /\ \A l \in Loads : ~Loading(l)
      /\ \A d \in Deletes : ~Near(d)
    BY <1>1, AwaitedAlone
<1>4. wire[s] = <<"end">> /\ serving[s] = "over" BY <1>1, <1>3, UnreadEnds DEF CallFits
<1>5. ~Refused(s) BY <1>4 DEF Refused
<1>6. SendFits(s) /\ Local(s) BY <1>3, <1>5 DEF SendMode
<1>7. current = where[s] /\ shown[Len(shown)].text = "answer"
    BY <1>4, <1>6 DEF SendFits, NoStart, NoToken
<1>8. Target(s) = current /\ SoFar(s) = 2 BY <1>4, <1>7 DEF Target, SoFar, Resolved
<1>9. /\ Follows(shown, Stored(current))
      /\ Len(Stored(current)) = Len(shown)
    <2>1. Len(shown) \in Nat BY DEF CallsInv, ClientTypeOK
    <2> QED BY <1>6, <1>8, <2>1 DEF SendFits
<1>10. Stored(current) \in Seq(Turn) BY StoredTyped DEF CallsInv, ClientTypeOK
<1>11. Shows(shown, Stored(current)) BY <1>6, <1>7, <1>9, <1>10, AllRead
<1>12. Shows(shown, Stored(current))' BY <1>1, <1>2, <1>11 DEF Shows, Stored, Wanted
<1>13. /\ \A t \in Sends : ~Active(t)'
       /\ \A l \in Loads : ~Loading(l)'
       /\ \A d \in Deletes : ~Near(d)'
    <2>1. \A t \in Sends : ~Active(t)' BY <1>1, <1>2, <1>3 DEF Active
    <2> QED BY <1>1, <1>2, <1>3, <2>1, NearKept DEF Loading
<1>14. (\A t \in gone : serving[t] = "over")' BY <1>1 DEF Undisturbed
<1>15. Alone' BY <1>13 DEF Alone
<1> QED BY <1>12, <1>13, <1>14, <1>15 DEF Undisturbed

\* Any other event disturbs the tab.
LEMMA ViewAfterReceive ==
    ASSUME CallsInv, TurnsInv, ~disturbed => Undisturbed, NEW s \in Sends, Receive(s), ~disturbed'
    PROVE  Undisturbed'
<1>1. Head(wire[s]) \in {"start", "token", "end"} /\ disturbed' = disturbed
    BY DEF Receive
<1> QED BY <1>1, ViewAfterStart, ViewAfterToken, ViewAfterEnd

\* A handler's step with nobody waiting for its answer: there is none.
LEMMA ServedIsAwaited ==
    ASSUME CallsInv, Undisturbed, NEW s \in Sends, serving[s] \notin {"idle", "over"}
    PROVE  /\ Active(s) /\ s \notin gone /\ SendMode(s) /\ CallFits(s)
           /\ \A t \in gone : t # s
<1>1. Active(s) /\ s \notin gone BY ServedOnly DEF Undisturbed, Busy
<1> QED BY <1>1, AwaitedAlone

\* The mode of a message is that of the message alone.
LEMMA LocalKept ==
    ASSUME NEW s \in Sends, Local(s), UNCHANGED shown
    PROVE  Local(s)'
BY DEF Local

\* Nothing else is needed for a step of its handler.
LEMMA ViewInStep ==
    ASSUME CallsInv, Undisturbed, NEW s \in Sends, NEW from, NEW to,
           ServeStep(s, from, to), from \notin {"idle", "over"},
           NEW x \in {"idle", "request", "question", "stream", "answer", "end", "over"}, to = x,
           Refused(s)' \/ SendFits(s)'
    PROVE  Undisturbed'
<1>1. /\ serving[s] = from
      /\ \A t \in Sends : t # s => serving'[t] = serving[t]
      /\ UNCHANGED <<current, shown, sending, loading, deleting, gone>>
    BY ServeStepEffect DEF CallsInv
<1>2. Active(s) /\ s \notin gone /\ Local(s) BY <1>1, ServedIsAwaited DEF SendMode
<1>3. \A t \in gone : serving'[t] = serving[t]
    BY <1>1, <1>2 DEF CallsInv, ClientTypeOK
<1>4. SendMode(s)' BY <1>1, <1>2, LocalKept DEF SendMode
<1> QED BY <1>1, <1>2, <1>3, <1>4, ViewInSend

\* The handler finds or makes the conversation, or refuses the message.
LEMMA ViewAfterResolve ==
    ASSUME CallsInv, Undisturbed, NEW s \in Sends, Resolve(s)
    PROVE  Undisturbed'
<1>1. /\ where'[s] = IF sending[s].conv = None THEN Fresh[s] ELSE sending[s].conv
      /\ \/ ServeStep(s, "request", "question") /\ wire'[s] = wire[s]
         \/ /\ ServeStep(s, "request", "over")
            /\ s \notin gone => wire'[s] = Append(wire[s], "limited")
      /\ log' = log
    BY ResolveEffect
<1>2. serving[s] = "request" BY DEF Resolve
<1>3. s \notin gone /\ SendMode(s) /\ CallFits(s) BY <1>2, ServedIsAwaited
<1>4. wire[s] = <<>> BY <1>2, <1>3 DEF CallFits, UnreadFits
<1>5. SendFits(s)
    BY <1>3, <1>4, NotEmpty, Refusals DEF SendMode, Refused
<1>6. CASE ServeStep(s, "request", "question") /\ wire'[s] = wire[s]
    <2>1. /\ serving'[s] = "question"
          /\ UNCHANGED <<current, shown, sending>>
        BY <1>6, ServeStepEffect DEF CallsInv
    <2>2. Stored(Target(s))' = Stored(Target(s))
        <3>1. Target(s) = sending[s].conv /\ Target(s)' = where'[s]
            BY <1>2, <2>1 DEF Target, Resolved
        <3>2. CASE sending[s].conv = None
            <4>1. Unknown(Fresh[s]) BY <1>2 DEF CallsInv, Resolved
            <4>2. log[Fresh[s]] = <<>> BY <4>1 DEF Unknown
            <4>3. Fresh[s] # None BY IdsKnown
            <4> QED BY <1>1, <3>1, <3>2, <4>2, <4>3 DEF Stored
        <3>3. CASE sending[s].conv # None
            BY <1>1, <3>1, <3>3 DEF Stored
        <3> QED BY <3>2, <3>3
    <2>3. SoFar(s)' = SoFar(s) BY <1>2, <2>1 DEF SoFar
    <2>4. /\ Follows(shown, Stored(Target(s)))'
          /\ (Len(Stored(Target(s))) = Len(shown) - 2 + SoFar(s))'
        BY <1>5, <2>1, <2>2, <2>3 DEF SendFits, Follows, Wanted
    <2>5. current' = sending'[s].conv BY <1>2, <1>5, <2>1 DEF SendFits
    <2>6. SendFits(s)' BY <2>1, <2>4, <2>5 DEF SendFits
    <2> QED BY <1>6, <2>6, ViewInStep
<1>7. CASE ServeStep(s, "request", "over") /\ wire'[s] = Append(wire[s], "limited")
    <2>1. wire'[s] = <<"limited">> BY <1>4, <1>7, Writes
    <2>2. Refused(s)' BY <2>1 DEF Refused
    <2> QED BY <1>7, <2>2, ViewInStep
<1> QED BY <1>1, <1>3, <1>6, <1>7

\* The conversation gains a turn that the tab shows already.
LEMMA FollowsOn ==
    ASSUME CallsInv, NEW s \in Sends, Local(s), NEW turns \in Seq(Turn), NEW t \in Turn,
           Follows(shown, turns),
           \/ Len(turns) = Len(shown) - 2 /\ t = Question(s)
           \/ Len(turns) = Len(shown) - 1 /\ t = Answer(s)
    PROVE  Follows(shown, Append(turns, t))
<1> DEFINE new == Append(turns, t)
<1>1. Len(shown) \in Nat /\ Len(shown) >= 2 BY DEF CallsInv, ClientTypeOK, Local
<1>2. /\ Len(turns) \in Nat /\ Len(new) = Len(turns) + 1
      /\ new[Len(turns) + 1] = t
      /\ \A i \in 1..Len(turns) : new[i] = turns[i]
    BY TurnAppended
<1>3. \A i \in 1..Len(turns) : /\ shown[i].turn = turns[i]
                               /\ i < Len(shown) => shown[i].text = Wanted(turns[i])
    BY DEF Follows
<1>4. /\ shown[Len(turns) + 1].turn = t
      /\ Len(turns) + 1 < Len(shown) => shown[Len(turns) + 1].text = Wanted(t)
    <2>1. CASE Len(turns) = Len(shown) - 2 /\ t = Question(s)
        <3>1. Len(turns) + 1 = Len(shown) - 1 BY <1>1, <1>2, <2>1
        <3> QED BY <2>1, <3>1 DEF Local, Wanted, Question
    <2>2. CASE Len(turns) = Len(shown) - 1 /\ t = Answer(s)
        <3>1. Len(turns) + 1 = Len(shown) BY <1>1, <1>2, <2>2
        <3> QED BY <1>1, <2>2, <3>1 DEF Local
    <2> QED BY <2>1, <2>2
<1> HIDE DEF new
<1>5. Len(new) <= Len(shown) BY <1>1, <1>2
<1>6. \A i \in 1..Len(new) : /\ shown[i].turn = new[i]
                             /\ i < Len(shown) => shown[i].text = Wanted(new[i])
    <2> SUFFICES ASSUME NEW i \in 1..Len(new)
                 PROVE  /\ shown[i].turn = new[i]
                        /\ i < Len(shown) => shown[i].text = Wanted(new[i])
        OBVIOUS
    <2>1. CASE i \in 1..Len(turns)
        <3>1. new[i] = turns[i] BY <1>2, <2>1
        <3> QED BY <1>3, <2>1, <3>1
    <2>2. CASE i = Len(turns) + 1
        <3>1. new[i] = t BY <1>2, <2>2
        <3> QED BY <1>4, <2>2, <3>1
    <2> QED BY <1>2, <2>1, <2>2
<1> QED BY <1>5, <1>6 DEF Follows, new

\* The handler saves the question and writes the start.
LEMMA ViewAfterSaveQuestion ==
    ASSUME CallsInv, Undisturbed, NEW s \in Sends, SaveQuestion(s)
    PROVE  Undisturbed'
<1>1. /\ where[s] \in Ids /\ ServeStep(s, "question", "stream")
      /\ log'[where[s]] = Append(log[where[s]], Question(s))
      /\ s \notin gone => wire'[s] = Append(wire[s], "start")
      /\ where' = where
    BY SaveQuestionEffect
<1>2. serving[s] = "question" BY DEF SaveQuestion
<1>3. s \notin gone /\ SendMode(s) /\ CallFits(s) BY <1>2, ServedIsAwaited
<1>4. wire[s] = <<>> BY <1>2, <1>3 DEF CallFits, UnreadFits
<1>5. SendFits(s) /\ Local(s)
    BY <1>3, <1>4, Refusals DEF SendMode, Refused
<1>6. serving'[s] = "stream" /\ UNCHANGED <<current, shown, sending>>
    BY <1>1, ServeStepEffect DEF CallsInv
<1>7. wire'[s] = <<"start">> BY <1>1, <1>3, <1>4, Writes
<1>8. where[s] # None BY <1>1, IdsKnown
<1>9. Target(s) = where[s] /\ Target(s)' = where[s] BY <1>1, <1>2, <1>6 DEF Target, Resolved
<1> DEFINE turns == log[where[s]]
           new == Append(turns, Question(s))
<1>10. Stored(Target(s)) = turns /\ Stored(Target(s))' = new BY <1>1, <1>8, <1>9 DEF Stored
<1>11. SoFar(s) = 0 /\ SoFar(s)' = 1 BY <1>2, <1>6 DEF SoFar
<1>12. turns \in Seq(Turn) BY <1>1 DEF CallsInv, ClientTypeOK
<1>13. Follows(shown, turns) /\ Len(turns) = Len(shown) - 2 + 0
    BY <1>5, <1>10, <1>11 DEF SendFits
<1>14. Len(shown) \in Nat BY DEF CallsInv, ClientTypeOK
<1>15. Question(s) \in Turn BY ItemsTyped
<1> HIDE DEF turns
<1>16. Follows(shown, new) BY <1>5, <1>12, <1>13, <1>14, <1>15, FollowsOn
<1>17. Len(new) = Len(shown) - 2 + 1
    <2>1. Len(turns) \in Nat /\ Len(new) = Len(turns) + 1 BY <1>12, <1>15, TurnAppended
    <2> HIDE DEF new
    <2> QED BY <1>13, <1>14, <2>1
<1> HIDE DEF new
<1>18. /\ Follows(shown, Stored(Target(s)))'
       /\ (Len(Stored(Target(s))) = Len(shown) - 2 + SoFar(s))'
    BY <1>6, <1>10, <1>11, <1>16, <1>17 DEF Follows, Wanted
<1>19. current' = sending'[s].conv BY <1>2, <1>5, <1>6 DEF SendFits
<1>20. wire'[s] \notin NoStart \cup {<<>>} BY <1>7, Starts DEF NoStart
<1>21. SendFits(s)' BY <1>6, <1>18, <1>19, <1>20 DEF SendFits, NoStart
<1> QED BY <1>1, <1>21, ViewInStep

\* The handler saves the answer.
LEMMA ViewAfterStoreAnswer ==
    ASSUME CallsInv, Undisturbed, NEW s \in Sends, StoreAnswer(s)
    PROVE  Undisturbed'
<1>1. /\ where[s] \in Ids /\ ServeStep(s, "answer", "end")
      /\ log'[where[s]] = Append(log[where[s]], Answer(s))
      /\ UNCHANGED <<where, wire>>
    BY StoreAnswerEffect
<1>2. serving[s] = "answer" BY DEF StoreAnswer
<1>3. s \notin gone /\ SendMode(s) /\ CallFits(s) BY <1>2, ServedIsAwaited
<1>4. wire[s] \in {<<"start", "token">>, <<"token">>, <<>>} BY <1>2, <1>3 DEF CallFits, UnreadFits
<1>5. SendFits(s) /\ Local(s)
    BY <1>3, <1>4, Refusals DEF SendMode, Refused
<1>6. serving'[s] = "end" /\ UNCHANGED <<current, shown, sending>>
    BY <1>1, ServeStepEffect DEF CallsInv
<1>7. where[s] # None BY <1>1, IdsKnown
<1>8. Target(s) = where[s] /\ Target(s)' = where[s] BY <1>1, <1>2, <1>6 DEF Target, Resolved
<1> DEFINE turns == log[where[s]]
           new == Append(turns, Answer(s))
<1>9. Stored(Target(s)) = turns /\ Stored(Target(s))' = new BY <1>1, <1>7, <1>8 DEF Stored
<1>10. SoFar(s) = 1 /\ SoFar(s)' = 2 BY <1>2, <1>6 DEF SoFar
<1>11. turns \in Seq(Turn) BY <1>1 DEF CallsInv, ClientTypeOK
<1>12. Follows(shown, turns) /\ Len(turns) = Len(shown) - 2 + 1
    BY <1>5, <1>9, <1>10 DEF SendFits
<1>13. Len(shown) \in Nat BY DEF CallsInv, ClientTypeOK
<1>14. Answer(s) \in Turn BY ItemsTyped
<1> HIDE DEF turns
<1>15. Follows(shown, new) BY <1>5, <1>11, <1>12, <1>13, <1>14, FollowsOn
<1>16. Len(new) = Len(shown) - 2 + 2
    <2>1. Len(turns) \in Nat /\ Len(new) = Len(turns) + 1 BY <1>11, <1>14, TurnAppended
    <2> HIDE DEF new
    <2> QED BY <1>12, <1>13, <2>1
<1> HIDE DEF new
<1>17. /\ Follows(shown, Stored(Target(s)))'
       /\ (Len(Stored(Target(s))) = Len(shown) - 2 + SoFar(s))'
    BY <1>6, <1>9, <1>10, <1>15, <1>16 DEF Follows, Wanted
<1>18. SendFits(s)' BY <1>1, <1>2, <1>5, <1>6, <1>17 DEF SendFits, NoStart, NoToken
<1> QED BY <1>1, <1>18, ViewInStep

\* The handler writes the answer, or that it failed.
LEMMA ViewAfterStream ==
    ASSUME CallsInv, Undisturbed, NEW s \in Sends, Stream(s)
    PROVE  Undisturbed'
<1>1. /\ \/ /\ ServeStep(s, "stream", "answer")
            /\ s \notin gone => wire'[s] = Append(wire[s], "token")
         \/ /\ ServeStep(s, "stream", "end")
            /\ s \notin gone => wire'[s] = Append(wire[s], "error")
      /\ UNCHANGED <<where, log>>
    BY StreamEffect
<1>2. serving[s] = "stream" BY DEF Stream
<1>3. s \notin gone /\ SendMode(s) /\ CallFits(s) BY <1>2, ServedIsAwaited
<1>4. wire[s] \in {<<"start">>, <<>>} BY <1>2, <1>3 DEF CallFits, UnreadFits
<1>5. SendFits(s)
    BY <1>3, <1>4, Refusals, Starts DEF SendMode, Refused
<1>6. CASE ServeStep(s, "stream", "answer") /\ wire'[s] = Append(wire[s], "token")
    <2>1. serving'[s] = "answer" /\ UNCHANGED <<current, shown, sending>>
        BY <1>6, ServeStepEffect DEF CallsInv
    <2>2. \/ wire[s] = <<"start">> /\ wire'[s] = <<"start", "token">>
          \/ wire[s] = <<>> /\ wire'[s] = <<"token">>
        BY <1>4, <1>6, Writes
    <2>3. /\ SoFar(s)' = SoFar(s) /\ Target(s)' = Target(s)
          /\ Stored(Target(s))' = Stored(Target(s))
        BY <1>1, <1>2, <2>1 DEF SoFar, Target, Stored, Resolved
    <2>4. /\ Follows(shown, Stored(Target(s)))'
          /\ (Len(Stored(Target(s))) = Len(shown) - 2 + SoFar(s))'
        BY <1>5, <2>1, <2>3 DEF SendFits, Follows, Wanted
    <2>5. wire'[s] \in NoStart \cup {<<>>} <=> wire[s] \in NoStart \cup {<<>>}
        BY <2>2, Starts DEF NoStart
    <2>6. wire'[s] \notin NoToken BY <2>2, Starts, NotEmpty DEF NoToken
    <2>7. SendFits(s)' BY <1>1, <1>2, <1>5, <2>1, <2>4, <2>5, <2>6 DEF SendFits, NoStart, NoToken
    <2> QED BY <1>6, <2>7, ViewInStep
<1>7. CASE ServeStep(s, "stream", "end") /\ wire'[s] = Append(wire[s], "error")
    <2>1. wire'[s] \in {<<"error">>, <<"start", "error">>} BY <1>4, <1>7, Writes
    <2>2. Refused(s)' BY <2>1 DEF Refused
    <2> QED BY <1>7, <2>2, ViewInStep
<1> QED BY <1>1, <1>3, <1>6, <1>7

\* The handler writes the end.
LEMMA ViewAfterClose ==
    ASSUME CallsInv, Undisturbed, NEW s \in Sends, End(s)
    PROVE  Undisturbed'
<1>1. /\ ServeStep(s, "end", "over")
      /\ s \notin gone => wire'[s] = Append(wire[s], "end")
      /\ UNCHANGED <<where, log>>
    BY EndEffect
<1>2. serving[s] = "end" BY DEF End
<1>3. s \notin gone /\ SendMode(s) /\ CallFits(s) BY <1>2, ServedIsAwaited
<1>4. wire[s] \in {<<"start", "token">>, <<"token">>, <<"start", "error">>, <<"error">>, <<>>}
    BY <1>2, <1>3 DEF CallFits, UnreadFits
<1>5. wire'[s] = Append(wire[s], "end") BY <1>1, <1>3
<1>6. CASE wire[s] \in {<<"start", "error">>, <<"error">>}
    <2>1. wire'[s] \in {<<"start", "error", "end">>, <<"error", "end">>} BY <1>5, <1>6, Writes
    <2>2. Refused(s)' BY <2>1 DEF Refused
    <2> QED BY <1>1, <2>2, ViewInStep
<1>7. CASE wire[s] \in {<<"start", "token">>, <<"token">>, <<>>}
    <2>1. SendFits(s) BY <1>3, <1>7, Refusals, Starts DEF SendMode, Refused
    <2>2. serving'[s] = "over" /\ UNCHANGED <<current, shown, sending>>
        BY <1>1, ServeStepEffect DEF CallsInv
    <2>3. \/ wire[s] = <<"start", "token">> /\ wire'[s] = <<"start", "token", "end">>
          \/ wire[s] = <<"token">> /\ wire'[s] = <<"token", "end">>
          \/ wire[s] = <<>> /\ wire'[s] = <<"end">>
        BY <1>5, <1>7, Writes
    <2>4. /\ SoFar(s)' = SoFar(s) /\ Target(s)' = Target(s)
          /\ Stored(Target(s))' = Stored(Target(s))
        BY <1>1, <1>2, <2>2 DEF SoFar, Target, Stored, Resolved
    <2>5. /\ Follows(shown, Stored(Target(s)))'
          /\ (Len(Stored(Target(s))) = Len(shown) - 2 + SoFar(s))'
        BY <2>1, <2>2, <2>4 DEF SendFits, Follows, Wanted
    <2>6. wire'[s] \in NoStart \cup {<<>>} <=> wire[s] \in NoStart \cup {<<>>}
        BY <2>3, Starts DEF NoStart
    <2>7. wire'[s] \in NoToken => wire[s] \in NoToken BY <2>3, Starts, NotEmpty DEF NoToken
    <2>8. wire'[s] # <<>> BY <2>3, Starts, NotEmpty
    <2>9. SendFits(s)'
        BY <1>1, <1>2, <2>1, <2>2, <2>5, <2>6, <2>7, <2>8 DEF SendFits, NoStart, NoToken
    <2> QED BY <1>1, <2>9, ViewInStep
<1> QED BY <1>4, <1>6, <1>7

\* Undisturbed is kept by the steps of a handler.
LEMMA ViewAfterServe ==
    ASSUME CallsInv, Undisturbed, NEW s \in Sends, Serve(s)
    PROVE  Undisturbed'
BY ViewAfterResolve, ViewAfterSaveQuestion, ViewAfterStream, ViewAfterStoreAnswer, ViewAfterClose
   DEF Serve

\* What is left to show when at most one load or deletion is under way.
LEMMA ViewAtRest ==
    ASSUME UNCHANGED <<gone, serving>>, \A s \in gone : serving[s] = "over",
           \A s \in Sends : ~Active(s)',
           \A l \in Loads : ~Loading(l)',
           \A d \in Deletes : ~Near(d)',
           Shows(shown, Stored(current))'
    PROVE  Undisturbed'
<1>1. (\A s \in gone : serving[s] = "over")' OBVIOUS
<1>2. Alone' BY DEF Alone
<1> QED BY <1>1, <1>2 DEF Undisturbed

\* A load is under way and nothing else.
LEMMA ViewInLoad ==
    ASSUME UNCHANGED <<gone, serving>>, \A s \in gone : serving[s] = "over",
           \A s \in Sends : ~Active(s)',
           \A d \in Deletes : ~Near(d)',
           NEW l \in Loads, \A k \in Loads : k # l => ~Loading(k)',
           Loading(l)', LoadMode(l)'
    PROVE  Undisturbed'
<1>1. (\A s \in gone : serving[s] = "over")' OBVIOUS
<1>2. Alone' BY DEF Alone
<1>3. ~AtRest' BY DEF AtRest
<1>4. \A k \in Loads : Loading(k)' => LoadMode(k)' OBVIOUS
<1> QED BY <1>1, <1>2, <1>3, <1>4 DEF Undisturbed

\* A deletion is under way and nothing else.
LEMMA ViewInDelete ==
    ASSUME UNCHANGED <<gone, serving>>, \A s \in gone : serving[s] = "over",
           \A s \in Sends : ~Active(s)',
           \A l \in Loads : ~Loading(l)',
           NEW d \in Deletes, \A e \in Deletes : e # d => ~Near(e)',
           Near(d)', DeleteMode(d)'
    PROVE  Undisturbed'
<1>1. (\A s \in gone : serving[s] = "over")' OBVIOUS
<1>2. Alone' BY DEF Alone
<1>3. ~AtRest' BY DEF AtRest
<1>4. \A e \in Deletes : Near(e)' => DeleteMode(e)' OBVIOUS
<1> QED BY <1>1, <1>2, <1>3, <1>4 DEF Undisturbed

\* A deletion elsewhere moves on, and its conversation may lose its turns.
LEMMA ViewElsewhere ==
    ASSUME CallsInv, Undisturbed, NEW d \in Deletes,
           ~Near(d)', ~Near(d),
           \A e \in Deletes : e # d => deleting'[e] = deleting[e],
           UNCHANGED <<current, shown, sending, loading, gone, serving, where, wire>>,
           NEW c, c # current, \A s \in Sends : Active(s) => c # Dest(s),
           \A x \in Ids : x # c => log'[x] = log[x]
    PROVE  Undisturbed'
<1>1. Stored(current)' = Stored(current)
    <2>1. current # None => current \in Ids BY DEF CallsInv, ClientTypeOK
    <2> QED BY <2>1 DEF Stored
<1>2. /\ \A s \in Sends : Active(s)' = Active(s)
      /\ \A l \in Loads : Loading(l)' = Loading(l) /\ LoadMode(l)' = LoadMode(l)
    BY <1>1 DEF Active, Loading, LoadMode
<1>3. Shows(shown, Stored(current))' = Shows(shown, Stored(current))
    BY <1>1 DEF Shows, Wanted
<1>4. \A e \in Deletes : Near(e)' => e # d /\ Near(e)
    <2>1. \A s \in Sends : Active(s)' => Active(s) /\ sending'[s].conv = sending[s].conv
        BY <1>2
    <2> QED BY <2>1, NearKept
<1>5. \A e \in Deletes : e # d => DeleteMode(e)' = DeleteMode(e)
    BY <1>3 DEF DeleteMode
<1>6. \A s \in Sends : Active(s) => (SendMode(s)' <=> SendMode(s))
    <2> SUFFICES ASSUME NEW s \in Sends, Active(s) PROVE SendMode(s)' <=> SendMode(s)
        OBVIOUS
    <2>1. CallFits(s) BY DEF CallsInv
    <2>2. Target(s)' = Target(s) /\ SoFar(s)' = SoFar(s) BY DEF Target, SoFar, Resolved
    <2>3. Target(s) \in {None, Dest(s)} BY <2>1 DEF Target, CallFits, Dest
    <2>4. Target(s) # None => Target(s) \in Ids BY DEF Target, CallsInv, ClientTypeOK
    <2>5. Stored(Target(s))' = Stored(Target(s)) BY <2>2, <2>3, <2>4 DEF Stored
    <2>6. Local(s)' = Local(s) /\ Refused(s)' = Refused(s) BY DEF Local, Refused
    <2>7. Follows(shown, Stored(Target(s)))' = Follows(shown, Stored(Target(s)))
        BY <2>5 DEF Follows, Wanted
    <2>8. SendFits(s)' = SendFits(s) BY <2>2, <2>5, <2>7 DEF SendFits
    <2> QED BY <2>6, <2>8 DEF SendMode
<1>7. (\A s \in gone : serving[s] = "over")' BY DEF Undisturbed
<1>8. Alone' BY <1>2, <1>4 DEF Undisturbed, Alone
<1>9. AtRest' => Shows(shown, Stored(current))'
    <2>1. ASSUME AtRest' PROVE AtRest
        <3>1. \A e \in Deletes : e # d /\ Near(e) => Near(e)'
            <4> SUFFICES ASSUME NEW e \in Deletes, e # d, Near(e) PROVE Near(e)'
                OBVIOUS
            <4> QED BY DEF Near, Deleting, Elsewhere, Active, Dest
        <3> QED BY <1>2, <2>1, <3>1 DEF AtRest
    <2> QED BY <1>3, <2>1 DEF Undisturbed
<1>10. \A s \in Sends : Active(s)' => SendMode(s)' BY <1>2, <1>6 DEF Undisturbed
<1>11. \A l \in Loads : Loading(l)' => LoadMode(l)' BY <1>2 DEF Undisturbed
<1>12. \A e \in Deletes : Near(e)' => DeleteMode(e)' BY <1>4, <1>5 DEF Undisturbed
<1> QED BY <1>7, <1>8, <1>9, <1>10, <1>11, <1>12 DEF Undisturbed

\* A new chat shows nothing, and has nothing.
LEMMA ViewAfterNewChat ==
    ASSUME CallsInv, NewChat, Calm(None)
    PROVE  Undisturbed'
<1>1. /\ current' = None /\ shown' = <<>>
      /\ UNCHANGED <<sending, loading, deleting, gone, serving>>
    BY NewChatEffect
<1>2. /\ \A s \in gone : serving[s] = "over"
      /\ \A s \in Sends : ~Active(s)'
      /\ \A l \in Loads : ~Loading(l)'
      /\ \A d \in Deletes : Deleting(d)' =>
            ~deleting'[d].wasCurrent /\ deleting'[d].conv # None
    BY <1>1, CalmGone DEF Active, Loading, Deleting
<1>3. \A d \in Deletes : ~Near(d)' BY <1>1, <1>2 DEF Near, Elsewhere
<1>4. Shows(shown, Stored(current))' BY <1>1 DEF Shows, Stored
<1> QED BY <1>1, <1>2, <1>3, <1>4, ViewAtRest

\* A conversation is picked with nothing under way that concerns it.
LEMMA ViewAfterSelect ==
    ASSUME CallsInv, NEW l \in Loads, NEW c \in Known, Select(l, c), Calm(c)
    PROVE  Undisturbed'
<1>1. /\ current' = c
      /\ loading'[l].step = "asked" /\ loading'[l].conv = c
      /\ \A k \in Loads : k # l => loading'[k] = loading[k]
      /\ UNCHANGED <<sending, deleting, gone, serving>>
    BY SelectEffect
<1>2. /\ \A s \in gone : serving[s] = "over"
      /\ \A s \in Sends : ~Active(s)'
      /\ \A k \in Loads : k # l => ~Loading(k)'
      /\ \A d \in Deletes : Deleting(d)' =>
            ~deleting'[d].wasCurrent /\ deleting'[d].conv # c
    BY <1>1, CalmGone DEF Active, Loading, Deleting
<1>3. \A d \in Deletes : ~Near(d)' BY <1>1, <1>2 DEF Near, Elsewhere
<1>4. Loading(l)' /\ LoadMode(l)' BY <1>1 DEF Loading, LoadMode
<1> QED BY <1>1, <1>2, <1>3, <1>4, ViewInLoad

\* While an undisturbed tab awaits a conversation, or a deletion that it has to
\* do with, it awaits nothing else.
LEMMA LoadAlone ==
    ASSUME Undisturbed, NEW l \in Loads, Loading(l)
    PROVE  /\ \A s \in gone : serving[s] = "over"
           /\ \A s \in Sends : ~Active(s)
           /\ \A k \in Loads : k # l => ~Loading(k)
           /\ \A d \in Deletes : ~Near(d)
           /\ LoadMode(l)
BY DEF Undisturbed, Alone

LEMMA DeleteAlone ==
    ASSUME Undisturbed, NEW d \in Deletes, Near(d)
    PROVE  /\ \A s \in gone : serving[s] = "over"
           /\ \A s \in Sends : ~Active(s)
           /\ \A l \in Loads : ~Loading(l)
           /\ \A e \in Deletes : e # d => ~Near(e)
           /\ DeleteMode(d)
BY DEF Undisturbed, Alone

\* The server answers with what it has.
LEMMA ViewAfterAnswerLoad ==
    ASSUME CallsInv, Undisturbed, NEW l \in Loads, AnswerLoad(l)
    PROVE  Undisturbed'
<1>1. /\ loading[l].step = "asked"
      /\ \/ /\ loading[l].conv \in threads /\ loading'[l].step = "answered"
            /\ loading'[l].turns = log[loading[l].conv]
         \/ loading'[l].step = "failed"
      /\ loading'[l].conv = loading[l].conv
      /\ \A k \in Loads : k # l => loading'[k] = loading[k]
      /\ UNCHANGED <<current, sending, deleting, gone, serving, log>>
    BY AnswerLoadEffect
<1>2. Loading(l) BY <1>1 DEF Loading
<1>3. /\ \A s \in gone : serving[s] = "over"
      /\ LoadMode(l)
      /\ \A s \in Sends : ~Active(s)'
      /\ \A k \in Loads : k # l => ~Loading(k)'
    BY <1>1, <1>2, LoadAlone DEF Active, Loading
<1>4. \A d \in Deletes : ~Near(d)' BY <1>1, <1>2, <1>3, LoadAlone, NearKept
<1>5. Loading(l)' BY <1>1 DEF Loading
<1>6. LoadMode(l)'
    <2>1. loading'[l].conv = current' BY <1>1, <1>3 DEF LoadMode
    <2>2. ASSUME loading'[l].step = "answered" PROVE loading'[l].turns = Stored(current)'
        <3>1. current \in threads /\ loading'[l].turns = log[current]
            BY <1>1, <1>3, <2>2 DEF LoadMode
        <3>2. current # None BY <3>1, IdsKnown DEF CallsInv, ClientTypeOK
        <3> QED BY <1>1, <3>1, <3>2 DEF Stored
    <2> QED BY <2>1, <2>2 DEF LoadMode
<1> QED BY <1>1, <1>3, <1>4, <1>5, <1>6, ViewInLoad

\* The answer replaces what is shown.
LEMMA ViewAfterLoaded ==
    ASSUME CallsInv, Undisturbed, NEW l \in Loads, Loaded(l), ~disturbed'
    PROVE  Undisturbed'
<1>1. /\ loading'[l].step = "done"
      /\ \A k \in Loads : k # l => loading'[k] = loading[k]
      /\ loading[l].step = "answered" /\ shown' = Displayed(loading[l].turns)
      /\ UNCHANGED <<current, sending, deleting, gone, serving, log>>
    BY LoadedEffect
<1>2. Loading(l) BY <1>1 DEF Loading
<1>3. /\ \A s \in gone : serving[s] = "over"
      /\ LoadMode(l)
      /\ \A s \in Sends : ~Active(s)'
      /\ \A k \in Loads : ~Loading(k)'
    BY <1>1, <1>2, LoadAlone DEF Active, Loading
<1>4. \A d \in Deletes : ~Near(d)' BY <1>1, <1>2, <1>3, LoadAlone, NearKept
<1>5. loading[l].turns = Stored(current) BY <1>1, <1>3 DEF LoadMode
<1>6. Stored(current) \in Seq(Turn) BY StoredTyped DEF CallsInv, ClientTypeOK
<1>7. Shows(shown', Stored(current)) BY <1>1, <1>5, <1>6, DisplayedShows
<1>8. Shows(shown, Stored(current))' BY <1>1, <1>7 DEF Shows, Stored, Wanted
<1> QED BY <1>1, <1>3, <1>4, <1>8, ViewAtRest

\* A deletion is asked for: of the current conversation, with nothing under way
\* that concerns it, or of another one.
LEMMA ViewAfterDelete ==
    ASSUME CallsInv, Undisturbed, NEW d \in Deletes, NEW c \in Known, Delete(d, c),
           ~InUse(c) \/ Calm(c)
    PROVE  Undisturbed'
<1>1. /\ deleting[d].step = "idle"
      /\ deleting'[d].step = "asked" /\ deleting'[d].conv = c
      /\ deleting'[d].wasCurrent = (current = c)
      /\ \A e \in Deletes : e # d => deleting'[e] = deleting[e]
      /\ UNCHANGED <<current, shown, sending, loading, gone, serving, where, wire, log>>
    BY DeleteEffect
<1>2. ASSUME c # current, \A s \in Sends : Active(s) => c # Dest(s)
      PROVE  Undisturbed'
    <2>1. ~Near(d) BY <1>1 DEF Near, Deleting
    <2>2. ~Near(d)' BY <1>1, <1>2 DEF Near, Elsewhere, Active, Dest
    <2> QED BY <1>1, <1>2, <2>1, <2>2, ViewElsewhere
<1>3. CASE ~InUse(c)
    <2>1. ASSUME NEW s \in Sends, Active(s) PROVE c # Dest(s)
        <3>1. CallFits(s) /\ c \notin {sending[s].conv, where[s]}
            BY <1>3, <2>1 DEF InUse, CallsInv
        <3>2. Resolved(s) => where[s] = Dest(s) BY <3>1 DEF CallFits, Dest
        <3>3. ~Resolved(s) => c # Fresh[s] BY KnownIds
        <3> QED BY <3>1, <3>2, <3>3 DEF Dest
    <2> QED BY <1>2, <1>3, <2>1 DEF InUse
<1>4. CASE Calm(c) /\ c # current
    BY <1>2, <1>4, CalmGone
<1>5. CASE Calm(c) /\ c = current
    <2>1. /\ \A s \in gone : serving[s] = "over"
          /\ \A s \in Sends : ~Active(s)
          /\ \A l \in Loads : ~Loading(l)
          /\ \A e \in Deletes : Deleting(e) =>
                ~deleting[e].wasCurrent /\ deleting[e].conv # c
        BY <1>5, CalmGone
    <2>2. /\ \A s \in Sends : ~Active(s)'
          /\ \A l \in Loads : ~Loading(l)'
        BY <1>1, <2>1 DEF Active, Loading
    <2>3. \A e \in Deletes : ~Near(e)
        BY <1>5, <2>1 DEF Near, Elsewhere
    <2>4. \A e \in Deletes : e # d => ~Near(e)'
        BY <1>1, <2>2, <2>3, NearKept
    <2>5. Shows(shown, Stored(current)) BY <2>1, <2>3 DEF Undisturbed, AtRest
    <2>6. Shows(shown, Stored(current))' BY <1>1, <2>5 DEF Shows, Stored, Wanted
    <2>7. Near(d)' BY <1>1, <1>5 DEF Near, Deleting, Elsewhere
    <2>8. DeleteMode(d)' BY <1>1, <2>6 DEF DeleteMode
    <2> QED BY <1>1, <2>1, <2>2, <2>4, <2>7, <2>8, ViewInDelete
<1> QED BY <1>3, <1>4, <1>5

\* The server deletes; what is shown is stale only if a new chat will replace
\* it.
LEMMA ViewAfterAnswerDelete ==
    ASSUME CallsInv, Undisturbed, NEW d \in Deletes, AnswerDelete(d)
    PROVE  Undisturbed'
<1>1. /\ deleting[d].step = "asked"
      /\ deleting'[d].step = "answered" /\ deleting'[d].conv = deleting[d].conv
      /\ deleting'[d].wasCurrent = deleting[d].wasCurrent
      /\ \A e \in Deletes : e # d => deleting'[e] = deleting[e]
      /\ \A c \in Ids : log'[c] = IF c = deleting[d].conv THEN <<>> ELSE log[c]
      /\ UNCHANGED <<current, shown, sending, loading, gone, serving, where, wire>>
    BY AnswerDeleteEffect
<1>2. Deleting(d) /\ Deleting(d)' BY <1>1 DEF Deleting
<1>3. CASE Elsewhere(d)
    <2>1. ~Near(d) BY <1>3 DEF Near
    <2>2. ~Near(d)' BY <1>1, <1>3 DEF Near, Elsewhere, Active, Dest
    <2>3. \A x \in Ids : x # deleting[d].conv => log'[x] = log[x] BY <1>1
    <2> QED BY <1>1, <1>3, <2>1, <2>2, <2>3, ViewElsewhere DEF Elsewhere
<1>4. CASE ~Elsewhere(d)
    <2>1. Near(d) BY <1>2, <1>4 DEF Near
    <2>2. /\ \A s \in gone : serving[s] = "over"
          /\ DeleteMode(d)
          /\ \A s \in Sends : ~Active(s)'
          /\ \A l \in Loads : ~Loading(l)'
        BY <1>1, <2>1, DeleteAlone DEF Active, Loading
    <2>3. \A e \in Deletes : e # d => ~Near(e)'
        BY <1>1, <2>1, <2>2, DeleteAlone, NearKept
    <2>4. Near(d)' BY <1>1, <1>2, <1>4 DEF Near, Elsewhere, Active, Dest
    <2>5. deleting[d].wasCurrent \/ Shows(shown, Stored(current))'
        <3>1. Shows(shown, Stored(current)) BY <1>1, <2>2 DEF DeleteMode
        <3>2. ASSUME ~deleting[d].wasCurrent PROVE Stored(current)' = Stored(current)
            <4>1. current # deleting[d].conv BY <2>2, <3>2 DEF DeleteMode
            <4>2. current # None => current \in Ids BY DEF CallsInv, ClientTypeOK
            <4> QED BY <1>1, <4>1, <4>2 DEF Stored
        <3> QED BY <1>1, <3>1, <3>2 DEF Shows, Wanted
    <2>6. DeleteMode(d)' BY <1>1, <2>2, <2>5 DEF DeleteMode
    <2> QED BY <1>1, <2>2, <2>3, <2>4, <2>6, ViewInDelete
<1> QED BY <1>3, <1>4

\* The deletion is answered, or fails; an answer that is lost when the server
\* has deleted what is shown disturbs the tab.
LEMMA ViewAfterDeletion ==
    ASSUME CallsInv, DeletesNamed, Undisturbed, NEW d \in Deletes,
           Deleted(d) \/ DeleteFails(d), ~disturbed'
    PROVE  Undisturbed'
<1>1. DeletionOver(d) /\ deleting[d].step \in {"asked", "answered"}
    BY DeletedEffect, DeleteFailsEffect
<1>2. /\ deleting'[d].step = "done"
      /\ \A e \in Deletes : e # d => deleting'[e] = deleting[e]
      /\ UNCHANGED <<sending, loading, gone, serving, where, wire, log>>
    BY <1>1 DEF DeletionOver
<1>3. Deleting(d) /\ ~Deleting(d)' BY <1>1, <1>2 DEF Deleting
<1>4. ~Near(d)' BY <1>3 DEF Near
<1>5. \/ Deleted(d) /\ deleting[d].step = "answered" /\ deleting[d].wasCurrent
            /\ current' = None /\ shown' = <<>>
      \/ UNCHANGED <<current, shown>> /\ ~deleting[d].wasCurrent
      \/ UNCHANGED <<current, shown>> /\ deleting[d].step = "asked"
    BY <1>1, DeletedEffect, DeleteFailsEffect
<1>6. CASE Elsewhere(d)
    <2>1. UNCHANGED <<current, shown>> BY <1>5, <1>6 DEF Elsewhere
    <2>2. ~Near(d) BY <1>6 DEF Near
    <2> QED BY <1>2, <1>4, <1>6, <2>1, <2>2, ViewElsewhere DEF Elsewhere
<1>7. CASE ~Elsewhere(d)
    <2>1. Near(d) BY <1>3, <1>7 DEF Near
    <2>2. /\ \A s \in gone : serving[s] = "over"
          /\ DeleteMode(d)
          /\ \A s \in Sends : ~Active(s)'
          /\ \A l \in Loads : ~Loading(l)'
          /\ \A e \in Deletes : e # d => ~Near(e)
        BY <1>2, <2>1, DeleteAlone DEF Active, Loading
    <2>3. CASE current' = None /\ shown' = <<>>
        <3>1. Shows(shown, Stored(current))' BY <2>3 DEF Shows, Stored
        <3>2. \A e \in Deletes : e # d => ~Near(e)'
            <4> SUFFICES ASSUME NEW e \in Deletes, e # d, Deleting(e) PROVE Elsewhere(e)'
                BY <1>2 DEF Near, Deleting
            <4>1. Elsewhere(e) BY <2>2 DEF Near
            <4>2. deleting[e].conv # None BY DEF DeletesNamed
            <4> QED BY <1>2, <2>2, <2>3, <4>1, <4>2 DEF Elsewhere
        <3> QED BY <1>2, <1>4, <2>2, <3>1, <3>2, ViewAtRest
    <2>4. CASE /\ UNCHANGED <<current, shown>>
               /\ ~deleting[d].wasCurrent \/ deleting[d].step = "asked"
        <3>1. Shows(shown, Stored(current)) BY <2>2, <2>4 DEF DeleteMode
        <3>2. Shows(shown, Stored(current))' BY <1>2, <2>4, <3>1 DEF Shows, Stored, Wanted
        <3>3. \A e \in Deletes : e # d => ~Near(e)'
            BY <1>2, <2>2, <2>4, NearKept
        <3> QED BY <1>2, <1>4, <2>2, <3>2, <3>3, ViewAtRest
    <2> QED BY <1>5, <2>3, <2>4
<1> QED BY <1>6, <1>7

\* Every step that leaves the tab undisturbed keeps the view.
LEMMA ViewNext ==
    ASSUME CallsInv, TurnsInv, DeletesNamed, ~disturbed => Undisturbed,
           [ClientNext]_clientVars, ~disturbed'
    PROVE  Undisturbed'
<1>1. CASE UNCHANGED clientVars
    <2>1. UNCHANGED <<current, shown, sending, loading, deleting, gone, serving, where, wire,
                      threads, log, disturbed>>
        BY <1>1 DEF clientVars, hook, server
    <2>2. /\ \A s \in Sends : Active(s)' = Active(s) /\ SendMode(s)' = SendMode(s)
          /\ \A l \in Loads : Loading(l)' = Loading(l) /\ LoadMode(l)' = LoadMode(l)
          /\ \A d \in Deletes : Near(d)' = Near(d) /\ DeleteMode(d)' = DeleteMode(d)
          /\ Shows(shown, Stored(current))' = Shows(shown, Stored(current))
        BY <2>1 DEF Active, Loading, Deleting, Near, Elsewhere, Dest, SendMode, LoadMode, DeleteMode, Local, Refused,
                    SendFits, Follows, Shows, Stored, Target, SoFar, Wanted, Resolved
    <2> QED BY <2>1, <2>2 DEF Undisturbed, Alone, AtRest
<1>2. ASSUME NEW s \in Sends, Send(s) PROVE Undisturbed'
    <2>1. ~disturbed /\ Calm(current) BY <1>2 DEF Send
    <2> QED BY <1>2, <2>1, ViewAfterSend
<1>3. ASSUME NEW s \in Sends, Receive(s) PROVE Undisturbed'
    BY <1>3, ViewAfterReceive
<1>4. ASSUME NEW s \in Sends, Serve(s) PROVE Undisturbed'
    <2>1. ~disturbed BY <1>4 DEF Serve, Resolve, SaveQuestion, Stream, StoreAnswer, End, TabOnly
    <2> QED BY <1>4, <2>1, ViewAfterServe
<1>5. ~Stop /\ \A s \in Sends : ~Break(s) BY DEF Stop, Break
<1>6. CASE NewChat
    <2>1. Calm(None) BY <1>6 DEF NewChat
    <2> QED BY <1>6, <2>1, ViewAfterNewChat
<1>7. ASSUME NEW l \in Loads, NEW c \in Known, Select(l, c) PROVE Undisturbed'
    <2>1. Calm(c) BY <1>7 DEF Select
    <2> QED BY <1>7, <2>1, ViewAfterSelect
<1>8. ASSUME NEW l \in Loads, AnswerLoad(l) PROVE Undisturbed'
    <2>1. ~disturbed BY <1>8 DEF AnswerLoad
    <2> QED BY <1>8, <2>1, ViewAfterAnswerLoad
<1>9. ASSUME NEW l \in Loads, Loaded(l) PROVE Undisturbed'
    <2>1. ~disturbed BY <1>9 DEF Loaded
    <2> QED BY <1>9, <2>1, ViewAfterLoaded
<1>10. ASSUME NEW d \in Deletes, NEW c \in Known, Delete(d, c) PROVE Undisturbed'
    <2>1. ~disturbed /\ (~InUse(c) \/ Calm(c)) BY <1>10 DEF Delete
    <2> QED BY <1>10, <2>1, ViewAfterDelete
<1>11. ASSUME NEW d \in Deletes, AnswerDelete(d) PROVE Undisturbed'
    <2>1. ~disturbed BY <1>11 DEF AnswerDelete
    <2> QED BY <1>11, <2>1, ViewAfterAnswerDelete
<1>12. ASSUME NEW d \in Deletes, Deleted(d) \/ DeleteFails(d) PROVE Undisturbed'
    <2>1. ~disturbed BY <1>12 DEF Deleted, DeleteFails
    <2> QED BY <1>12, <2>1, ViewAfterDeletion
<1> QED
    BY <1>1, <1>2, <1>3, <1>4, <1>5, <1>6, <1>7, <1>8, <1>9, <1>10, <1>11, <1>12 DEF ClientNext

\* At first nothing is shown and nothing is current.
LEMMA ViewInit == ClientInit => Undisturbed
<1> SUFFICES ASSUME ClientInit PROVE Undisturbed OBVIOUS
<1>1. /\ \A s \in gone : serving[s] = "over"
      /\ \A s \in Sends : ~Active(s)
      /\ \A l \in Loads : ~Loading(l)
      /\ \A d \in Deletes : ~Deleting(d)
    BY DEF ClientInit, Active, Loading, Deleting
<1>2. Shows(shown, Stored(current)) BY DEF ClientInit, Shows, Stored
<1> QED BY <1>1, <1>2 DEF Undisturbed, Alone, Near

\* The inductive invariant of useChat and of the handlers of its messages.
THEOREM ClientInvHolds == ClientSpec => []ClientInv
<1>1. ClientInit => ClientInv
    <2>1. ClientInit => DeletesNamed BY DEF ClientInit, DeletesNamed, Deleting
    <2> QED BY <2>1, CallsInit, TurnsInit, ViewInit DEF ClientInv
<1>2. ClientInv /\ [ClientNext]_clientVars => ClientInv'
    <2> SUFFICES ASSUME ClientInv, [ClientNext]_clientVars PROVE ClientInv' OBVIOUS
    <2>1. CallsInv /\ TurnsInv /\ DeletesNamed /\ (~disturbed => Undisturbed) BY DEF ClientInv
    <2>2. CallsInv' /\ TurnsInv' /\ DeletesNamed'
        BY <2>1, CallsNext, TurnsNext, DeletesNamedNext
    <2>3. ~disturbed' => Undisturbed' BY <2>1, ViewNext
    <2> QED BY <2>2, <2>3 DEF ClientInv
<1> QED BY <1>1, <1>2, PTL DEF ClientSpec

\* The state of the tab has its types.
THEOREM ClientTypesHold == ClientSpec => []ClientTypeOK
<1>1. ClientInv => ClientTypeOK BY DEF ClientInv, CallsInv
<1> QED BY <1>1, ClientInvHolds, PTL

\* The input is closed exactly while a stream is under way, and the stop
\* button aborts that stream: useChat never loses a stream it started.
THEOREM StreamStaysInReach == ClientSpec => []StreamIsInReach
<1>1. ClientInv => StreamIsInReach BY DEF ClientInv, CallsInv
<1> QED BY <1>1, ClientInvHolds, PTL

\* In a conversation a message and its answer are separated by turns of cut
\* streams only.
THEOREM AnswersStayWithQuestions == ClientSpec => []AnswersFollowQuestions
<1>1. ClientInv => AnswersFollowQuestions BY DEF ClientInv, TurnsInv
<1> QED BY <1>1, ClientInvHolds, PTL

\* At rest an undisturbed tab shows what the server has; no turn is ever shown
\* twice.
THEOREM ViewAlwaysMatches == ClientSpec => []ViewMatchesServer
<1>1. ClientInv => ViewMatchesServer
    <2> SUFFICES ASSUME ClientInv PROVE ViewMatchesServer OBVIOUS
    <2>1. CallsInv /\ TurnsInv /\ (~disturbed => Undisturbed) BY DEF ClientInv
    <2>2. \A i, j \in 1..Len(shown) : shown[i].turn = shown[j].turn => i = j
        BY <2>1 DEF TurnsInv, ShownOnce
    <2>3. ASSUME Quiet, ~disturbed
          PROVE  [i \in 1..Len(shown) |-> [shown[i] EXCEPT !.local = FALSE]]
                     = IF current = None THEN <<>> ELSE Displayed(log[current])
        <3>0. AtRest BY <2>3 DEF AtRest, Quiet, Loading, Near, Deleting
        <3>1. Shows(shown, Stored(current)) BY <2>1, <2>3, <3>0 DEF Undisturbed
        <3>2. shown \in Seq(Shown) /\ current \in Ids \cup {None}
            BY <2>1 DEF CallsInv, ClientTypeOK
        <3>3. Stored(current) \in Seq(Turn) BY <2>1, <3>2, StoredTyped
        <3> HIDE DEF Shown, Turn
        <3>4. [i \in 1..Len(shown) |-> [shown[i] EXCEPT !.local = FALSE]]
                  = Displayed(Stored(current))
            BY <3>1, <3>2, <3>3, ShowsIsDisplayed
        <3>5. Displayed(<<>>) = <<>> BY DEF Displayed
        <3> QED BY <3>4, <3>5 DEF Stored
    <2> QED BY <2>2, <2>3 DEF ViewMatchesServer
<1> QED BY <1>1, ClientInvHolds, PTL
=============================================================================
