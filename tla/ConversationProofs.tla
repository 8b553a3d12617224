-------------------------- MODULE ConversationProofs --------------------------
(***************************************************************************)
(* Proofs about the turns of conversations: which of them prepareContext   *)
(* selects (ContextWindow), for every history, prompt and window, and how  *)
(* the repository keeps them (ConversationStore), for any conversations,   *)
(* messages, failures and restarts.  The two share no state.               *)
(***************************************************************************)
EXTENDS ContextWindow, ConversationStore, TLAPS, FiniteSetTheorems

-----------------------------------------------------------------------------
(* Sums over finite sets.  MapThenSumSet is defined by a recursion on the    *)
(* set; that it is the number of the units of its elements, a cardinality,   *)
(* follows without an induction: a smallest set for which it is not is       *)
(* impossible, and there is a smallest one of any sets.                      *)

\* As many elements as f gives the elements of U together.
Units(f, U) == UNION {{x} \X (1..f[x]) : x \in U}

Recursion(g, f, D) == g = [U \in SUBSET D |->
    IF U = {} THEN 0 ELSE f[CHOOSE x \in U : TRUE] + g[U \ {CHOOSE x \in U : TRUE}]]

\* The units of one element.
LEMMA UnitsOf ==
  ASSUME NEW D, NEW f, \A x \in D : f[x] \in Nat, NEW x \in D
  PROVE  IsFiniteSet({x} \X (1..f[x])) /\ Cardinality({x} \X (1..f[x])) = f[x]
<1>1. f[x] \in Nat OBVIOUS
<1> DEFINE h == [i \in 1..f[x] |-> <<x, i>>]
           T == {x} \X (1..f[x])
<1>2. h \in Bijection(1..f[x], T)
  <2>1. h \in [1..f[x] -> T] OBVIOUS
  <2>2. \A i, j \in 1..f[x] : h[i] = h[j] => i = j OBVIOUS
  <2>3. \A t \in T : \E i \in 1..f[x] : h[i] = t
    <3> SUFFICES ASSUME NEW t \in T PROVE \E i \in 1..f[x] : h[i] = t OBVIOUS
    <3>1. t[2] \in 1..f[x] /\ t = <<x, t[2]>> OBVIOUS
    <3>2. h[t[2]] = t BY <3>1
    <3> QED BY <3>1, <3>2
  <2> QED BY <2>1, <2>2, <2>3 DEF Bijection, Injection, Surjection, IsInjective
<1>3. ExistsBijection(1..f[x], T) BY <1>2 DEF ExistsBijection
<1>4. IsFiniteSet(1..f[x]) /\ Cardinality(1..f[x]) = f[x]
  BY <1>1, FS_Interval, SMT
<1> QED BY <1>3, <1>4, FS_Bijection

\* The units of a set can be counted.
LEMMA UnitsFinite ==
  ASSUME NEW D, IsFiniteSet(D), NEW f, \A x \in D : f[x] \in Nat
  PROVE  IsFiniteSet(Units(f, D))
<1> DEFINE h == [x \in D |-> {x} \X (1..f[x])]
           R == {{x} \X (1..f[x]) : x \in D}
<1>1. h \in Surjection(D, R)
  BY DEF Surjection
<1>2. IsFiniteSet(R) BY <1>1, FS_Surjection
<1>3. \A T \in R : IsFiniteSet(T) BY UnitsOf
<1> QED BY <1>2, <1>3, FS_UNION DEF Units

\* Adding an element adds its units.
LEMMA UnitsAdd ==
  ASSUME NEW D, IsFiniteSet(D), NEW f, \A x \in D : f[x] \in Nat,
         NEW U \in SUBSET D, NEW x \in U
  PROVE  Cardinality(Units(f, U)) = f[x] + Cardinality(Units(f, U \ {x}))
<1> DEFINE A == {x} \X (1..f[x])
           B == Units(f, U \ {x})
<1>1. IsFiniteSet(A) /\ Cardinality(A) = f[x] BY UnitsOf
<1>2. IsFiniteSet(U \ {x}) BY FS_Subset
<1>3. IsFiniteSet(B) BY <1>2, UnitsFinite
<1>4. A \cap B = {} BY DEF Units
<1>5. Units(f, U) = A \cup B BY DEF Units
<1>6. Cardinality(A \cap B) = 0 BY <1>4, FS_EmptySet
<1>7. Cardinality(A) \in Nat /\ Cardinality(B) \in Nat BY <1>1, <1>3, FS_CardinalityType
<1> HIDE DEF A, B
<1>8. Cardinality(A \cup B) = Cardinality(A) + Cardinality(B) - Cardinality(A \cap B)
  BY <1>1, <1>3, FS_Union
<1> QED BY <1>1, <1>5, <1>6, <1>7, <1>8 DEF B

\* The recursion has one solution.
LEMMA RecursionUnique ==
  ASSUME NEW D, IsFiniteSet(D), NEW f, \A x \in D : f[x] \in Nat, NEW g, Recursion(g, f, D),
         NEW U \in SUBSET D
  PROVE  g[U] = Cardinality(Units(f, U))
<1> DEFINE Wrong == {V \in SUBSET D : g[V] # Cardinality(Units(f, V))}
           R == StrictSubsetOrdering(D)
<1> SUFFICES ASSUME Wrong # {} PROVE FALSE OBVIOUS
<1>1. IsWellFoundedOn(R, SUBSET D)
  <2>1. IsWellFoundedOn(R, FiniteSubsetsOf(D)) BY FS_StrictSubsetOrderingWellFounded
  <2> QED BY <2>1, FS_FiniteSubsetsOfFinite
<1>2. PICK V \in Wrong : \A W \in Wrong : ~ (<<W, V>> \in R)
  <2>1. Wrong \subseteq SUBSET D OBVIOUS
  <2> HIDE DEF Wrong, R
  <2> QED BY <1>1, <2>1, WFMin
<1> DEFINE x == CHOOSE y \in V : TRUE
<1>3. g[V] = IF V = {} THEN 0 ELSE f[x] + g[V \ {x}]
  BY DEF Recursion
<1>4. CASE V = {}
  <2>1. Units(f, V) = {} BY <1>4 DEF Units
  <2> QED BY <1>3, <1>4, <2>1, FS_EmptySet
<1>5. CASE V # {}
  <2>1. x \in V BY <1>5
  <2>2. V \ {x} \in SUBSET D /\ V \ {x} # V BY <2>1
  <2>3. <<V \ {x}, V>> \in R BY <2>2 DEF StrictSubsetOrdering
  <2>4. g[V \ {x}] = Cardinality(Units(f, V \ {x})) BY <2>2, <2>3, <1>2
  <2> HIDE DEF x
  <2>5. Cardinality(Units(f, V)) = f[x] + Cardinality(Units(f, V \ {x}))
    BY <2>1, UnitsAdd
  <2> QED BY <1>3, <1>5, <2>4, <2>5
<1> QED BY <1>4, <1>5

\* The recursion has a solution: the count of the units.
LEMMA RecursionExists ==
  ASSUME NEW D, IsFiniteSet(D), NEW f, \A x \in D : f[x] \in Nat
  PROVE  \E g : Recursion(g, f, D)
<1> DEFINE g == [U \in SUBSET D |-> Cardinality(Units(f, U))]
           h == [U \in SUBSET D |->
    IF U = {} THEN 0 ELSE f[CHOOSE x \in U : TRUE] + g[U \ {CHOOSE x \in U : TRUE}]]
<1>1. ASSUME NEW U \in SUBSET D PROVE g[U] = h[U]
  <2>1. CASE U = {}
    <3>1. Units(f, U) = {} BY <2>1 DEF Units
    <3> QED BY <2>1, <3>1, FS_EmptySet
  <2>2. CASE U # {}
    <3> DEFINE x == CHOOSE x \in U : TRUE
    <3>1. x \in U BY <2>2
    <3>2. U \ {x} \in SUBSET D OBVIOUS
    <3>3. h[U] = f[x] + g[U \ {x}] BY <2>2
    <3>4. g[U] = Cardinality(Units(f, U)) /\ g[U \ {x}] = Cardinality(Units(f, U \ {x}))
      BY <3>2
    <3> HIDE DEF x, g, h
    <3>5. Cardinality(Units(f, U)) = f[x] + Cardinality(Units(f, U \ {x})) BY <3>1, UnitsAdd
    <3> QED BY <3>3, <3>4, <3>5
  <2> QED BY <2>1, <2>2
<1>2. g = h
  <2> DEFINE gb(U) == Cardinality(Units(f, U))
             hb(U) == IF U = {} THEN 0 ELSE f[CHOOSE x \in U : TRUE] + g[U \ {CHOOSE x \in U : TRUE}]
  <2>1. \A U \in SUBSET D : gb(U) = hb(U) BY <1>1
  <2>2. g = [U \in SUBSET D |-> gb(U)] /\ h = [U \in SUBSET D |-> hb(U)] OBVIOUS
  <2> HIDE DEF g, h, gb, hb
  <2> QED BY <2>1, <2>2
<1> QED BY <1>2 DEF Recursion

\* The sum the library defines is the count of the units.
LEMMA SumIsCount ==
  ASSUME NEW D, IsFiniteSet(D), NEW f, \A x \in D : f[x] \in Nat
  PROVE  MapThenSumSet(LAMBDA x : f[x], D) = Cardinality(Units(f, D))
<1> DEFINE g == CHOOSE h : Recursion(h, f, D)
<1>1. Recursion(g, f, D) BY RecursionExists
<1>2. MapThenSumSet(LAMBDA x : f[x], D) = g[D]
  BY DEF MapThenSumSet, MapThenFoldSet, Recursion
<1>3. D \in SUBSET D OBVIOUS
<1> HIDE DEF g
<1> QED BY <1>1, <1>2, <1>3, RecursionUnique

-----------------------------------------------------------------------------
(* ContextWindow *)

\* selected is bounded by the part of the history examined so far: what is
\* put in front of it is older than all of it.
WindowInv == WindowTypeOK /\ WithinBudget /\ Chronological /\ SelectionIsGreedy

\* An estimate is a natural number.
LEMMA EstimateType ==
    ASSUME NEW chars \in Nat
    PROVE  EstimateTokens(chars) \in Nat
BY SMT DEF EstimateTokens

\* The token count of a stored message is a natural number.
LEMMA TokensType ==
    ASSUME NEW m \in Message
    PROVE  TokenCount(m) \in Nat
<1>1. m.tokenCount \in Nat /\ m.chars \in Nat BY DEF Message
<1> QED BY <1>1, EstimateType DEF TokenCount

\* The budget is a natural number.
LEMMA BudgetType == MaxInputBudget \in Nat
BY InputsAssumption, SMT DEF MaxInputBudget

\* The tokens at the places S of a history.
SumAt(h, S) == MapThenSumSet(LAMBDA k : TokenCount(h[k]), S)
CountsAt(h) == [k \in 1..Len(h) |-> TokenCount(h[k])]

HistoryRecursion(g, h, S) == g = [U \in SUBSET S |->
    IF U = {} THEN 0 ELSE TokenCount(h[CHOOSE x \in U : TRUE])
                          + g[U \ {CHOOSE x \in U : TRUE}]]

\* The sum of the counts of some messages of a history.
LEMMA SumAtIsCount ==
    ASSUME NEW h, NEW S
    PROVE  h \in Seq(Message) /\ S \in SUBSET (1..Len(h)) =>
           /\ IsFiniteSet(S) /\ \A k \in 1..Len(h) : CountsAt(h)[k] \in Nat
           /\ SumAt(h, S) = Cardinality(Units(CountsAt(h), S))
<1>0. SUFFICES ASSUME h \in Seq(Message), S \in SUBSET (1..Len(h))
               PROVE  /\ IsFiniteSet(S) /\ \A k \in 1..Len(h) : CountsAt(h)[k] \in Nat
                      /\ SumAt(h, S) = Cardinality(Units(CountsAt(h), S))
    OBVIOUS
<1>1. IsFiniteSet(S)
    <2>1. Len(h) \in Nat BY <1>0
    <2>2. IsFiniteSet(1..Len(h)) BY <2>1, FS_Interval
    <2> QED BY <1>0, <2>2, FS_Subset
<1>2. \A k \in 1..Len(h) : CountsAt(h)[k] \in Nat BY <1>0, TokensType DEF CountsAt
<1>3. ASSUME NEW g PROVE Recursion(g, CountsAt(h), S) <=> HistoryRecursion(g, h, S)
    <2> DEFINE a(U) == IF U = {} THEN 0 ELSE CountsAt(h)[CHOOSE x \in U : TRUE]
                                             + g[U \ {CHOOSE x \in U : TRUE}]
               b(U) == IF U = {} THEN 0 ELSE TokenCount(h[CHOOSE x \in U : TRUE])
                                             + g[U \ {CHOOSE x \in U : TRUE}]
    <2>1. ASSUME NEW U \in SUBSET S PROVE a(U) = b(U)
        <3>1. CASE U = {} BY <3>1
        <3>2. CASE U # {}
            <4>1. (CHOOSE x \in U : TRUE) \in 1..Len(h) BY <1>0, <3>2
            <4> QED BY <3>2, <4>1 DEF CountsAt
        <3> QED BY <3>1, <3>2
    <2>2. /\ Recursion(g, CountsAt(h), S) <=> g = [U \in SUBSET S |-> a(U)]
          /\ HistoryRecursion(g, h, S) <=> g = [U \in SUBSET S |-> b(U)]
        BY DEF Recursion, HistoryRecursion
    <2> HIDE DEF a, b
    <2>3. [U \in SUBSET S |-> a(U)] = [U \in SUBSET S |-> b(U)] BY <2>1
    <2> QED BY <2>2, <2>3
<1> DEFINE g == CHOOSE e : HistoryRecursion(e, h, S)
<1>4. HistoryRecursion(g, h, S)
    <2>1. \A k \in S : CountsAt(h)[k] \in Nat BY <1>0, <1>2
    <2> QED BY <1>1, <2>1, <1>3, RecursionExists
<1>5. SumAt(h, S) = g[S]
    BY DEF SumAt, MapThenSumSet, MapThenFoldSet, HistoryRecursion
<1>6. S \in SUBSET S OBVIOUS
<1>7. Recursion(g, CountsAt(h), S) /\ \A k \in S : CountsAt(h)[k] \in Nat
    BY <1>0, <1>2, <1>3, <1>4
<1> HIDE DEF g
<1>8. g[S] = Cardinality(Units(CountsAt(h), S)) BY <1>1, <1>6, <1>7, RecursionUnique
<1> QED BY <1>1, <1>2, <1>5, <1>8

\* One more message adds its count.
LEMMA SumAtAdds ==
    ASSUME NEW h, NEW S, NEW n
    PROVE  h \in Seq(Message) /\ S \in SUBSET (1..Len(h)) /\ n \in 1..Len(h) \ S =>
           /\ SumAt(h, S) \in Nat
           /\ SumAt(h, S \cup {n}) = SumAt(h, S) + TokenCount(h[n])
<1>0. SUFFICES ASSUME h \in Seq(Message), S \in SUBSET (1..Len(h)), n \in 1..Len(h), n \notin S
               PROVE  /\ SumAt(h, S) \in Nat
                      /\ SumAt(h, S \cup {n}) = SumAt(h, S) + TokenCount(h[n])
    OBVIOUS
<1> DEFINE D == 1..Len(h)
           f == CountsAt(h)
           T == S \cup {n}
<1>1. IsFiniteSet(D) /\ \A k \in D : f[k] \in Nat
    <2>1. D \in SUBSET D OBVIOUS
    <2> HIDE DEF f
    <2> QED BY <1>0, <2>1, SumAtIsCount DEF f
<1>2. T \in SUBSET D /\ S \in SUBSET D /\ n \in T BY <1>0
<1>3. T \ {n} = S BY <1>0
<1>4. f[n] = TokenCount(h[n]) BY <1>0 DEF CountsAt
<1> HIDE DEF f, T
<1>5. SumAt(h, S) = Cardinality(Units(f, S)) /\ SumAt(h, T) = Cardinality(Units(f, T))
    BY <1>0, <1>2, SumAtIsCount DEF f
<1> HIDE DEF D
<1>6. Cardinality(Units(f, T)) = f[n] + Cardinality(Units(f, T \ {n}))
    BY <1>1, <1>2, UnitsAdd
<1>7. Cardinality(Units(f, S)) \in Nat
    BY <1>1, <1>2, FS_Subset, UnitsFinite, FS_CardinalityType
<1>8. f[n] \in Nat BY <1>1, <1>2
<1>9. SumAt(h, T) = f[n] + SumAt(h, S) BY <1>3, <1>5, <1>6, Zenon
<1>10. SumAt(h, S) \in Nat BY <1>5, <1>7
<1>11. SumAt(h, T) = SumAt(h, S) + f[n] BY <1>8, <1>9, <1>10
<1> QED BY <1>4, <1>10, <1>11 DEF T

\* No messages have no tokens.
LEMMA NothingSums ==
    ASSUME NEW h \in Seq(Message)
    PROVE  SumAt(h, {}) = 0
<1>1. SumAt(h, {}) = Cardinality(Units(CountsAt(h), {})) BY SumAtIsCount
<1>2. Units(CountsAt(h), {}) = {} BY DEF Units
<1> QED BY <1>1, <1>2, FS_EmptySet

\* The loop has examined nothing at first.
LEMMA WindowInvInit == WindowInit => WindowInv
<1> SUFFICES ASSUME WindowInit PROVE WindowInv OBVIOUS
<1>1. history \in Seq(Message) BY InputsAssumption DEF WindowInit
<1>2. fixed \in Nat
    <2>1. PICK s \in SystemLengths, p \in PromptLengths :
              fixed = EstimateTokens(s) + EstimateTokens(p)
        BY DEF WindowInit
    <2>2. s \in Nat /\ p \in Nat BY InputsAssumption
    <2>3. EstimateTokens(s) \in Nat /\ EstimateTokens(p) \in Nat BY <2>2, EstimateType
    <2> QED BY <2>1, <2>3, SMT
<1>3. Len(history) \in Nat BY <1>1
<1>4. WindowTypeOK BY <1>1, <1>2, <1>3, SMT DEF WindowInit, WindowTypeOK
<1>5. WithinBudget BY DEF WindowInit, WithinBudget
<1>6. Chronological BY SMT DEF WindowInit, Chronological
<1>7. SelectionIsGreedy
    <2>1. Selected = {} /\ Examined = {} BY <1>3, SMT DEF WindowInit, Selected, Examined
    <2>2. TokensIn({}) = 0 BY <1>1, NothingSums DEF SumAt, TokensIn
    <2> QED BY <1>2, <2>1, <2>2, FS_EmptySet, SMT DEF WindowInit, SelectionIsGreedy
<1> QED BY <1>4, <1>5, <1>6, <1>7 DEF WindowInv

\* The message under examination.
LEMMA NextMessage ==
    ASSUME WindowTypeOK, next > 0
    PROVE  /\ next \in 1..Len(history)
           /\ next - 1 \in 0..Len(history)
           /\ TokenCount(history[next]) \in Nat
<1>1. next \in 1..Len(history) /\ next - 1 \in 0..Len(history)
    BY SMT DEF WindowTypeOK
<1>2. history[next] \in Message BY <1>1 DEF WindowTypeOK
<1> QED BY <1>1, <1>2, TokensType

\* What the loop says of the places it has left behind does not change, and
\* of the next one it says what the code does with it.
LEMMA WhatIsExamined ==
    ASSUME WindowInv, next > 0
    PROVE  /\ next \in 1..Len(history) /\ next \notin Examined
           /\ next - 1 + 1 = next
           /\ next..Len(history) = Examined \cup {next}
           /\ \A k \in Examined : k \in Nat /\ k > next
           /\ Selected \subseteq Examined /\ Selected \in SUBSET (1..Len(history))
           /\ IsFiniteSet(Examined) /\ IsFiniteSet(Examined \ Selected)
<1>1. next \in 1..Len(history) BY NextMessage DEF WindowInv
<1>2. Len(history) \in Nat /\ next \in Nat BY <1>1 DEF WindowInv, WindowTypeOK
<1>3. /\ next \notin Examined /\ next - 1 + 1 = next
      /\ next..Len(history) = Examined \cup {next}
      /\ \A k \in Examined : k \in Nat /\ k > next
      /\ Examined \subseteq 1..Len(history)
    BY <1>1, <1>2, SMT DEF Examined
<1>4. Selected \subseteq Examined BY DEF WindowInv, Chronological, Selected
<1>5. IsFiniteSet(Examined) BY <1>2, FS_Interval DEF Examined
<1>6. IsFiniteSet(Examined \ Selected) BY <1>5, FS_Subset
<1> QED BY <1>1, <1>3, <1>4, <1>5, <1>6

\* The turns later than k.
Later(S, k) == {j \in S : j > k}

Greedy(k) ==
    k \in Selected <=>
        fixed + TokensIn(Later(Selected, k)) + TokenCount(history[k]) <= MaxInputBudget

\* The rule holds when a message is kept, and when one is dropped.
LEMMA GreedyIfKept ==
    ASSUME WindowInv, Keep, WindowTypeOK'
    PROVE  SelectionIsGreedy'
<1> DEFINE t == TokenCount(history[next])
<1>1. /\ current + t <= MaxInputBudget /\ current' = current + t
      /\ selected' = <<next>> \o selected /\ next' = next - 1 /\ next > 0
      /\ UNCHANGED <<history, fixed, truncated>>
    BY DEF Keep, Fits
<1>2. t \in Nat /\ current \in Nat /\ fixed \in Nat /\ selected \in Seq(Nat) /\ next \in Nat
    BY <1>1, NextMessage DEF WindowInv, WindowTypeOK
<1> HIDE DEF t
<1>3. Selected' = Selected \cup {next}
    <2>1. /\ selected' \in Seq(Nat) /\ Len(selected') = Len(selected) + 1 /\ Len(selected) \in Nat
          /\ selected'[1] = next
          /\ \A i \in 2..Len(selected') : selected'[i] = selected[i - 1]
          /\ \A i \in 1..Len(selected) : i + 1 \in 2..Len(selected') /\ selected'[i + 1] = selected[i]
        BY <1>1, <1>2, SMT
    <2>2. ASSUME NEW k \in Selected' PROVE k \in Selected \cup {next}
        <3>1. PICK i \in 1..Len(selected') : k = selected'[i] BY <2>2 DEF Selected
        <3>2. CASE i = 1 BY <3>1, <3>2, <2>1
        <3>3. CASE i # 1
            <4>1. i \in 2..Len(selected') /\ i - 1 \in 1..Len(selected) BY <3>3, <2>1, SMT
            <4> QED BY <4>1, <3>1, <2>1 DEF Selected
        <3> QED BY <3>2, <3>3
    <2>3. ASSUME NEW k \in Selected PROVE k \in Selected'
        <3>1. PICK i \in 1..Len(selected) : k = selected[i] BY <2>3 DEF Selected
        <3>2. i + 1 \in 1..Len(selected') /\ selected'[i + 1] = k BY <3>1, <2>1, SMT
        <3> QED BY <3>2 DEF Selected
    <2>4. next \in Selected'
        <3>1. 1 \in 1..Len(selected') BY <2>1, SMT
        <3> QED BY <3>1, <2>1 DEF Selected
    <2> QED BY <2>2, <2>3, <2>4
<1>4. Examined' = Examined \cup {next} BY <1>1, WhatIsExamined DEF Examined
<1>5. /\ TokensIn(Selected)' = TokensIn(Selected')
      /\ \A k : TokensIn({j \in Selected : j > k})' = TokensIn(Later(Selected', k))
    <2>1. ASSUME NEW S PROVE TokensIn(S) = SumAt(history, S) BY DEF TokensIn, SumAt
    <2>2. TokensIn(Selected)' = SumAt(history', Selected')
        BY DEF TokensIn, SumAt, MapThenSumSet, MapThenFoldSet
    <2>3. ASSUME NEW k
          PROVE  TokensIn({j \in Selected : j > k})' = SumAt(history', Later(Selected', k))
        BY DEF TokensIn, SumAt, MapThenSumSet, MapThenFoldSet, Later
    <2> QED BY <2>1, <2>2, <2>3, <1>1
<1>6. TokensIn(Selected) \in Nat /\ TokensIn(Selected \cup {next}) = TokensIn(Selected) + t
    <2>1. ASSUME NEW S PROVE TokensIn(S) = SumAt(history, S) BY DEF TokensIn, SumAt
    <2>2. history \in Seq(Message) /\ next \in 1..Len(history) /\ next \notin Selected
          /\ Selected \in SUBSET (1..Len(history))
        BY <1>1, WhatIsExamined DEF WindowInv, WindowTypeOK
    <2> QED BY <2>1, <2>2, SumAtAdds DEF t
<1>7. current' = fixed + TokensIn(Selected')
    BY <1>1, <1>2, <1>3, <1>6, SMT DEF WindowInv, SelectionIsGreedy
<1>8. \A k : k \in Examined => Later(Selected', k) = Later(Selected, k)
    BY <1>1, <1>3, WhatIsExamined DEF Later
<1>9. Later(Selected', next) = Selected
    <2>1. \A j \in Selected : j > next BY <1>1, WhatIsExamined
    <2>2. ~ (next > next) BY <1>2
    <2> QED BY <2>1, <2>2, <1>3 DEF Later
<1>10. ASSUME NEW k \in Examined'
       PROVE  k \in Selected' <=>
                fixed + TokensIn(Later(Selected', k)) + TokenCount(history[k]) <= MaxInputBudget
    <2>1. CASE k = next
        BY <2>1, <1>1, <1>2, <1>3, <1>6, <1>9, SMT DEF WindowInv, SelectionIsGreedy, t
    <2>2. CASE k # next
        <3>1. k \in Examined BY <2>2, <1>4
        <3>2. Greedy(k) BY <3>1 DEF WindowInv, SelectionIsGreedy, Greedy, Later
        <3>3. k \in Selected' <=> k \in Selected BY <2>2, <1>3
        <3> QED BY <3>1, <3>2, <3>3, <1>8 DEF Greedy
    <2> QED BY <2>1, <2>2
<1>11. ASSUME NEW k \in Examined'
       PROVE  k \in Selected' <=>
                fixed' + TokensIn({j \in Selected : j > k})' + TokenCount(history'[k])
                    <= MaxInputBudget'
    <2>1. TokensIn({j \in Selected : j > k})' = TokensIn(Later(Selected', k)) BY <1>5
    <2> QED BY <2>1, <1>1, <1>10 DEF MaxInputBudget
<1>12. truncated' = Cardinality(Examined' \ Selected')
    <2>1. Examined' \ Selected' = Examined \ Selected BY <1>1, <1>3, <1>4, WhatIsExamined
    <2> QED BY <2>1, <1>1 DEF WindowInv, SelectionIsGreedy
<1>13. current' = fixed' + TokensIn(Selected)' BY <1>1, <1>5, <1>7
<1> QED BY <1>11, <1>12, <1>13 DEF SelectionIsGreedy

LEMMA GreedyIfDropped ==
    ASSUME WindowInv, Drop
    PROVE  SelectionIsGreedy'
<1> DEFINE t == TokenCount(history[next])
<1>1. /\ ~ (current + t <= MaxInputBudget) /\ truncated' = truncated + 1
      /\ next' = next - 1 /\ next > 0
      /\ UNCHANGED <<history, fixed, current, selected>>
    BY DEF Drop, Fits
<1> HIDE DEF t
<1>2. Selected' = Selected BY <1>1 DEF Selected
<1>3. Examined' = Examined \cup {next} BY <1>1, WhatIsExamined DEF Examined
<1>4. /\ TokensIn(Selected)' = TokensIn(Selected')
      /\ \A k : TokensIn({j \in Selected : j > k})' = TokensIn(Later(Selected', k))
    <2>1. ASSUME NEW S PROVE TokensIn(S) = SumAt(history, S) BY DEF TokensIn, SumAt
    <2>2. TokensIn(Selected)' = SumAt(history', Selected')
        BY DEF TokensIn, SumAt, MapThenSumSet, MapThenFoldSet
    <2>3. ASSUME NEW k
          PROVE  TokensIn({j \in Selected : j > k})' = SumAt(history', Later(Selected', k))
        BY DEF TokensIn, SumAt, MapThenSumSet, MapThenFoldSet, Later
    <2> QED BY <2>1, <2>2, <2>3, <1>1
<1>5. Later(Selected, next) = Selected /\ next \notin Selected
    BY <1>1, WhatIsExamined DEF Later
<1>6. ASSUME NEW k \in Examined'
      PROVE  k \in Selected <=>
                fixed + TokensIn(Later(Selected, k)) + TokenCount(history[k]) <= MaxInputBudget
    <2>1. CASE k = next
        BY <2>1, <1>1, <1>5 DEF WindowInv, SelectionIsGreedy, t
    <2>2. CASE k # next
        <3>1. k \in Examined BY <2>2, <1>3
        <3> QED BY <3>1 DEF WindowInv, SelectionIsGreedy, Later
    <2> QED BY <2>1, <2>2
<1>7. ASSUME NEW k \in Examined'
      PROVE  k \in Selected' <=>
                fixed' + TokensIn({j \in Selected : j > k})' + TokenCount(history'[k])
                    <= MaxInputBudget'
    <2>1. TokensIn({j \in Selected : j > k})' = TokensIn(Later(Selected, k))
        BY <1>2, <1>4
    <2> QED BY <2>1, <1>1, <1>2, <1>6 DEF MaxInputBudget
<1>8. truncated' = Cardinality(Examined' \ Selected')
    <2> DEFINE S == Examined \ Selected
    <2>1. Examined' \ Selected' = S \cup {next} /\ next \notin S
        BY <1>1, <1>2, <1>3, <1>5, WhatIsExamined
    <2>2. IsFiniteSet(S) BY <1>1, WhatIsExamined
    <2>3. truncated = Cardinality(S) BY DEF WindowInv, SelectionIsGreedy
    <2> HIDE DEF S
    <2>4. Cardinality(S \cup {next}) = Cardinality(S) + 1 BY <2>1, <2>2, FS_AddElement
    <2> QED BY <2>1, <2>3, <2>4, <1>1
<1>9. current' = fixed' + TokensIn(Selected)' BY <1>1, <1>2, <1>4 DEF WindowInv, SelectionIsGreedy
<1> QED BY <1>7, <1>8, <1>9 DEF SelectionIsGreedy

\* Each step of the loop keeps the invariant.
LEMMA KeepStep ==
    ASSUME WindowInv, Keep
    PROVE  WindowInv'
<1> DEFINE t == TokenCount(history[next])
<1>1. /\ next \in 1..Len(history) /\ next - 1 \in 0..Len(history) /\ t \in Nat
    BY NextMessage DEF WindowInv, Keep
<1>2. /\ current \in Nat /\ fixed \in Nat /\ selected \in Seq(Nat)
      /\ Len(selected) \in Nat /\ Len(history) \in Nat /\ next \in Nat
    BY <1>1, SMT DEF WindowInv, WindowTypeOK
<1>3. /\ current + t <= MaxInputBudget
      /\ current' = current + t
      /\ selected' = <<next>> \o selected
      /\ next' = next - 1
    BY DEF Keep, Fits
<1>4. UNCHANGED <<history, fixed, truncated>> BY DEF Keep
<1> HIDE DEF t
<1>5. selected' \in Seq(Nat) BY <1>2, <1>3, SMT
<1>6. WindowTypeOK'
    <2>1. current' \in Nat BY <1>1, <1>2, <1>3, SMT
    <2> QED BY <2>1, <1>1, <1>3, <1>4, <1>5 DEF WindowInv, WindowTypeOK
<1>7. WithinBudget'
    <2>1. MaxInputBudget' = MaxInputBudget BY DEF MaxInputBudget
    <2> QED BY <2>1, <1>3 DEF WithinBudget
<1>8. /\ Len(selected') = Len(selected) + 1
      /\ selected'[1] = next
      /\ \A i \in 2..Len(selected') : selected'[i] = selected[i - 1]
    BY <1>2, <1>3, SMT
<1>9. \A i \in 1..Len(selected) : selected[i] > next /\ selected[i] <= Len(history)
    BY <1>2, SMT DEF WindowInv, Chronological, Examined
<1>10. \A i \in 1..Len(selected') : selected'[i] \in Examined'
    <2> SUFFICES ASSUME NEW i \in 1..Len(selected') PROVE selected'[i] \in Examined'
        OBVIOUS
    <2>1. Examined' = next..Len(history) BY <1>2, <1>3, <1>4, SMT DEF Examined
    <2>2. CASE i = 1 BY <2>1, <2>2, <1>1, <1>8, SMT
    <2>3. CASE i # 1
        <3>1. i \in 2..Len(selected') /\ i - 1 \in 1..Len(selected)
            BY <2>3, <1>2, <1>8, SMT
        <3>2. selected'[i] = selected[i - 1] BY <3>1, <1>8
        <3>3. selected[i - 1] \in Nat BY <3>1, <1>2
        <3> QED BY <3>1, <3>2, <3>3, <2>1, <1>2, <1>9, SMT
    <2> QED BY <2>2, <2>3
<1>11. \A i, j \in 1..Len(selected') : i < j => selected'[i] < selected'[j]
    <2> SUFFICES ASSUME NEW i \in 1..Len(selected'), NEW j \in 1..Len(selected'), i < j
                 PROVE  selected'[i] < selected'[j]
        OBVIOUS
    <2>1. j \in 2..Len(selected') /\ j - 1 \in 1..Len(selected) BY <1>2, <1>8, SMT
    <2>2. selected'[j] = selected[j - 1] BY <2>1, <1>8
    <2>3. CASE i = 1 BY <2>1, <2>2, <2>3, <1>8, <1>9
    <2>4. CASE i # 1
        <3>1. i \in 2..Len(selected') /\ i - 1 \in 1..Len(selected) /\ i - 1 < j - 1
            BY <2>4, <1>2, <1>8, SMT
        <3>2. selected'[i] = selected[i - 1] BY <3>1, <1>8
        <3>3. selected[i - 1] < selected[j - 1]
            BY <2>1, <3>1 DEF WindowInv, Chronological
        <3> QED BY <2>2, <3>2, <3>3
    <2> QED BY <2>3, <2>4
<1>12. Chronological' BY <1>10, <1>11 DEF Chronological
<1>13. SelectionIsGreedy' BY <1>6, GreedyIfKept
<1> QED BY <1>6, <1>7, <1>12, <1>13 DEF WindowInv

LEMMA DropStep ==
    ASSUME WindowInv, Drop
    PROVE  WindowInv'
<1>1. /\ next \in 1..Len(history) /\ next - 1 \in 0..Len(history)
    BY NextMessage DEF WindowInv, Drop
<1>2. /\ next' = next - 1 /\ truncated' = truncated + 1
      /\ UNCHANGED <<history, fixed, current, selected>>
    BY DEF Drop
<1>3. WindowTypeOK'
    <2>1. truncated' \in Nat BY <1>2, SMT DEF WindowInv, WindowTypeOK
    <2> QED BY <2>1, <1>1, <1>2 DEF WindowInv, WindowTypeOK
<1>4. WithinBudget' BY <1>2 DEF WindowInv, WithinBudget, MaxInputBudget
<1>5. Chronological'
    <2>1. next \in Nat /\ Len(history) \in Nat BY <1>1, SMT DEF WindowInv, WindowTypeOK
    <2>2. Examined \subseteq Examined' BY <2>1, <1>2, SMT DEF Examined
    <2> QED BY <2>2, <1>2 DEF WindowInv, Chronological
<1>6. SelectionIsGreedy' BY GreedyIfDropped
<1> QED BY <1>3, <1>4, <1>5, <1>6 DEF WindowInv

LEMMA WindowInvNext == WindowInv /\ [WindowNext]_windowVars => WindowInv'
<1> SUFFICES ASSUME WindowInv, [WindowNext]_windowVars PROVE WindowInv' OBVIOUS
<1>1. CASE Keep BY <1>1, KeepStep
<1>2. CASE Drop BY <1>2, DropStep
<1>3. CASE UNCHANGED windowVars
    <2>1. WindowTypeOK' /\ WithinBudget' /\ Chronological'
        BY <1>3 DEF windowVars, WindowInv, WindowTypeOK, WithinBudget, MaxInputBudget,
                    Chronological, Examined
    <2>2. SelectionIsGreedy'
        <3>1. /\ Examined' = Examined /\ Selected' = Selected /\ MaxInputBudget' = MaxInputBudget
              /\ UNCHANGED <<history, fixed, current, truncated>>
            BY <1>3 DEF windowVars, Examined, Selected, MaxInputBudget
        <3>2. ASSUME NEW S PROVE TokensIn(S) = SumAt(history, S) BY DEF TokensIn, SumAt
        <3>3. TokensIn(Selected)' = SumAt(history', Selected')
            BY DEF TokensIn, SumAt, MapThenSumSet, MapThenFoldSet
        <3>4. ASSUME NEW k
              PROVE  TokensIn({j \in Selected : j > k})' = SumAt(history', {j \in Selected' : j > k})
            BY DEF TokensIn, SumAt, MapThenSumSet, MapThenFoldSet
        <3>5. TokensIn(Selected)' = TokensIn(Selected)
            BY <3>1, <3>2, <3>3
        <3>6. \A k : TokensIn({j \in Selected : j > k})' = TokensIn({j \in Selected : j > k})
            BY <3>1, <3>2, <3>4
        <3> QED BY <3>1, <3>5, <3>6 DEF WindowInv, SelectionIsGreedy
    <2> QED BY <2>1, <2>2 DEF WindowInv
<1> QED BY <1>1, <1>2, <1>3 DEF WindowNext

\* The inductive invariant holds after every turn examined.
THEOREM WindowInvHolds == WindowSpec => []WindowInv
BY WindowInvInit, WindowInvNext, PTL DEF WindowSpec

\* History never pushes a context over the input budget
\* (context-manager.ts 59).
THEOREM AlwaysWithinBudget == WindowSpec => []WithinBudget
<1>1. WindowInv => WithinBudget BY DEF WindowInv
<1> QED BY WindowInvHolds, <1>1, PTL

\* The selected turns are distinct and in the order of the conversation
\* (context-manager.ts 54-64: reversed, then unshifted).
THEOREM AlwaysChronological == WindowSpec => []Chronological
<1>1. WindowInv => Chronological BY DEF WindowInv
<1> QED BY WindowInvHolds, <1>1, PTL

\* What is sent are the turns the greedy rule picks, from the newest on, and
\* the totals given to the rate limiter and the router are exactly theirs
\* (context-manager.ts 46-70).
THEOREM SelectionAlwaysGreedy == WindowSpec => []SelectionIsGreedy
<1>1. WindowInv => SelectionIsGreedy BY DEF WindowInv
<1> QED BY WindowInvHolds, <1>1, PTL
-----------------------------------------------------------------------------
(* ConversationStore: sums of token counts *)

\* The tokens of a set of messages, and of one message more.
LEMMA TokensOfIsCount ==
    ASSUME NEW S \in SUBSET Messages
    PROVE  /\ IsFiniteSet(S)
           /\ TokensOf(S) = Cardinality(Units(Tokens, S)) /\ TokensOf(S) \in Nat
<1>1. IsFiniteSet(S) BY StoreAssumption, FS_Subset
<1>2. \A x \in S : Tokens[x] \in Nat BY StoreAssumption
<1>3. TokensOf(S) = Cardinality(Units(Tokens, S)) BY <1>1, <1>2, SumIsCount DEF TokensOf
<1>4. IsFiniteSet(Units(Tokens, S)) BY <1>1, <1>2, UnitsFinite
<1> QED BY <1>1, <1>3, <1>4, FS_CardinalityType

LEMMA NoTokens == TokensOf({}) = 0
<1>1. Units(Tokens, {}) = {} BY DEF Units
<1>2. TokensOf({}) = Cardinality(Units(Tokens, {})) BY TokensOfIsCount
<1> QED BY <1>1, <1>2, FS_EmptySet

LEMMA TokensAdd ==
    ASSUME NEW S \in SUBSET Messages, NEW m \in Messages \ S
    PROVE  TokensOf(S \cup {m}) = TokensOf(S) + Tokens[m]
<1> DEFINE T == S \cup {m}
<1>1. T \in SUBSET Messages /\ m \in T /\ T \ {m} = S /\ IsFiniteSet(T)
    BY TokensOfIsCount
<1>2. \A x \in T : Tokens[x] \in Nat BY StoreAssumption
<1>3. Tokens[m] \in Nat BY <1>2
<1>4. T \in SUBSET T OBVIOUS
<1> HIDE DEF T
<1>5. Cardinality(Units(Tokens, T)) = Tokens[m] + Cardinality(Units(Tokens, T \ {m}))
    BY <1>1, <1>2, <1>4, UnitsAdd
<1>6. TokensOf(T) = Cardinality(Units(Tokens, T)) BY <1>1, TokensOfIsCount
<1>7. TokensOf(S) = Cardinality(Units(Tokens, S)) /\ TokensOf(S) \in Nat BY TokensOfIsCount
<1>8. TokensOf(T) = Tokens[m] + TokensOf(S) BY <1>1, <1>5, <1>6, <1>7, Zenon
<1> QED BY <1>3, <1>7, <1>8 DEF T

-----------------------------------------------------------------------------
(* ConversationStore: what each step does to the fields *)

Tables == [conversations : SUBSET Conversations, count : [Ids -> Nat],
           messages : SUBSET Messages, requests : SUBSET Requests]
Memory == [conversations : SUBSET Conversations, count : [Ids -> Nat],
           messages : [Ids -> Seq(Messages)], requests : SUBSET Requests]

\* A statement runs, throws, or both; the lemmas that follow say what each
\* action does.
LEMMA RunsEffect ==
    ASSUME TypeOK, NEW after, Runs(after)
    PROVE  /\ pg' \in {pg, after}
           /\ failures' = failures \/ (failures < MaxFailures /\ failures' = failures + 1)
           /\ failures' = failures => pg' = after
           /\ UNCHANGED <<mem, calls, connected, restarts, away>>
<1>1. failures \in Nat BY StoreAssumption, SMT DEF TypeOK
<1> QED BY <1>1 DEF Runs, Answers, Throws, gateway

\* Failures are counted.
LEMMA FailuresGrow ==
    ASSUME failures \in 0..MaxFailures,
           failures' = failures \/ (failures < MaxFailures /\ failures' = failures + 1)
    PROVE  /\ failures' \in 0..MaxFailures
           /\ failures' = 0 => failures' = failures
           /\ failures <= failures' /\ failures \in Nat /\ failures' \in Nat
BY StoreAssumption, SMT

LEMMA InsertConversationEffect ==
    ASSUME TypeOK, NEW c \in Conversations, InsertConversation(c)
    PROVE  /\ connected /\ creating[c] = "idle"
           /\ creating' = [creating EXCEPT ![c] = "memory"]
           /\ pg' \in Tables
           /\ pg'.conversations \in {pg.conversations, pg.conversations \cup {c}}
           /\ pg'.count = pg.count /\ pg'.messages = pg.messages /\ pg'.requests = pg.requests
           /\ failures' = failures \/ (failures < MaxFailures /\ failures' = failures + 1)
           /\ failures' = failures => pg'.conversations = pg.conversations \cup {c}
           /\ UNCHANGED <<mem, calls, connected, restarts, away, saving, deleting, recording>>
<1> DEFINE after == [pg EXCEPT !.conversations = @ \cup {c}]
<1>1. pg \in Tables BY DEF TypeOK, Tables
<1>2. /\ after \in Tables /\ after.conversations = pg.conversations \cup {c}
      /\ after.count = pg.count /\ after.messages = pg.messages /\ after.requests = pg.requests
    BY <1>1 DEF Tables
<1>3. Runs(after) BY DEF InsertConversation
<1> HIDE DEF after
<1> QED BY <1>1, <1>2, <1>3, RunsEffect DEF InsertConversation

LEMMA RememberConversationEffect ==
    ASSUME TypeOK, NEW c \in Conversations, RememberConversation(c)
    PROVE  /\ creating[c] = "memory" \/ (creating[c] = "idle" /\ ~connected)
           /\ creating' = [creating EXCEPT ![c] = "done"]
           /\ mem' \in Memory
           /\ mem'.conversations = mem.conversations \cup {c}
           /\ mem'.count = [mem.count EXCEPT ![c] = 0]
           /\ mem'.messages = [mem.messages EXCEPT ![c] = <<>>]
           /\ mem'.requests = mem.requests
           /\ UNCHANGED <<pg, calls, failures, connected, restarts, away, saving, deleting,
                          recording>>
<1>1. mem \in Memory /\ c \in Ids BY DEF TypeOK, Memory, Ids
<1>2. mem' = [mem EXCEPT !.conversations = @ \cup {c}, !.count[c] = 0, !.messages[c] = <<>>]
    BY DEF RememberConversation, Remembers
<1>3. /\ mem'.conversations = mem.conversations \cup {c}
      /\ mem'.count = [mem.count EXCEPT ![c] = 0]
      /\ mem'.messages = [mem.messages EXCEPT ![c] = <<>>]
      /\ mem'.requests = mem.requests
    BY <1>1, <1>2 DEF Memory
<1>4. /\ [mem.count EXCEPT ![c] = 0] \in [Ids -> Nat]
      /\ [mem.messages EXCEPT ![c] = <<>>] \in [Ids -> Seq(Messages)]
    BY <1>1 DEF Memory
<1>5. mem' \in Memory
    BY <1>1, <1>2, <1>4 DEF Memory
<1> QED BY <1>3, <1>5 DEF RememberConversation, Remembers, gateway

LEMMA InsertRequestEffect ==
    ASSUME TypeOK, NEW r \in Requests, InsertRequest(r)
    PROVE  /\ connected /\ recording[r] = "idle"
           /\ recording' = [recording EXCEPT ![r] = "memory"]
           /\ pg' \in Tables
           /\ pg'.conversations = pg.conversations
           /\ pg'.count = pg.count /\ pg'.messages = pg.messages
           /\ failures' = failures \/ (failures < MaxFailures /\ failures' = failures + 1)
           /\ UNCHANGED <<mem, calls, connected, restarts, away, saving, deleting, creating>>
<1> DEFINE after == [pg EXCEPT !.requests = @ \cup {r}]
<1>1. pg \in Tables BY DEF TypeOK, Tables
<1>2. /\ after \in Tables /\ after.conversations = pg.conversations
      /\ after.count = pg.count /\ after.messages = pg.messages
    BY <1>1 DEF Tables
<1>3. Runs(after) BY DEF InsertRequest
<1> HIDE DEF after
<1> QED BY <1>1, <1>2, <1>3, RunsEffect DEF InsertRequest, Recordable

LEMMA RememberRequestEffect ==
    ASSUME TypeOK, NEW r \in Requests, RememberRequest(r)
    PROVE  /\ recording' = [recording EXCEPT ![r] = "done"]
           /\ mem' \in Memory
           /\ mem'.conversations = mem.conversations
           /\ mem'.count = mem.count /\ mem'.messages = mem.messages
           /\ mem'.requests = mem.requests \cup {r}
           /\ UNCHANGED <<pg, calls, failures, connected, restarts, away, saving, deleting,
                          creating>>
<1>1. mem \in Memory BY DEF TypeOK, Memory
<1>2. mem' = [mem EXCEPT !.requests = @ \cup {r}] BY DEF RememberRequest, Remembers
<1>3. /\ mem' \in Memory
      /\ mem'.conversations = mem.conversations
      /\ mem'.count = mem.count /\ mem'.messages = mem.messages
      /\ mem'.requests = mem.requests \cup {r}
    BY <1>1, <1>2 DEF Memory
<1> QED BY <1>3 DEF RememberRequest, Remembers, gateway

LEMMA CallSaveEffect ==
    ASSUME TypeOK, NEW m \in Messages, CallSave(m)
    PROVE  /\ connected /\ Named(Thread[m]) /\ saving[m] = "idle"
           /\ m \in DOMAIN Question => saving[Question[m]] = "done"
           /\ calls' = Append(calls, m)
           /\ saving' = [saving EXCEPT ![m] = "insert"]
           /\ UNCHANGED <<pg, mem, creating, deleting, recording, failures, connected, restarts,
                          away>>
BY DEF CallSave, Callable, gateway

LEMMA InsertMessageEffect ==
    ASSUME TypeOK, NEW m \in Messages, InsertMessage(m)
    PROVE  /\ saving[m] = "insert"
           /\ \E to \in {"update", "memory"} :
                 /\ saving' = [saving EXCEPT ![m] = to]
                 /\ to = "update" => m \in pg'.messages
                 /\ failures' = failures /\ m \in pg'.messages => to = "update"
           /\ pg' \in Tables
           /\ pg'.conversations = pg.conversations
           /\ pg'.count = pg.count
           /\ pg'.messages \in {pg.messages, pg.messages \cup {m}}
           /\ pg'.messages # pg.messages => Thread[m] \in pg.conversations
           /\ failures' = failures \/ (failures < MaxFailures /\ failures' = failures + 1)
           /\ failures' = failures /\ Thread[m] \in pg.conversations =>
                 pg'.messages = pg.messages \cup {m}
           /\ UNCHANGED <<mem, calls, connected, restarts, away, creating, deleting, recording>>
<1> DEFINE known == Thread[m] \in pg.conversations
           after == [pg EXCEPT !.messages = IF known THEN @ \cup {m} ELSE @]
<1>1. pg \in Tables /\ \A n \in pg.messages : Thread[n] \in pg.conversations
    BY DEF TypeOK, Tables
<1>2. /\ after \in Tables /\ after.conversations = pg.conversations
      /\ after.count = pg.count /\ after.requests = pg.requests
      /\ known => after.messages = pg.messages \cup {m}
      /\ ~known => after.messages = pg.messages
    BY <1>1 DEF Tables
<1>3. /\ saving[m] = "insert"
      /\ UNCHANGED <<mem, calls, connected, restarts, away, creating, deleting, recording>>
    BY DEF InsertMessage, gateway
<1>4. \/ Answers(after) /\ saving' = [saving EXCEPT ![m] = IF known THEN "update" ELSE "memory"]
      \/ Throws(after) /\ saving' = [saving EXCEPT ![m] = "memory"]
    BY DEF InsertMessage
<1> HIDE DEF after
<1>5. CASE Answers(after) /\ saving' = [saving EXCEPT ![m] = IF known THEN "update" ELSE "memory"]
    <2>1. pg' = after /\ failures' = failures BY <1>5 DEF Answers
    <2>2. CASE known BY <2>1, <2>2, <1>1, <1>2, <1>3, <1>5
    <2>3. CASE ~known BY <2>1, <2>3, <1>1, <1>2, <1>3, <1>5
    <2> QED BY <2>2, <2>3
<1>6. CASE Throws(after) /\ saving' = [saving EXCEPT ![m] = "memory"]
    <2>1. pg' \in {pg, after} /\ failures < MaxFailures /\ failures' = failures + 1
        BY <1>6 DEF Throws
    <2>2. failures' # failures BY <2>1, SMT DEF TypeOK
    <2> QED BY <2>1, <2>2, <1>1, <1>2, <1>3, <1>6
<1> QED BY <1>4, <1>5, <1>6

\* The count of a conversation grows by the tokens of a message.
LEMMA AddType ==
    ASSUME NEW count \in [Ids -> Nat], NEW m \in Messages
    PROVE  /\ AddTo(count, m) \in [Ids -> Nat]
           /\ AddTo(count, m)[Thread[m]] = count[Thread[m]] + Tokens[m]
           /\ \A c \in Ids \ {Thread[m]} : AddTo(count, m)[c] = count[c]
<1>1. Thread[m] \in Ids /\ Tokens[m] \in Nat BY StoreAssumption
<1> QED BY <1>1 DEF AddTo

LEMMA UpdateCountEffect ==
    ASSUME TypeOK, NEW m \in Messages, UpdateCount(m)
    PROVE  /\ saving[m] = "update"
           /\ saving' = [saving EXCEPT ![m] = "memory"]
           /\ pg' \in Tables
           /\ pg'.conversations = pg.conversations /\ pg'.messages = pg.messages
           /\ pg'.count \in {pg.count, NewCount(m)}
           /\ failures' = failures \/ (failures < MaxFailures /\ failures' = failures + 1)
           /\ failures' = failures => pg'.count = NewCount(m)
           /\ UNCHANGED <<mem, calls, connected, restarts, away, creating, deleting, recording>>
<1> DEFINE after == [pg EXCEPT !.count = NewCount(m)]
<1>1. pg \in Tables BY DEF TypeOK, Tables
<1>2. NewCount(m) \in [Ids -> Nat] BY <1>1, AddType DEF NewCount, Tables
<1>3. /\ after \in Tables /\ after.conversations = pg.conversations
      /\ after.count = NewCount(m) /\ after.messages = pg.messages
    BY <1>1, <1>2 DEF Tables
<1>4. Runs(after) BY DEF UpdateCount
<1> HIDE DEF after
<1> QED BY <1>1, <1>3, <1>4, RunsEffect DEF UpdateCount

LEMMA RememberMessageEffect ==
    ASSUME TypeOK, NEW m \in Messages, RememberMessage(m)
    PROVE  /\ saving[m] = "memory"
              \/ ( /\ saving[m] = "idle" /\ ~connected /\ Named(Thread[m])
                   /\ m \in DOMAIN Question => saving[Question[m]] = "done")
           /\ saving' = [saving EXCEPT ![m] = "done"]
           /\ mem' \in Memory
           /\ mem'.conversations = mem.conversations /\ mem'.requests = mem.requests
           /\ mem'.messages = [mem.messages EXCEPT ![Thread[m]] = Append(@, m)]
           /\ mem'.count = IF Thread[m] \in mem.conversations THEN AddTo(mem.count, m)
                           ELSE mem.count
           /\ UNCHANGED <<pg, calls, failures, connected, restarts, away, creating, deleting,
                          recording>>
<1>1. mem \in Memory /\ Thread[m] \in Ids BY StoreAssumption DEF TypeOK, Memory
<1>2. mem' = Push(m) BY DEF RememberMessage, Remembers
<1> DEFINE list == Append(mem.messages[Thread[m]], m)
           count == IF Thread[m] \in mem.conversations THEN AddTo(mem.count, m) ELSE mem.count
<1>3. list \in Seq(Messages) BY <1>1 DEF Memory
<1>4. count \in [Ids -> Nat] BY <1>1, AddType DEF Memory
<1>5. mem' = [mem EXCEPT !.messages[Thread[m]] = list, !.count = count]
    BY <1>2 DEF Push
<1> HIDE DEF list, count
<1>6. /\ mem'.conversations = mem.conversations /\ mem'.requests = mem.requests
      /\ mem'.messages = [mem.messages EXCEPT ![Thread[m]] = list]
      /\ mem'.count = count
    BY <1>1, <1>5 DEF Memory
<1>7. [mem.messages EXCEPT ![Thread[m]] = list] \in [Ids -> Seq(Messages)]
    BY <1>1, <1>3 DEF Memory
<1>8. mem' \in Memory BY <1>1, <1>4, <1>5, <1>7 DEF Memory
<1>9. mem'.messages = [mem.messages EXCEPT ![Thread[m]] = Append(@, m)]
    BY <1>6 DEF list
<1> QED BY <1>6, <1>8, <1>9 DEF RememberMessage, Remembers, Callable, gateway, count

LEMMA DeleteRowsEffect ==
    ASSUME TypeOK, NEW c \in Ids, DeleteRows(c)
    PROVE  /\ connected /\ Named(c) /\ deleting[c] = "idle"
           /\ deleting' = [deleting EXCEPT ![c] = "memory"]
           /\ pg' \in Tables
           /\ pg' = pg \/ /\ pg'.conversations = pg.conversations \ {c}
                          /\ pg'.count = [pg.count EXCEPT ![c] = 0]
                          /\ pg'.messages = {m \in pg.messages : Thread[m] # c}
           /\ failures' = failures \/ (failures < MaxFailures /\ failures' = failures + 1)
           /\ failures' = failures => /\ pg'.conversations = pg.conversations \ {c}
                                      /\ pg'.count = [pg.count EXCEPT ![c] = 0]
                                      /\ pg'.messages = {m \in pg.messages : Thread[m] # c}
           /\ UNCHANGED <<mem, calls, connected, restarts, away, creating, saving, recording>>
<1> DEFINE after == WithoutRows(c)
<1>1. pg \in Tables BY DEF TypeOK, Tables
<1>2. /\ after.conversations = pg.conversations \ {c}
      /\ after.count = [pg.count EXCEPT ![c] = 0]
      /\ after.messages = {m \in pg.messages : Thread[m] # c}
    BY <1>1 DEF Tables, WithoutRows
<1>3. [pg.count EXCEPT ![c] = 0] \in [Ids -> Nat] BY <1>1 DEF Tables
<1>4. after \in Tables BY <1>1, <1>3 DEF Tables, WithoutRows
<1>5. Runs(after) BY DEF DeleteRows
<1> HIDE DEF after
<1>6. /\ pg' \in {pg, after}
      /\ failures' = failures => pg' = after
      /\ failures' = failures \/ (failures < MaxFailures /\ failures' = failures + 1)
      /\ UNCHANGED <<mem, calls, connected, restarts, away>>
    BY <1>5, RunsEffect
<1>7. /\ connected /\ Named(c) /\ deleting[c] = "idle"
      /\ deleting' = [deleting EXCEPT ![c] = "memory"]
      /\ UNCHANGED <<creating, saving, recording>>
    BY DEF DeleteRows
<1>8. CASE pg' = after BY <1>2, <1>4, <1>6, <1>7, <1>8
<1>9. CASE pg' # after
    <2>1. pg' = pg /\ failures' # failures /\ pg' \in Tables BY <1>1, <1>6, <1>9
    <2> QED BY <2>1, <1>6, <1>7, Zenon
<1> QED BY <1>8, <1>9

LEMMA ForgetConversationEffect ==
    ASSUME TypeOK, NEW c \in Ids, ForgetConversation(c)
    PROVE  /\ Named(c)
           /\ deleting[c] = "memory" \/ (deleting[c] = "idle" /\ ~connected)
           /\ deleting' = [deleting EXCEPT ![c] = "done"]
           /\ mem' \in Memory
           /\ mem'.conversations = mem.conversations \ {c}
           /\ mem'.count = [mem.count EXCEPT ![c] = 0]
           /\ mem'.messages = [mem.messages EXCEPT ![c] = <<>>]
           /\ mem'.requests = mem.requests
           /\ UNCHANGED <<pg, calls, failures, connected, restarts, away, creating, saving,
                          recording>>
<1>1. mem \in Memory BY DEF TypeOK, Memory
<1>2. mem' = [mem EXCEPT !.conversations = @ \ {c}, !.count[c] = 0, !.messages[c] = <<>>]
    BY DEF ForgetConversation, Remembers, Forgotten
<1>3. /\ mem'.conversations = mem.conversations \ {c}
      /\ mem'.count = [mem.count EXCEPT ![c] = 0]
      /\ mem'.messages = [mem.messages EXCEPT ![c] = <<>>]
      /\ mem'.requests = mem.requests
    BY <1>1, <1>2 DEF Memory
<1>4. /\ [mem.count EXCEPT ![c] = 0] \in [Ids -> Nat]
      /\ [mem.messages EXCEPT ![c] = <<>>] \in [Ids -> Seq(Messages)]
    BY <1>1 DEF Memory
<1>5. mem' \in Memory BY <1>1, <1>2, <1>4 DEF Memory
<1> QED BY <1>3, <1>5 DEF ForgetConversation, Remembers, gateway

\* A restart: what was under way is lost.
LEMMA RestartEffect ==
    ASSUME TypeOK, Restart
    PROVE  /\ pg' = pg /\ mem' = NoMemory /\ NoMemory \in Memory
           /\ NoMemory.conversations = {} /\ NoMemory.requests = {}
           /\ \A c \in Ids : NoMemory.messages[c] = <<>> /\ NoMemory.count[c] = 0
           /\ connected' \in BOOLEAN /\ away' = (away \/ ~connected')
           /\ restarts < MaxRestarts /\ restarts' = restarts + 1
           /\ creating' = Interrupted(creating) /\ saving' = Interrupted(saving)
           /\ deleting' = Interrupted(deleting) /\ recording' = Interrupted(recording)
           /\ UNCHANGED <<calls, failures>>
<1>1. /\ NoMemory.conversations = {} /\ NoMemory.requests = {}
      /\ NoMemory.messages = [c \in Ids |-> <<>>] /\ NoMemory.count = [c \in Ids |-> 0]
    BY DEF NoMemory, NoRows
<1>2. /\ [c \in Ids |-> <<>>] \in [Ids -> Seq(Messages)]
      /\ [c \in Ids |-> 0] \in [Ids -> Nat]
    OBVIOUS
<1>3. NoMemory = [conversations |-> {}, count |-> [c \in Ids |-> 0],
                  messages |-> [c \in Ids |-> <<>>], requests |-> {}]
    <2> DEFINE rows == [conversations |-> {}, count |-> [c \in Ids |-> 0],
                        messages |-> {}, requests |-> {}]
    <2>1. NoMemory = [rows EXCEPT !.messages = [c \in Ids |-> <<>>]] BY DEF NoMemory, NoRows
    <2> QED BY <2>1
<1>4. NoMemory \in Memory BY <1>2, <1>3 DEF Memory
<1> QED BY <1>1, <1>4 DEF Restart, Migrated

\* The steps of operations after a restart.
LEMMA InterruptedSteps ==
    ASSUME NEW X, NEW steps \in [X -> Nowhere \cup {"insert", "update", "memory"}]
    PROVE  /\ Interrupted(steps) \in [X -> Nowhere]
           /\ \A x \in X :
                 /\ Interrupted(steps)[x] = "idle" <=> steps[x] = "idle"
                 /\ Interrupted(steps)[x] # "done"
                 /\ Interrupted(steps)[x] = "earlier" <=> steps[x] \in {"done", "earlier"}
                 /\ Interrupted(steps)[x] = "lost" <=>
                       steps[x] \in {"insert", "update", "memory", "lost"}
BY DEF Interrupted, Nowhere

-----------------------------------------------------------------------------
(* ConversationStore: the inductive invariant *)

\* The steps of a save in the process that runs.
Here == {"insert", "update", "memory", "done"}

\* What is named exists, or did; a conversation made in this process is saved
\* to and deleted in this process; an answer is saved after its question.
OperationsInOrder ==
    /\ \A m \in Messages : saving[m] # "idle" => Named(Thread[m])
    /\ \A c \in Ids : deleting[c] # "idle" => Named(c)
    /\ \A c \in Conversations : creating[c] = "done" =>
          /\ deleting[c] \in {"idle", "memory", "done"}
          /\ \A m \in Messages : Thread[m] = c => saving[m] \notin {"lost", "earlier"}
    /\ \A m \in DOMAIN Question : saving[m] \in Here => saving[Question[m]] = "done"
    /\ \A m \in Messages : saving[m] \in {"insert", "update"} => connected
    /\ away \/ connected

\* Messages are stamped once, at their call, an answer after its question.
CallsInOrder ==
    /\ \A i, j \in DOMAIN calls : calls[i] = calls[j] => i = j
    /\ \A i \in DOMAIN calls : saving[calls[i]] # "idle"
    /\ \A m \in Messages :
          saving[m] = "insert" \/ m \in pg.messages \/ (connected /\ saving[m] \in Here)
          => \E i \in DOMAIN calls : calls[i] = m
    /\ \A m \in DOMAIN Question :
          (\E i \in DOMAIN calls : calls[i] = m) => CalledBefore(Question[m], m)

\* The rows of the tables come from operations that were called.
TablesFollow ==
    /\ \A c \in pg.conversations : creating[c] # "idle"
    /\ \A c \in Ids \ pg.conversations : pg.count[c] = 0
    /\ \A m \in pg.messages : saving[m] \notin {"idle", "insert"}
    /\ \A m \in Messages : saving[m] = "update" /\ Thread[m] \in pg.conversations
          => m \in pg.messages

\* While nothing has thrown, they hold what was made and not deleted.
TablesFollowWell ==
    failures = 0 =>
        /\ \A m \in DOMAIN Question : m \in pg.messages => Question[m] \in pg.messages
        /\ connected =>
              /\ \A m \in Messages :
                    saving[m] \in {"memory", "done"} /\ Thread[m] \in pg.conversations
                    => m \in pg.messages
              /\ \A c \in Conversations : creating[c] \in {"memory", "done"} =>
                    (c \in pg.conversations <=> deleting[c] = "idle")
        /\ ~away => \A c \in Conversations : creating[c] # "idle" =>
                       (c \in pg.conversations <=> deleting[c] = "idle")

\* The memory holds what this process made and saved and has not forgotten:
\* each message once, an answer after its question if that is there.
MemoryFollows ==
    /\ mem.conversations = {c \in Conversations : creating[c] = "done" /\ deleting[c] # "done"}
    /\ mem.requests = {r \in Requests : recording[r] = "done"}
    /\ \A c \in Ids : \A i \in DOMAIN mem.messages[c] :
          Thread[mem.messages[c][i]] = c /\ saving[mem.messages[c][i]] = "done"
    /\ \A c \in Ids : \A i, j \in DOMAIN mem.messages[c] :
          mem.messages[c][i] = mem.messages[c][j] => i = j
    /\ \A m \in Messages : saving[m] = "done" /\ deleting[Thread[m]] # "done"
          => \E i \in DOMAIN mem.messages[Thread[m]] : mem.messages[Thread[m]][i] = m

MemoryInOrder ==
    \A c \in Ids : \A i, j \in DOMAIN mem.messages[c] :
        mem.messages[c][j] \in DOMAIN Question /\ mem.messages[c][i] = Question[mem.messages[c][j]]
        => i < j

CountsFollow == \A c \in mem.conversations : mem.count[c] = TokensOf(Remembered(c))

\* What was saved and is not in the tables.
Missing(c) == {m \in Messages : /\ saving[m] \in {"memory", "done", "earlier"}
                                /\ Thread[m] = c /\ m \notin pg.messages}

MissingBounded ==
    ~away => \A c \in Conversations :
        (failures = 0 \/ c \in pg.conversations) /\ deleting[c] = "idle"
        => Cardinality(Missing(c)) <= failures

\* The rows of c whose tokens the table counts, if it misses those of lost;
\* and those it misses that no restart cut.
CountedRows(c, lost) ==
    {m \in pg.messages : Thread[m] = c /\ saving[m] # "update" /\ m \notin lost}
Uncounted(lost) == {m \in lost : saving[m] # "lost"}

Misses(c, lost) ==
    /\ lost \subseteq RowsOf(c)
    /\ Cardinality(Uncounted(lost)) <= failures
    /\ pg.count[c] = TokensOf(CountedRows(c, lost))

TableCounts == \A c \in pg.conversations : \E lost : Misses(c, lost)

StoreInv ==
    /\ TypeOK /\ OperationsInOrder /\ CallsInOrder
    /\ TablesFollow /\ TablesFollowWell /\ MissingBounded /\ TableCounts
    /\ MemoryFollows /\ MemoryInOrder /\ CountsFollow

-----------------------------------------------------------------------------
\* The types, one by one.
LEMMA TypesOf ==
    TypeOK <=> /\ connected \in BOOLEAN /\ away \in BOOLEAN
               /\ pg \in Tables /\ \A m \in pg.messages : Thread[m] \in pg.conversations
               /\ mem \in Memory /\ calls \in Seq(Messages)
               /\ creating \in [Conversations -> Nowhere \cup {"memory"}]
               /\ saving \in [Messages -> Nowhere \cup {"insert", "update", "memory"}]
               /\ deleting \in [Ids -> Nowhere \cup {"memory"}]
               /\ recording \in [Requests -> Nowhere \cup {"memory"}]
               /\ failures \in 0..MaxFailures /\ restarts \in 0..MaxRestarts
BY DEF TypeOK, Tables, Memory

\* They hold at first, and are kept.
LEMMA TypesInit == Init => TypeOK
<1> SUFFICES ASSUME Init PROVE TypeOK OBVIOUS
<1>1. NoRows \in Tables /\ NoRows.messages = {} BY DEF NoRows, Tables
<1>2. NoMemory \in Memory
    <2> DEFINE rows == [conversations |-> {}, count |-> [c \in Ids |-> 0],
                        messages |-> {}, requests |-> {}]
    <2>1. NoMemory = [rows EXCEPT !.messages = [c \in Ids |-> <<>>]] BY DEF NoMemory, NoRows
    <2>2. NoMemory = [conversations |-> {}, count |-> [c \in Ids |-> 0],
                      messages |-> [c \in Ids |-> <<>>], requests |-> {}]
        BY <2>1
    <2> QED BY <2>2 DEF Memory
<1>3. 0 \in 0..MaxFailures /\ 0 \in 0..MaxRestarts BY StoreAssumption, SMT
<1>4. /\ connected \in BOOLEAN /\ away \in BOOLEAN
      /\ pg \in Tables /\ pg.messages = {} /\ mem \in Memory /\ calls \in Seq(Messages)
      /\ failures \in 0..MaxFailures /\ restarts \in 0..MaxRestarts
    BY <1>1, <1>2, <1>3 DEF Init
<1>5. /\ creating \in [Conversations -> Nowhere \cup {"memory"}]
      /\ saving \in [Messages -> Nowhere \cup {"insert", "update", "memory"}]
      /\ deleting \in [Ids -> Nowhere \cup {"memory"}]
      /\ recording \in [Requests -> Nowhere \cup {"memory"}]
    BY DEF Init, Nowhere
<1> QED BY <1>4, <1>5, TypesOf

LEMMA TypesNext ==
    ASSUME TypeOK, [Next]_vars
    PROVE  TypeOK'
<1>0. /\ connected \in BOOLEAN /\ away \in BOOLEAN
      /\ pg \in Tables /\ \A m \in pg.messages : Thread[m] \in pg.conversations
      /\ mem \in Memory /\ calls \in Seq(Messages)
      /\ creating \in [Conversations -> Nowhere \cup {"memory"}]
      /\ saving \in [Messages -> Nowhere \cup {"insert", "update", "memory"}]
      /\ deleting \in [Ids -> Nowhere \cup {"memory"}]
      /\ recording \in [Requests -> Nowhere \cup {"memory"}]
      /\ failures \in 0..MaxFailures /\ restarts \in 0..MaxRestarts
    BY TypesOf
<1> DEFINE T == /\ connected \in BOOLEAN /\ away \in BOOLEAN
                /\ pg \in Tables /\ \A m \in pg.messages : Thread[m] \in pg.conversations
                /\ mem \in Memory /\ calls \in Seq(Messages)
                /\ creating \in [Conversations -> Nowhere \cup {"memory"}]
                /\ saving \in [Messages -> Nowhere \cup {"insert", "update", "memory"}]
                /\ deleting \in [Ids -> Nowhere \cup {"memory"}]
                /\ recording \in [Requests -> Nowhere \cup {"memory"}]
                /\ failures \in 0..MaxFailures /\ restarts \in 0..MaxRestarts
<1> SUFFICES T' BY TypesOf DEF TypeOK, Tables, Memory, Nowhere, Ids
<1>1. ASSUME NEW c \in Conversations, InsertConversation(c) PROVE T'
    BY <1>0, <1>1, InsertConversationEffect, FailuresGrow DEF Nowhere
<1>2. ASSUME NEW c \in Conversations, RememberConversation(c) PROVE T'
    BY <1>0, <1>2, RememberConversationEffect DEF Nowhere
<1>3. ASSUME NEW r \in Requests, InsertRequest(r) PROVE T'
    BY <1>0, <1>3, InsertRequestEffect, FailuresGrow DEF Nowhere
<1>4. ASSUME NEW r \in Requests, RememberRequest(r) PROVE T'
    BY <1>0, <1>4, RememberRequestEffect DEF Nowhere
<1>5. ASSUME NEW m \in Messages, CallSave(m) PROVE T'
    BY <1>0, <1>5, CallSaveEffect DEF Nowhere
<1>6. ASSUME NEW m \in Messages, InsertMessage(m) PROVE T'
    BY <1>0, <1>6, InsertMessageEffect, FailuresGrow DEF Nowhere
<1>7. ASSUME NEW m \in Messages, UpdateCount(m) PROVE T'
    BY <1>0, <1>7, UpdateCountEffect, FailuresGrow DEF Nowhere
<1>8. ASSUME NEW m \in Messages, RememberMessage(m) PROVE T'
    <2>1. /\ saving' = [saving EXCEPT ![m] = "done"] /\ mem' \in Memory
          /\ UNCHANGED <<pg, calls, failures, connected, restarts, away, creating, deleting,
                         recording>>
        BY <1>8, RememberMessageEffect
    <2> QED BY <1>0, <2>1 DEF Nowhere
<1>9. ASSUME NEW c \in Ids, DeleteRows(c) PROVE T'
    <2>1. /\ deleting' = [deleting EXCEPT ![c] = "memory"] /\ pg' \in Tables
          /\ failures' = failures \/ (failures < MaxFailures /\ failures' = failures + 1)
          /\ UNCHANGED <<mem, calls, connected, restarts, away, creating, saving, recording>>
        BY <1>9, DeleteRowsEffect
    <2>2. \A m \in pg'.messages : Thread[m] \in pg'.conversations
        <3>1. CASE pg' = pg BY <1>0, <3>1
        <3>2. CASE pg' # pg
            <4>1. /\ pg'.conversations = pg.conversations \ {c}
                  /\ pg'.messages = {m \in pg.messages : Thread[m] # c}
                BY <1>9, <3>2, DeleteRowsEffect
            <4> QED BY <1>0, <4>1
        <3> QED BY <3>1, <3>2
    <2>3. failures' \in 0..MaxFailures BY <1>0, <2>1, FailuresGrow
    <2> QED BY <1>0, <2>1, <2>2, <2>3 DEF Nowhere
<1>10. ASSUME NEW c \in Ids, ForgetConversation(c) PROVE T'
    BY <1>0, <1>10, ForgetConversationEffect DEF Nowhere
<1>11. CASE Restart
    <2>1. Interrupted(creating) \in [Conversations -> Nowhere]
        BY <1>0, InterruptedSteps
    <2>2. Interrupted(saving) \in [Messages -> Nowhere] BY <1>0, InterruptedSteps
    <2>3. Interrupted(deleting) \in [Ids -> Nowhere] BY <1>0, InterruptedSteps
    <2>4. Interrupted(recording) \in [Requests -> Nowhere] BY <1>0, InterruptedSteps
    <2>5. restarts' \in 0..MaxRestarts BY <1>0, <1>11, RestartEffect, StoreAssumption
    <2> QED BY <1>0, <1>11, <2>1, <2>2, <2>3, <2>4, <2>5, RestartEffect
<1>12. CASE UNCHANGED vars BY <1>0, <1>12 DEF vars, operations, gateway
<1> QED BY <1>1, <1>2, <1>3, <1>4, <1>5, <1>6, <1>7, <1>8, <1>9, <1>10, <1>11, <1>12 DEF Next

\* Where the operations are, in the types that the steps need.
LEMMA Places ==
    ASSUME TypeOK
    PROVE  /\ creating \in [Conversations -> Nowhere \cup {"memory"}]
           /\ saving \in [Messages -> Nowhere \cup {"insert", "update", "memory"}]
           /\ deleting \in [Ids -> Nowhere \cup {"memory"}]
           /\ Thread \in [Messages -> Ids] /\ Conversations \subseteq Ids
           /\ connected \in BOOLEAN /\ away \in BOOLEAN
           /\ \A m \in DOMAIN Question :
                 m \in Messages /\ Question[m] \in Messages /\ Question[m] # m
                 /\ Thread[Question[m]] = Thread[m]
BY StoreAssumption DEF TypeOK, Ids

\* Nothing is done to a conversation before it was created.
LEMMA NotYetNamed ==
    ASSUME TypeOK, OperationsInOrder, NEW c \in Conversations, creating[c] \in {"idle", "memory"}
    PROVE  deleting[c] = "idle" /\ \A m \in Messages : Thread[m] = c => saving[m] = "idle"
<1>1. c \in Ids /\ ~Named(c) BY DEF Ids, Named
<1> QED BY <1>1 DEF OperationsInOrder

\* Each part of the invariant is kept by every step.
LEMMA OperationsInOrderNext ==
    ASSUME TypeOK, OperationsInOrder, [Next]_vars
    PROVE  OperationsInOrder'
<1>0. /\ creating \in [Conversations -> Nowhere \cup {"memory"}]
      /\ saving \in [Messages -> Nowhere \cup {"insert", "update", "memory"}]
      /\ deleting \in [Ids -> Nowhere \cup {"memory"}]
      /\ Thread \in [Messages -> Ids] /\ Conversations \subseteq Ids
      /\ connected \in BOOLEAN /\ away \in BOOLEAN
      /\ \A m \in DOMAIN Question : m \in Messages /\ Question[m] \in Messages
    BY Places
<1>1. ASSUME NEW c \in Conversations, InsertConversation(c) PROVE OperationsInOrder'
    <2>1. creating[c] = "idle" /\ creating' = [creating EXCEPT ![c] = "memory"]
          /\ UNCHANGED <<saving, deleting, away, connected>>
        BY <1>1, InsertConversationEffect
    <2> QED BY <1>0, <2>1 DEF OperationsInOrder, Named, Nowhere, Here
<1>2. ASSUME NEW c \in Conversations, RememberConversation(c) PROVE OperationsInOrder'
    <2>1. /\ creating[c] \in {"idle", "memory"} /\ creating' = [creating EXCEPT ![c] = "done"]
          /\ UNCHANGED <<saving, deleting, away, connected>>
        BY <1>2, RememberConversationEffect
    <2>2. deleting[c] = "idle" /\ \A m \in Messages : Thread[m] = c => saving[m] = "idle"
        BY <2>1, NotYetNamed
    <2> QED BY <1>0, <2>1, <2>2 DEF OperationsInOrder, Named, Nowhere, Here
<1>3. ASSUME NEW r \in Requests, InsertRequest(r) PROVE OperationsInOrder'
    BY <1>3, InsertRequestEffect DEF OperationsInOrder, Named
<1>4. ASSUME NEW r \in Requests, RememberRequest(r) PROVE OperationsInOrder'
    BY <1>4, RememberRequestEffect DEF OperationsInOrder, Named
<1>5. ASSUME NEW m \in Messages, NEW to \in {"insert", "update", "memory", "done"},
             saving' = [saving EXCEPT ![m] = to], saving[m] # "done",
             to \in {"insert", "update"} => connected,
             \/ saving[m] \in Here
             \/ /\ saving[m] = "idle" /\ Named(Thread[m])
                /\ m \in DOMAIN Question => saving[Question[m]] = "done",
             UNCHANGED <<creating, deleting, away, connected>>
      PROVE  OperationsInOrder'
    <2>1. \A n \in Messages : saving'[n] # "idle" => Named(Thread[n])
        BY <1>0, <1>5 DEF OperationsInOrder, Here
    <2>2. \A n \in DOMAIN Question : saving'[n] \in Here => saving'[Question[n]] = "done"
        BY <1>0, <1>5 DEF OperationsInOrder, Here
    <2>3. \A c \in Conversations : creating[c] = "done" =>
             \A n \in Messages : Thread[n] = c => saving'[n] \notin {"lost", "earlier"}
        BY <1>0, <1>5 DEF OperationsInOrder, Here
    <2>4. \A n \in Messages : saving'[n] \in {"insert", "update"} => connected
        BY <1>0, <1>5 DEF OperationsInOrder
    <2> QED BY <1>5, <2>1, <2>2, <2>3, <2>4 DEF OperationsInOrder, Named
<1>6. ASSUME NEW m \in Messages, CallSave(m) PROVE OperationsInOrder'
    <2>1. saving[m] # "done" BY <1>6, CallSaveEffect
    <2> QED BY <1>5, <1>6, <2>1, CallSaveEffect
<1>7. ASSUME NEW m \in Messages, InsertMessage(m) PROVE OperationsInOrder'
    <2>1. /\ saving[m] \in Here /\ saving[m] # "done"
          /\ \E to \in {"insert", "update", "memory", "done"} : saving' = [saving EXCEPT ![m] = to]
          /\ UNCHANGED <<creating, deleting, away, connected>>
        BY <1>7, InsertMessageEffect DEF Here
    <2>2. connected BY <1>7, InsertMessageEffect DEF OperationsInOrder
    <2> QED BY <1>5, <2>1, <2>2
<1>8. ASSUME NEW m \in Messages, UpdateCount(m) PROVE OperationsInOrder'
    <2>1. /\ saving[m] \in Here /\ saving[m] # "done" /\ saving' = [saving EXCEPT ![m] = "memory"]
          /\ UNCHANGED <<creating, deleting, away, connected>>
        BY <1>8, UpdateCountEffect DEF Here
    <2> QED BY <1>5, <2>1
<1>9. ASSUME NEW m \in Messages, RememberMessage(m) PROVE OperationsInOrder'
    <2>1. /\ \/ saving[m] = "memory"
             \/ /\ saving[m] = "idle" /\ Named(Thread[m])
                /\ m \in DOMAIN Question => saving[Question[m]] = "done"
          /\ saving' = [saving EXCEPT ![m] = "done"]
          /\ UNCHANGED <<creating, deleting, away, connected>>
        BY <1>9, RememberMessageEffect
    <2>2. saving[m] # "done" BY <2>1
    <2> QED BY <1>5, <2>1, <2>2 DEF Here
<1>10. ASSUME NEW c \in Ids, DeleteRows(c) PROVE OperationsInOrder'
    <2>1. Named(c) /\ deleting' = [deleting EXCEPT ![c] = "memory"]
          /\ UNCHANGED <<creating, saving, away, connected>>
        BY <1>10, DeleteRowsEffect
    <2> QED BY <1>0, <2>1 DEF OperationsInOrder, Named, Here
<1>11. ASSUME NEW c \in Ids, ForgetConversation(c) PROVE OperationsInOrder'
    <2>1. Named(c) /\ deleting' = [deleting EXCEPT ![c] = "done"]
          /\ UNCHANGED <<creating, saving, away, connected>>
        BY <1>11, ForgetConversationEffect
    <2> QED BY <1>0, <2>1 DEF OperationsInOrder, Named, Here
<1>12. CASE Restart
    <2>1. /\ creating' = Interrupted(creating) /\ saving' = Interrupted(saving)
          /\ deleting' = Interrupted(deleting)
          /\ away' = (away \/ ~connected') /\ connected' \in BOOLEAN
        BY <1>12, RestartEffect
    <2>2. \A c \in Conversations : /\ creating'[c] # "done"
                                   /\ Named(c) => creating'[c] \in {"done", "earlier", "lost"}
        BY <1>0, <2>1, InterruptedSteps DEF Named
    <2>3. \A m \in Messages : saving'[m] \notin Here /\ (saving'[m] = "idle" <=> saving[m] = "idle")
        BY <1>0, <2>1, InterruptedSteps DEF Here, Nowhere
    <2>4. \A c \in Ids : deleting'[c] = "idle" <=> deleting[c] = "idle"
        BY <1>0, <2>1, InterruptedSteps
    <2> QED BY <1>0, <2>1, <2>2, <2>3, <2>4 DEF OperationsInOrder, Named, Here
<1>13. CASE UNCHANGED vars
    BY <1>13 DEF vars, operations, gateway, OperationsInOrder, Named
<1> QED BY <1>1, <1>2, <1>3, <1>4, <1>6, <1>7, <1>8, <1>9, <1>10, <1>11, <1>12, <1>13 DEF Next

\* A message that must have been stamped.
Stamped(m) == saving[m] = "insert" \/ m \in pg.messages \/ (connected /\ saving[m] \in Here)

LEMMA CallsInOrderNext ==
    ASSUME TypeOK, OperationsInOrder, CallsInOrder, TablesFollow, [Next]_vars
    PROVE  CallsInOrder'
<1>0. /\ saving \in [Messages -> Nowhere \cup {"insert", "update", "memory"}]
      /\ connected \in BOOLEAN /\ pg \in Tables /\ calls \in Seq(Messages)
      /\ \A m \in DOMAIN Question : m \in Messages /\ Question[m] \in Messages
    BY Places, TypesOf
<1>1. ASSUME UNCHANGED calls,
             \A m \in Messages : /\ saving[m] # "idle" => saving'[m] # "idle"
                                 /\ Stamped(m)' => Stamped(m)
      PROVE  CallsInOrder'
    <2>1. \A i \in DOMAIN calls : calls[i] \in Messages BY <1>0
    <2> QED BY <1>1, <2>1 DEF CallsInOrder, CalledBefore, Stamped
<1>2. ASSUME UNCHANGED <<calls, saving, pg, connected>> PROVE CallsInOrder'
    BY <1>1, <1>2 DEF Stamped
<1>3. ASSUME NEW c \in Conversations, InsertConversation(c) PROVE CallsInOrder'
    <2>1. pg'.messages = pg.messages /\ UNCHANGED <<calls, saving, connected>>
        BY <1>3, InsertConversationEffect
    <2> QED BY <1>1, <2>1 DEF Stamped
<1>4. ASSUME NEW c \in Conversations, RememberConversation(c) PROVE CallsInOrder'
    BY <1>2, <1>4, RememberConversationEffect
<1>5. ASSUME NEW r \in Requests, InsertRequest(r) PROVE CallsInOrder'
    <2>1. pg'.messages = pg.messages /\ UNCHANGED <<calls, saving, connected>>
        BY <1>5, InsertRequestEffect
    <2> QED BY <1>1, <2>1 DEF Stamped
<1>6. ASSUME NEW r \in Requests, RememberRequest(r) PROVE CallsInOrder'
    BY <1>2, <1>6, RememberRequestEffect
<1>7. ASSUME NEW m \in Messages, CallSave(m) PROVE CallsInOrder'
    <2>1. /\ connected /\ saving[m] = "idle" /\ calls' = Append(calls, m)
          /\ m \in DOMAIN Question => saving[Question[m]] = "done"
          /\ saving' = [saving EXCEPT ![m] = "insert"] /\ UNCHANGED <<pg, connected>>
        BY <1>7, CallSaveEffect
    <2> DEFINE n == Len(calls)
    <2>2. /\ n \in Nat /\ DOMAIN calls = 1..n /\ DOMAIN calls' = 1..(n + 1) /\ calls'[n + 1] = m
          /\ \A i \in 1..n : calls'[i] = calls[i] /\ calls[i] \in Messages
        BY <1>0, <2>1
    <2>3. /\ \A i \in 1..n : i < n + 1 /\ i \in 1..(n + 1)
          /\ \A i \in 1..(n + 1) : i \in 1..n \/ i = n + 1
          /\ n + 1 \in 1..(n + 1)
        BY <2>2, SMT
    <2> HIDE DEF n
    <2>4. \A i \in 1..n : calls[i] # m BY <2>1, <2>2 DEF CallsInOrder
    <2>5. \A i, j \in DOMAIN calls' : calls'[i] = calls'[j] => i = j
        <3> SUFFICES ASSUME NEW i \in 1..(n + 1), NEW j \in 1..(n + 1), calls'[i] = calls'[j]
                     PROVE  i = j
            BY <2>2
        <3>1. CASE i = n + 1 \/ j = n + 1 BY <3>1, <2>2, <2>3, <2>4
        <3>2. CASE i \in 1..n /\ j \in 1..n BY <3>2, <2>2 DEF CallsInOrder
        <3> QED BY <3>1, <3>2, <2>3
    <2>6. \A i \in DOMAIN calls' : saving'[calls'[i]] # "idle"
        <3> SUFFICES ASSUME NEW i \in 1..(n + 1) PROVE saving'[calls'[i]] # "idle" BY <2>2
        <3>1. CASE i = n + 1 BY <3>1, <2>1, <2>2, <1>0
        <3>2. CASE i \in 1..n BY <3>2, <2>1, <2>2, <1>0 DEF CallsInOrder
        <3> QED BY <3>1, <3>2, <2>3
    <2>7. \A k \in Messages : Stamped(k)' => \E i \in DOMAIN calls' : calls'[i] = k
        <3> SUFFICES ASSUME NEW k \in Messages, Stamped(k)'
                     PROVE  \E i \in DOMAIN calls' : calls'[i] = k
            OBVIOUS
        <3>1. CASE k = m BY <3>1, <2>2, <2>3
        <3>2. CASE k # m
            <4>1. Stamped(k) BY <3>2, <2>1, <1>0 DEF Stamped
            <4>2. PICK i \in 1..n : calls[i] = k BY <4>1, <2>2 DEF Stamped, CallsInOrder
            <4> QED BY <4>2, <2>2, <2>3
        <3> QED BY <3>1, <3>2
    <2>8. ASSUME NEW k \in DOMAIN Question, NEW e \in DOMAIN calls', calls'[e] = k
          PROVE  \E i, j \in DOMAIN calls' : i < j /\ calls'[i] = Question[k] /\ calls'[j] = k
        <3>1. CASE e = n + 1
            <4>1. k = m BY <3>1, <2>2, <2>8
            <4>2. Stamped(Question[m]) BY <4>1, <2>1 DEF Stamped, Here
            <4>3. PICK i \in 1..n : calls[i] = Question[m]
                BY <1>0, <2>2, <4>1, <4>2 DEF CallsInOrder, Stamped
            <4> QED BY <4>1, <4>3, <2>2, <2>3
        <3>2. CASE e # n + 1
            <4>1. e \in 1..n /\ calls[e] = k BY <2>2, <2>3, <2>8, <3>2
            <4>2. CalledBefore(Question[k], k) BY <4>1, <2>2 DEF CallsInOrder
            <4>3. PICK i \in 1..n : \E j \in 1..n : i < j /\ calls[i] = Question[k] /\ calls[j] = k
                BY <4>2, <2>2 DEF CalledBefore
            <4> QED BY <4>3, <2>2, <2>3
        <3> QED BY <3>1, <3>2
    <2> QED BY <2>5, <2>6, <2>7, <2>8 DEF CallsInOrder, CalledBefore, Stamped
<1>8. ASSUME NEW m \in Messages, InsertMessage(m) PROVE CallsInOrder'
    <2>1. PICK to \in {"update", "memory"} : saving' = [saving EXCEPT ![m] = to]
        BY <1>8, InsertMessageEffect
    <2>2. /\ saving[m] = "insert" /\ UNCHANGED <<calls, connected>>
          /\ pg'.messages \in {pg.messages, pg.messages \cup {m}}
        BY <1>8, InsertMessageEffect
    <2>3. Stamped(m) BY <2>2 DEF Stamped
    <2> QED BY <1>0, <1>1, <2>1, <2>2, <2>3 DEF Stamped
<1>9. ASSUME NEW m \in Messages, UpdateCount(m) PROVE CallsInOrder'
    <2>1. /\ saving[m] = "update" /\ saving' = [saving EXCEPT ![m] = "memory"]
          /\ pg'.messages = pg.messages /\ UNCHANGED <<calls, connected>>
        BY <1>9, UpdateCountEffect
    <2> QED BY <1>0, <1>1, <2>1 DEF Stamped, Here
<1>10. ASSUME NEW m \in Messages, RememberMessage(m) PROVE CallsInOrder'
    <2>1. /\ saving[m] = "memory" \/ ~connected
          /\ saving' = [saving EXCEPT ![m] = "done"]
          /\ UNCHANGED <<calls, connected, pg>>
        BY <1>10, RememberMessageEffect
    <2> QED BY <1>0, <1>1, <2>1 DEF Stamped, Here
<1>11. ASSUME NEW c \in Ids, DeleteRows(c) PROVE CallsInOrder'
    <2>1. pg'.messages \subseteq pg.messages /\ UNCHANGED <<calls, connected, saving>>
        <3>1. CASE pg' = pg BY <1>11, <3>1, DeleteRowsEffect
        <3>2. CASE pg' # pg BY <1>11, <3>2, DeleteRowsEffect
        <3> QED BY <3>1, <3>2
    <2> QED BY <1>1, <2>1 DEF Stamped
<1>12. ASSUME NEW c \in Ids, ForgetConversation(c) PROVE CallsInOrder'
    BY <1>2, <1>12, ForgetConversationEffect
<1>13. CASE Restart
    <2>1. saving' = Interrupted(saving) /\ UNCHANGED <<pg, calls>> BY <1>13, RestartEffect
    <2>2. \A m \in Messages : saving'[m] \notin Here /\ (saving'[m] = "idle" <=> saving[m] = "idle")
        BY <1>0, <2>1, InterruptedSteps DEF Here, Nowhere
    <2> QED BY <1>1, <2>1, <2>2 DEF Stamped, Here
<1>14. CASE UNCHANGED vars BY <1>2, <1>14 DEF vars, operations, gateway
<1> QED BY <1>3, <1>4, <1>5, <1>6, <1>7, <1>8, <1>9, <1>10, <1>11, <1>12, <1>13, <1>14 DEF Next

LEMMA TablesFollowNext ==
    ASSUME TypeOK, OperationsInOrder, TablesFollow, [Next]_vars
    PROVE  TablesFollow'
<1>0. /\ creating \in [Conversations -> Nowhere \cup {"memory"}]
      /\ saving \in [Messages -> Nowhere \cup {"insert", "update", "memory"}]
      /\ Thread \in [Messages -> Ids] /\ Conversations \subseteq Ids /\ pg \in Tables
      /\ pg.conversations \subseteq Conversations /\ pg.messages \subseteq Messages
      /\ pg.count \in [Ids -> Nat]
      /\ \A m \in pg.messages : Thread[m] \in pg.conversations
    BY Places, TypesOf DEF Tables
<1>1. ASSUME UNCHANGED <<pg, saving, creating>> PROVE TablesFollow'
    BY <1>1 DEF TablesFollow
<1>2. ASSUME NEW c \in Conversations, InsertConversation(c) PROVE TablesFollow'
    <2>1. /\ creating[c] = "idle" /\ creating' = [creating EXCEPT ![c] = "memory"]
          /\ pg'.conversations \in {pg.conversations, pg.conversations \cup {c}}
          /\ pg'.count = pg.count /\ pg'.messages = pg.messages /\ saving' = saving
        BY <1>2, InsertConversationEffect
    <2>2. \A m \in Messages : Thread[m] = c => saving[m] = "idle"
        BY <2>1, NotYetNamed
    <2>3. \A m \in Messages : saving[m] = "update" /\ Thread[m] \in pg'.conversations
             => m \in pg.messages
        BY <2>1, <2>2 DEF TablesFollow
    <2> QED BY <1>0, <2>1, <2>3 DEF TablesFollow
<1>3. ASSUME NEW c \in Conversations, RememberConversation(c) PROVE TablesFollow'
    <2>1. creating' = [creating EXCEPT ![c] = "done"] /\ UNCHANGED <<pg, saving>>
        BY <1>3, RememberConversationEffect
    <2> QED BY <1>0, <2>1 DEF TablesFollow
<1>4. ASSUME NEW r \in Requests, InsertRequest(r) PROVE TablesFollow'
    BY <1>4, InsertRequestEffect DEF TablesFollow
<1>5. ASSUME NEW r \in Requests, RememberRequest(r) PROVE TablesFollow'
    BY <1>1, <1>5, RememberRequestEffect
<1>6. ASSUME NEW m \in Messages, CallSave(m) PROVE TablesFollow'
    <2>1. saving[m] = "idle" /\ saving' = [saving EXCEPT ![m] = "insert"]
          /\ UNCHANGED <<pg, creating>>
        BY <1>6, CallSaveEffect
    <2>2. m \notin pg.messages BY <2>1 DEF TablesFollow
    <2> QED BY <1>0, <2>1, <2>2 DEF TablesFollow
<1>7. ASSUME NEW m \in Messages, InsertMessage(m) PROVE TablesFollow'
    <2>1. PICK to \in {"update", "memory"} :
             saving' = [saving EXCEPT ![m] = to] /\ (to = "update" => m \in pg'.messages)
        BY <1>7, InsertMessageEffect
    <2>2. /\ pg'.conversations = pg.conversations /\ pg'.count = pg.count
          /\ pg'.messages \in {pg.messages, pg.messages \cup {m}} /\ creating' = creating
        BY <1>7, InsertMessageEffect
    <2> QED BY <1>0, <2>1, <2>2 DEF TablesFollow
<1>8. ASSUME NEW m \in Messages, UpdateCount(m) PROVE TablesFollow'
    <2>1. /\ saving[m] = "update" /\ saving' = [saving EXCEPT ![m] = "memory"]
          /\ pg'.conversations = pg.conversations /\ pg'.messages = pg.messages
          /\ pg'.count \in {pg.count, NewCount(m)} /\ creating' = creating
        BY <1>8, UpdateCountEffect
    <2>2. \A c \in Ids \ pg.conversations : NewCount(m)[c] = pg.count[c]
        <3>1. CASE Thread[m] \in pg.conversations
            <4>1. \A c \in Ids \ {Thread[m]} : AddTo(pg.count, m)[c] = pg.count[c]
                BY <1>0, AddType
            <4> QED BY <3>1, <4>1 DEF NewCount
        <3>2. CASE Thread[m] \notin pg.conversations BY <3>2 DEF NewCount
        <3> QED BY <3>1, <3>2
    <2> QED BY <1>0, <2>1, <2>2 DEF TablesFollow
<1>9. ASSUME NEW m \in Messages, RememberMessage(m) PROVE TablesFollow'
    <2>1. saving' = [saving EXCEPT ![m] = "done"] /\ UNCHANGED <<pg, creating>>
        BY <1>9, RememberMessageEffect
    <2> QED BY <1>0, <2>1 DEF TablesFollow
<1>10. ASSUME NEW c \in Ids, DeleteRows(c) PROVE TablesFollow'
    <2>1. UNCHANGED <<creating, saving>> BY <1>10, DeleteRowsEffect
    <2>2. CASE pg' = pg BY <2>1, <2>2, <1>1
    <2>3. CASE pg' # pg
        <3>1. /\ pg'.conversations = pg.conversations \ {c}
              /\ pg'.count = [pg.count EXCEPT ![c] = 0]
              /\ pg'.messages = {m \in pg.messages : Thread[m] # c}
            BY <1>10, <2>3, DeleteRowsEffect
        <3> QED BY <1>0, <2>1, <3>1 DEF TablesFollow
    <2> QED BY <2>2, <2>3
<1>11. ASSUME NEW c \in Ids, ForgetConversation(c) PROVE TablesFollow'
    BY <1>1, <1>11, ForgetConversationEffect
<1>12. CASE Restart
    <2>1. saving' = Interrupted(saving) /\ creating' = Interrupted(creating) /\ pg' = pg
        BY <1>12, RestartEffect
    <2>2. \A m \in Messages : /\ saving'[m] \notin {"insert", "update"}
                              /\ saving'[m] = "idle" <=> saving[m] = "idle"
        BY <1>0, <2>1, InterruptedSteps DEF Nowhere
    <2>3. \A c \in Conversations : creating'[c] = "idle" <=> creating[c] = "idle"
        BY <1>0, <2>1, InterruptedSteps
    <2> QED BY <1>0, <2>1, <2>2, <2>3 DEF TablesFollow
<1>13. CASE UNCHANGED vars BY <1>1, <1>13 DEF vars, operations
<1> QED BY <1>2, <1>3, <1>4, <1>5, <1>6, <1>7, <1>8, <1>9, <1>10, <1>11, <1>12, <1>13 DEF Next

\* The statements that have thrown are counted for good.
LEMMA FailuresCounted ==
    ASSUME TypeOK, [Next]_vars
    PROVE  failures' = failures \/ (failures < MaxFailures /\ failures' = failures + 1)
<1>1. ASSUME NEW c \in Conversations, InsertConversation(c) \/ RememberConversation(c)
      PROVE  failures' = failures \/ (failures < MaxFailures /\ failures' = failures + 1)
    BY <1>1, InsertConversationEffect, RememberConversationEffect
<1>2. ASSUME NEW r \in Requests, InsertRequest(r) \/ RememberRequest(r)
      PROVE  failures' = failures \/ (failures < MaxFailures /\ failures' = failures + 1)
    BY <1>2, InsertRequestEffect, RememberRequestEffect
<1>3. ASSUME NEW m \in Messages, CallSave(m) \/ InsertMessage(m) \/ UpdateCount(m) \/ RememberMessage(m)
      PROVE  failures' = failures \/ (failures < MaxFailures /\ failures' = failures + 1)
    BY <1>3, CallSaveEffect, InsertMessageEffect, UpdateCountEffect, RememberMessageEffect
<1>4. ASSUME NEW c \in Ids, DeleteRows(c) \/ ForgetConversation(c)
      PROVE  failures' = failures \/ (failures < MaxFailures /\ failures' = failures + 1)
    BY <1>4, DeleteRowsEffect, ForgetConversationEffect
<1>5. CASE Restart BY <1>5, RestartEffect
<1>6. CASE UNCHANGED vars BY <1>6 DEF vars
<1> QED BY <1>1, <1>2, <1>3, <1>4, <1>5, <1>6 DEF Next

\* A failure is not forgotten.
LEMMA FailuresOnlyGrow ==
    ASSUME TypeOK, [Next]_vars
    PROVE  /\ failures' = 0 => failures = 0
           /\ failures <= failures' /\ failures \in Nat /\ failures' \in Nat
<1>1. failures \in 0..MaxFailures BY DEF TypeOK
<1> QED BY <1>1, FailuresCounted, FailuresGrow

\* The parts about the tables are kept by every step.
LEMMA TablesFollowWellNext ==
    ASSUME TypeOK, OperationsInOrder, TablesFollow, TablesFollowWell, [Next]_vars
    PROVE  TablesFollowWell'
<1> SUFFICES ASSUME failures' = 0, failures = 0 PROVE TablesFollowWell'
    BY FailuresOnlyGrow DEF TablesFollowWell
<1> DEFINE W == /\ \A m \in DOMAIN Question : m \in pg.messages => Question[m] \in pg.messages
                /\ connected =>
                      /\ \A m \in Messages :
                            saving[m] \in {"memory", "done"} /\ Thread[m] \in pg.conversations
                            => m \in pg.messages
                      /\ \A c \in Conversations : creating[c] \in {"memory", "done"} =>
                            (c \in pg.conversations <=> deleting[c] = "idle")
                /\ ~away => \A c \in Conversations : creating[c] # "idle" =>
                               (c \in pg.conversations <=> deleting[c] = "idle")
<1> SUFFICES W' BY DEF TablesFollowWell
<1>0. /\ creating \in [Conversations -> Nowhere \cup {"memory"}]
      /\ saving \in [Messages -> Nowhere \cup {"insert", "update", "memory"}]
      /\ deleting \in [Ids -> Nowhere \cup {"memory"}]
      /\ connected \in BOOLEAN /\ away \in BOOLEAN
      /\ Thread \in [Messages -> Ids] /\ Conversations \subseteq Ids
      /\ pg.conversations \subseteq Conversations /\ pg.messages \subseteq Messages
      /\ \A m \in pg.messages : Thread[m] \in pg.conversations
      /\ \A m \in DOMAIN Question : /\ m \in Messages /\ Question[m] \in Messages
                                    /\ Question[m] # m /\ Thread[Question[m]] = Thread[m]
    BY Places, TypesOf DEF Tables
<1>a. W BY DEF TablesFollowWell
<1>1. ASSUME UNCHANGED <<pg, connected, away, saving, creating, deleting>> PROVE W'
    BY <1>1, <1>a
<1>2. ASSUME NEW c \in Conversations, InsertConversation(c) PROVE W'
    <2>1. /\ creating[c] = "idle" /\ creating' = [creating EXCEPT ![c] = "memory"]
          /\ pg'.conversations = pg.conversations \cup {c}
          /\ pg'.messages = pg.messages /\ UNCHANGED <<saving, connected, away, deleting>>
        BY <1>2, InsertConversationEffect
    <2>2. deleting[c] = "idle" /\ \A m \in Messages : Thread[m] = c => saving[m] = "idle"
        BY <2>1, NotYetNamed
    <2> QED BY <1>0, <1>a, <2>1, <2>2
<1>3. ASSUME NEW c \in Conversations, RememberConversation(c) PROVE W'
    <2>1. /\ creating[c] = "memory" \/ (creating[c] = "idle" /\ ~connected)
          /\ creating' = [creating EXCEPT ![c] = "done"]
          /\ UNCHANGED <<pg, saving, connected, away, deleting>>
        BY <1>3, RememberConversationEffect
    <2>2. creating[c] = "idle" => away BY <2>1 DEF OperationsInOrder
    <2> QED BY <1>0, <1>a, <2>1, <2>2
<1>4. ASSUME NEW r \in Requests, InsertRequest(r) PROVE W'
    BY <1>4, <1>a, InsertRequestEffect
<1>5. ASSUME NEW r \in Requests, RememberRequest(r) PROVE W'
    BY <1>1, <1>5, RememberRequestEffect
<1>6. ASSUME NEW m \in Messages, CallSave(m) PROVE W'
    <2>1. saving' = [saving EXCEPT ![m] = "insert"]
          /\ UNCHANGED <<pg, creating, deleting, connected, away>>
        BY <1>6, CallSaveEffect
    <2> QED BY <1>0, <1>a, <2>1
<1>7. ASSUME NEW m \in Messages, InsertMessage(m) PROVE W'
    <2>1. PICK to \in {"update", "memory"} :
             saving' = [saving EXCEPT ![m] = to] /\ (m \in pg'.messages => to = "update")
        BY <1>7, InsertMessageEffect
    <2>2. /\ saving[m] = "insert" /\ pg'.conversations = pg.conversations
          /\ pg'.messages \in {pg.messages, pg.messages \cup {m}}
          /\ Thread[m] \in pg.conversations => pg'.messages = pg.messages \cup {m}
          /\ pg'.messages # pg.messages => Thread[m] \in pg.conversations
          /\ UNCHANGED <<connected, away, creating, deleting>>
        BY <1>7, InsertMessageEffect
    <2>3. ASSUME NEW n \in DOMAIN Question, n \in pg'.messages
          PROVE  Question[n] \in pg'.messages
        <3>1. CASE n \in pg.messages BY <3>1, <2>2, <1>a
        <3>2. CASE n \notin pg.messages
            <4>1. n = m /\ Thread[m] \in pg.conversations BY <2>2, <2>3, <3>2
            <4>2. saving[Question[m]] = "done"
                BY <4>1, <2>2 DEF OperationsInOrder, Here
            <4>3. connected BY <2>2 DEF OperationsInOrder
            <4>4. Question[m] \in pg.messages BY <4>1, <4>2, <4>3, <1>0, <1>a
            <4> QED BY <4>1, <4>4, <2>2
        <3> QED BY <3>1, <3>2
    <2> QED BY <1>0, <1>a, <2>1, <2>2, <2>3
<1>8. ASSUME NEW m \in Messages, UpdateCount(m) PROVE W'
    <2>1. /\ saving[m] = "update" /\ saving' = [saving EXCEPT ![m] = "memory"]
          /\ pg'.conversations = pg.conversations /\ pg'.messages = pg.messages
          /\ UNCHANGED <<creating, deleting, connected, away>>
        BY <1>8, UpdateCountEffect
    <2>2. Thread[m] \in pg.conversations => m \in pg.messages BY <2>1 DEF TablesFollow
    <2> QED BY <1>0, <1>a, <2>1, <2>2
<1>9. ASSUME NEW m \in Messages, RememberMessage(m) PROVE W'
    <2>1. /\ saving[m] = "memory" \/ ~connected
          /\ saving' = [saving EXCEPT ![m] = "done"]
          /\ UNCHANGED <<pg, creating, deleting, connected, away>>
        BY <1>9, RememberMessageEffect
    <2> QED BY <1>0, <1>a, <2>1
<1>10. ASSUME NEW c \in Ids, DeleteRows(c) PROVE W'
    <2>1. /\ deleting' = [deleting EXCEPT ![c] = "memory"]
          /\ UNCHANGED <<creating, saving, connected, away>>
          /\ pg'.conversations = pg.conversations \ {c}
          /\ pg'.messages = {m \in pg.messages : Thread[m] # c}
        BY <1>10, DeleteRowsEffect
    <2> QED BY <1>0, <1>a, <2>1
<1>11. ASSUME NEW c \in Ids, ForgetConversation(c) PROVE W'
    <2>1. /\ deleting[c] = "memory" \/ ~connected
          /\ deleting' = [deleting EXCEPT ![c] = "done"]
          /\ UNCHANGED <<pg, creating, saving, connected, away>>
        BY <1>11, ForgetConversationEffect
    <2>2. ~connected => away BY DEF OperationsInOrder
    <2> QED BY <1>0, <1>a, <2>1, <2>2
<1>12. CASE Restart
    <2>1. /\ saving' = Interrupted(saving) /\ creating' = Interrupted(creating)
          /\ deleting' = Interrupted(deleting) /\ pg' = pg
          /\ away' = (away \/ ~connected')
        BY <1>12, RestartEffect
    <2>2. \A m \in Messages : saving'[m] \notin {"memory", "done"}
        BY <1>0, <2>1, InterruptedSteps DEF Nowhere
    <2>3. \A c \in Conversations : /\ creating'[c] = "idle" <=> creating[c] = "idle"
                                   /\ creating'[c] \notin {"memory", "done"}
        BY <1>0, <2>1, InterruptedSteps DEF Nowhere
    <2>4. \A c \in Ids : deleting'[c] = "idle" <=> deleting[c] = "idle"
        BY <1>0, <2>1, InterruptedSteps
    <2> QED BY <1>0, <1>a, <2>1, <2>2, <2>3, <2>4
<1>13. CASE UNCHANGED vars BY <1>1, <1>13 DEF vars, operations, gateway
<1> QED BY <1>2, <1>3, <1>4, <1>5, <1>6, <1>7, <1>8, <1>9, <1>10, <1>11, <1>12, <1>13 DEF Next

LEMMA MissingBoundedNext ==
    ASSUME TypeOK, OperationsInOrder, TablesFollow, TablesFollowWell, MissingBounded, [Next]_vars
    PROVE  MissingBounded'
<1> DEFINE Kept(c) == (failures = 0 \/ c \in pg.conversations) /\ deleting[c] = "idle"
<1> SUFFICES ASSUME ~away', NEW c \in Conversations, Kept(c)'
             PROVE  Cardinality(Missing(c)') <= failures'
    BY DEF MissingBounded
<1> DEFINE Bounded == Cardinality(Missing(c)') <= failures'
<1> SUFFICES Bounded OBVIOUS
<1>0. /\ creating \in [Conversations -> Nowhere \cup {"memory"}]
      /\ saving \in [Messages -> Nowhere \cup {"insert", "update", "memory"}]
      /\ deleting \in [Ids -> Nowhere \cup {"memory"}]
      /\ Thread \in [Messages -> Ids] /\ Conversations \subseteq Ids
    BY Places
<1>a. /\ failures' = 0 => failures = 0
      /\ failures <= failures' /\ failures \in Nat /\ failures' \in Nat
    BY FailuresOnlyGrow
<1>b. IsFiniteSet(Missing(c)) /\ Cardinality(Missing(c)) \in Nat
    <2>1. Missing(c) \subseteq Messages BY DEF Missing
    <2> QED BY <2>1, StoreAssumption, FS_Subset, FS_CardinalityType
<1> HIDE DEF Kept, Bounded
<1>c. ASSUME ~away, Kept(c), Missing(c)' \subseteq Missing(c) PROVE Bounded
    <2>1. Cardinality(Missing(c)') <= Cardinality(Missing(c)) /\ IsFiniteSet(Missing(c)')
        BY <1>b, <1>c, FS_Subset
    <2>2. Cardinality(Missing(c)') \in Nat BY <2>1, FS_CardinalityType
    <2>3. Cardinality(Missing(c)) <= failures BY <1>c DEF MissingBounded, Kept
    <2> QED BY <2>1, <2>2, <2>3, <1>a, <1>b DEF Bounded
<1>d. ASSUME ~away, Kept(c), NEW m, Missing(c)' \subseteq Missing(c) \cup {m},
             failures' = failures + 1
      PROVE  Bounded
    <2>1. /\ IsFiniteSet(Missing(c) \cup {m})
          /\ Cardinality(Missing(c) \cup {m}) <= Cardinality(Missing(c)) + 1
          /\ Cardinality(Missing(c) \cup {m}) \in Nat
        <3>1. CASE m \in Missing(c)
            <4>1. Missing(c) \cup {m} = Missing(c) BY <3>1
            <4> QED BY <4>1, <1>b
        <3>2. CASE m \notin Missing(c) BY <3>2, <1>b, FS_AddElement
        <3> QED BY <3>1, <3>2
    <2>2. /\ Cardinality(Missing(c)') <= Cardinality(Missing(c) \cup {m})
          /\ IsFiniteSet(Missing(c)')
        BY <1>d, <2>1, FS_Subset
    <2>3. Cardinality(Missing(c)') \in Nat BY <2>2, FS_CardinalityType
    <2>4. Cardinality(Missing(c)) <= failures BY <1>d DEF MissingBounded, Kept
    <2> QED BY <2>1, <2>2, <2>3, <2>4, <1>a, <1>b, <1>d DEF Bounded
\* A conversation that is kept and was made has its row.
<1>e. ASSUME ~away, Kept(c), NEW m \in Messages, Thread[m] = c, saving[m] # "idle"
      PROVE  c \in pg.conversations
    <2>1. creating[c] # "idle" BY <1>e DEF OperationsInOrder, Named
    <2> QED BY <1>e, <2>1 DEF TablesFollowWell, Kept
<1>f. ASSUME UNCHANGED <<pg, saving, away>>, deleting'[c] = "idle" => deleting[c] = "idle"
      PROVE  Bounded
    <2>1. ~away /\ Kept(c) BY <1>a, <1>f DEF Kept
    <2>2. Missing(c)' \subseteq Missing(c) BY <1>f DEF Missing
    <2> QED BY <1>c, <2>1, <2>2
<1>1. ASSUME NEW d \in Conversations, InsertConversation(d) PROVE Bounded
    <2>1. /\ creating[d] = "idle" /\ UNCHANGED <<saving, deleting, away>>
          /\ pg'.conversations \in {pg.conversations, pg.conversations \cup {d}}
          /\ pg'.messages = pg.messages
        BY <1>1, InsertConversationEffect
    <2>2. Missing(c)' = Missing(c) BY <2>1 DEF Missing
    <2>3. CASE c = d
        <3>1. \A m \in Messages : Thread[m] = c => saving[m] = "idle"
            BY <2>1, <2>3 DEF OperationsInOrder, Named
        <3>2. Missing(c) = {} BY <3>1 DEF Missing
        <3> QED BY <2>2, <3>2, <1>a, FS_EmptySet DEF Bounded
    <2>4. CASE c # d
        <3>1. Kept(c) BY <1>a, <2>1, <2>4 DEF Kept
        <3> QED BY <1>c, <2>1, <2>2, <3>1
    <2> QED BY <2>3, <2>4
<1>2. ASSUME NEW d \in Conversations, RememberConversation(d) PROVE Bounded
    BY <1>2, <1>f, RememberConversationEffect
<1>3. ASSUME NEW r \in Requests, InsertRequest(r) PROVE Bounded
    <2>1. /\ pg'.messages = pg.messages /\ pg'.conversations = pg.conversations
          /\ UNCHANGED <<saving, deleting, away>>
        BY <1>3, InsertRequestEffect
    <2>2. Kept(c) /\ Missing(c)' = Missing(c) BY <1>a, <2>1 DEF Kept, Missing
    <2> QED BY <1>c, <2>1, <2>2
<1>4. ASSUME NEW r \in Requests, RememberRequest(r) PROVE Bounded
    BY <1>4, <1>f, RememberRequestEffect
<1>5. ASSUME NEW m \in Messages, CallSave(m) PROVE Bounded
    <2>1. saving' = [saving EXCEPT ![m] = "insert"] /\ UNCHANGED <<pg, deleting, away>>
        BY <1>5, CallSaveEffect
    <2>2. Kept(c) /\ Missing(c)' \subseteq Missing(c) BY <1>0, <1>a, <2>1 DEF Kept, Missing
    <2> QED BY <1>c, <2>1, <2>2
<1>6. ASSUME NEW m \in Messages, InsertMessage(m) PROVE Bounded
    <2>1. PICK to \in {"update", "memory"} : saving' = [saving EXCEPT ![m] = to]
        BY <1>6, InsertMessageEffect
    <2>2. /\ saving[m] = "insert" /\ pg'.conversations = pg.conversations
          /\ pg'.messages \in {pg.messages, pg.messages \cup {m}}
          /\ failures' = failures /\ Thread[m] \in pg.conversations =>
                pg'.messages = pg.messages \cup {m}
          /\ UNCHANGED <<away, deleting>>
        BY <1>6, InsertMessageEffect
    <2>3. ~away /\ Kept(c) BY <1>a, <2>2 DEF Kept
    <2>4. Missing(c)' \subseteq Missing(c) \cup {m} BY <1>0, <2>1, <2>2 DEF Missing
    <2>5. CASE failures' = failures + 1 BY <1>d, <2>3, <2>4, <2>5
    <2>6. CASE failures' # failures + 1
        <3>1. failures' = failures BY <2>6, FailuresCounted
        <3>2. CASE Thread[m] = c
            <4>1. c \in pg.conversations BY <1>e, <2>2, <2>3, <3>2
            <4>2. m \in pg'.messages BY <2>2, <3>1, <3>2, <4>1
            <4>3. Missing(c)' \subseteq Missing(c) BY <2>4, <4>2 DEF Missing
            <4> QED BY <1>c, <2>3, <4>3
        <3>3. CASE Thread[m] # c
            <4>1. Missing(c)' \subseteq Missing(c) BY <2>4, <3>3 DEF Missing
            <4> QED BY <1>c, <2>3, <4>1
        <3> QED BY <3>2, <3>3
    <2> QED BY <2>5, <2>6
<1>7. ASSUME NEW m \in Messages, UpdateCount(m) PROVE Bounded
    <2>1. /\ saving[m] = "update" /\ saving' = [saving EXCEPT ![m] = "memory"]
          /\ pg'.conversations = pg.conversations /\ pg'.messages = pg.messages
          /\ UNCHANGED <<deleting, away>>
        BY <1>7, UpdateCountEffect
    <2>2. ~away /\ Kept(c) BY <1>a, <2>1 DEF Kept
    <2>3. Thread[m] = c => m \in pg.messages BY <1>e, <2>1, <2>2 DEF TablesFollow
    <2>4. Missing(c)' \subseteq Missing(c) BY <1>0, <2>1, <2>3 DEF Missing
    <2> QED BY <1>c, <2>2, <2>4
<1>8. ASSUME NEW m \in Messages, RememberMessage(m) PROVE Bounded
    <2>1. /\ saving[m] = "memory" \/ ~connected
          /\ saving' = [saving EXCEPT ![m] = "done"]
          /\ UNCHANGED <<pg, deleting, away>>
        BY <1>8, RememberMessageEffect
    <2>2. ~away /\ Kept(c) BY <1>a, <2>1 DEF Kept
    <2>3. saving[m] = "memory" BY <2>1, <2>2 DEF OperationsInOrder
    <2>4. Missing(c)' \subseteq Missing(c) BY <1>0, <2>1, <2>3 DEF Missing
    <2> QED BY <1>c, <2>2, <2>4
<1>9. ASSUME NEW d \in Ids, DeleteRows(d) PROVE Bounded
    <2>1. deleting' = [deleting EXCEPT ![d] = "memory"] /\ UNCHANGED <<saving, away>>
        BY <1>9, DeleteRowsEffect
    <2>2. d # c BY <1>0, <2>1 DEF Kept
    <2>3. /\ c \in pg'.conversations => c \in pg.conversations
          /\ \A m \in pg.messages : Thread[m] = c => m \in pg'.messages
        <3>1. CASE pg' = pg BY <3>1
        <3>2. CASE pg' # pg
            <4>1. /\ pg'.conversations = pg.conversations \ {d}
                  /\ pg'.messages = {m \in pg.messages : Thread[m] # d}
                BY <1>9, <3>2, DeleteRowsEffect
            <4> QED BY <4>1, <2>2
        <3> QED BY <3>1, <3>2
    <2>4. ~away /\ Kept(c) BY <1>0, <1>a, <2>1, <2>2, <2>3 DEF Kept
    <2>5. Missing(c)' \subseteq Missing(c) BY <2>1, <2>3 DEF Missing
    <2> QED BY <1>c, <2>4, <2>5
<1>10. ASSUME NEW d \in Ids, ForgetConversation(d) PROVE Bounded
    <2>1. deleting' = [deleting EXCEPT ![d] = "done"] /\ UNCHANGED <<pg, saving, away>>
        BY <1>10, ForgetConversationEffect
    <2> QED BY <1>0, <1>f, <2>1
<1>11. CASE Restart
    <2>1. /\ saving' = Interrupted(saving) /\ deleting' = Interrupted(deleting) /\ pg' = pg
          /\ away' = (away \/ ~connected')
        BY <1>11, RestartEffect
    <2>2. \A m \in Messages : saving'[m] \in {"memory", "done", "earlier"} =>
             saving[m] \in {"done", "earlier"}
        BY <1>0, <2>1, InterruptedSteps DEF Nowhere
    <2>3. deleting'[c] = "idle" <=> deleting[c] = "idle"
        BY <1>0, <2>1, InterruptedSteps
    <2>4. ~away /\ Kept(c) BY <1>a, <2>1, <2>3 DEF Kept
    <2>5. Missing(c)' \subseteq Missing(c) BY <2>1, <2>2 DEF Missing
    <2> QED BY <1>c, <2>4, <2>5
<1>12. CASE UNCHANGED vars BY <1>f, <1>12 DEF vars, operations, gateway
<1> QED BY <1>1, <1>2, <1>3, <1>4, <1>5, <1>6, <1>7, <1>8, <1>9, <1>10, <1>11, <1>12 DEF Next

\* The property of the counts, and the form it is proved in.
LEMMA TableCountsByMisses ==
    ASSUME TypeOK
    PROVE  TableCountsItsMessages <=> TableCounts
<1>0. saving \in [Messages -> Nowhere \cup {"insert", "update", "memory"}]
      /\ pg.messages \subseteq Messages
    BY Places, TypesOf DEF Tables
<1>1. ASSUME NEW c, NEW lost, lost \subseteq RowsOf(c)
      PROVE  /\ (RowsOf(c) \ InStep(saving, {"update"})) \ lost = CountedRows(c, lost)
             /\ lost \ InStep(saving, {"lost"}) = Uncounted(lost)
    BY <1>0, <1>1 DEF RowsOf, InStep, CountedRows, Uncounted
<1>2. ASSUME NEW c
      PROVE  (\E lost \in SUBSET RowsOf(c) :
                /\ Cardinality(lost \ InStep(saving, {"lost"})) <= failures
                /\ pg.count[c] = TokensOf((RowsOf(c) \ InStep(saving, {"update"})) \ lost))
             <=> \E lost : Misses(c, lost)
    BY <1>1 DEF Misses
<1> QED BY <1>2 DEF TableCountsItsMessages, TableCounts

LEMMA TableCountsInit == Init => TableCounts
BY DEF Init, NoRows, TableCounts

LEMMA TableCountsNext ==
    ASSUME TypeOK, OperationsInOrder, TablesFollow, TableCounts, [Next]_vars
    PROVE  TableCounts'
<1>0. /\ saving \in [Messages -> Nowhere \cup {"insert", "update", "memory"}]
      /\ Thread \in [Messages -> Ids] /\ pg.messages \subseteq Messages
      /\ pg.conversations \subseteq Conversations /\ Conversations \subseteq Ids
      /\ pg.count \in [Ids -> Nat]
      /\ \A m \in pg.messages : Thread[m] \in pg.conversations
    BY Places, TypesOf DEF Tables
<1>t. TypeOK' BY TypesNext
<1> SUFFICES ASSUME NEW c, c \in pg'.conversations PROVE \E lost : Misses(c, lost)'
    BY DEF TableCounts
<1> DEFINE Goal == \E lost : Misses(c, lost)'
<1> SUFFICES Goal OBVIOUS
<1>m. ASSUME NEW lost, NEW S, lost \subseteq RowsOf(c)',
             Cardinality(Uncounted(lost)') <= failures',
             CountedRows(c, lost)' = S, pg'.count[c] = TokensOf(S)
      PROVE  Goal
    <2>1. Misses(c, lost)' BY <1>m DEF Misses
    <2> QED BY <2>1
<1>a. failures <= failures' /\ failures \in Nat /\ failures' \in Nat BY FailuresOnlyGrow
<1>b. ASSUME NEW lost, Misses(c, lost)
      PROVE  /\ IsFiniteSet(Uncounted(lost)) /\ Cardinality(Uncounted(lost)) \in Nat
             /\ Cardinality(Uncounted(lost)) <= failures
             /\ lost \subseteq RowsOf(c) /\ pg.count[c] = TokensOf(CountedRows(c, lost))
             /\ CountedRows(c, lost) \in SUBSET Messages
    <2>1. Uncounted(lost) \subseteq Messages BY <1>0, <1>b DEF Misses, Uncounted, RowsOf
    <2>2. CountedRows(c, lost) \in SUBSET Messages BY <1>0 DEF CountedRows
    <2> QED BY <1>b, <2>1, <2>2, StoreAssumption, FS_Subset, FS_CardinalityType DEF Misses
<1> HIDE DEF Goal
\* Either nothing new is missed, ...
<1>s. ASSUME NEW lost, Misses(c, lost), NEW lost2, lost2 \subseteq RowsOf(c)',
             Uncounted(lost2)' \subseteq Uncounted(lost),
             pg'.count[c] = TokensOf(CountedRows(c, lost2)')
      PROVE  Goal
    <2>1. /\ Cardinality(Uncounted(lost2)') <= Cardinality(Uncounted(lost))
          /\ IsFiniteSet(Uncounted(lost2)')
        BY <1>b, <1>s, FS_Subset
    <2>2. Cardinality(Uncounted(lost2)') \in Nat BY <2>1, FS_CardinalityType
    <2>3. Cardinality(Uncounted(lost2)') <= failures' BY <1>a, <1>b, <1>s, <2>1, <2>2
    <2> QED BY <1>m, <1>s, <2>3
\* ... or a statement threw, and one message more is.
<1>f. ASSUME NEW lost, Misses(c, lost), NEW m, lost \cup {m} \subseteq RowsOf(c)',
             Uncounted(lost \cup {m})' \subseteq Uncounted(lost) \cup {m},
             failures' = failures + 1,
             pg'.count[c] = TokensOf(CountedRows(c, lost \cup {m})')
      PROVE  Goal
    <2> DEFINE U == Uncounted(lost)
               V == Uncounted(lost \cup {m})'
    <2>1. IsFiniteSet(U) /\ Cardinality(U) \in Nat /\ Cardinality(U) <= failures BY <1>b, <1>f
    <2>2. V \subseteq U \cup {m} BY <1>f
    <2> HIDE DEF U, V
    <2>3. /\ IsFiniteSet(U \cup {m}) /\ Cardinality(U \cup {m}) \in Nat
          /\ Cardinality(U \cup {m}) <= Cardinality(U) + 1
        <3>1. CASE m \in U
            <4>1. U \cup {m} = U BY <3>1
            <4>2. Cardinality(U) <= Cardinality(U) + 1 BY <2>1
            <4> QED BY <4>1, <4>2, <2>1, Zenon
        <3>2. CASE m \notin U BY <3>2, <2>1, FS_AddElement
        <3> QED BY <3>1, <3>2
    <2>4. IsFiniteSet(V) /\ Cardinality(V) <= Cardinality(U \cup {m}) BY <2>2, <2>3, FS_Subset
    <2>5. Cardinality(V) \in Nat BY <2>4, FS_CardinalityType
    <2>6. Cardinality(V) <= failures' BY <1>a, <1>f, <2>1, <2>3, <2>4, <2>5
    <2> QED BY <1>m, <1>f, <2>6 DEF V
\* Steps that leave the rows of c, and the updates of their messages, alone.
<1>u. ASSUME c \in pg.conversations, UNCHANGED RowsOf(c), pg'.count[c] = pg.count[c],
             \A m \in RowsOf(c) : /\ saving'[m] = "update" <=> saving[m] = "update"
                                  /\ saving[m] = "lost" => saving'[m] = "lost"
      PROVE  Goal
    <2>1. PICK lost : Misses(c, lost) BY <1>u DEF TableCounts
    <2>2. lost \subseteq RowsOf(c)' BY <1>u, <2>1 DEF Misses
    <2>3. Uncounted(lost)' \subseteq Uncounted(lost) BY <1>u, <2>1 DEF Uncounted, Misses
    <2>4. CountedRows(c, lost)' = CountedRows(c, lost) BY <1>u DEF CountedRows, RowsOf
    <2>5. pg'.count[c] = TokensOf(CountedRows(c, lost)') BY <1>b, <1>u, <2>1, <2>4
    <2> QED BY <1>s, <2>1, <2>2, <2>3, <2>5
<1>1. ASSUME NEW d \in Conversations, InsertConversation(d) PROVE Goal
    <2>1. /\ pg'.conversations \in {pg.conversations, pg.conversations \cup {d}}
          /\ pg'.count = pg.count /\ pg'.messages = pg.messages /\ saving' = saving
        BY <1>1, InsertConversationEffect
    <2>2. CASE c \in pg.conversations BY <1>u, <2>1, <2>2 DEF RowsOf
    <2>3. CASE c \notin pg.conversations
        <3>1. c = d /\ c \in Ids BY <1>0, <2>1, <2>3
        <3>2. pg'.count[c] = 0 BY <2>1, <2>3, <3>1 DEF TablesFollow
        <3>3. CountedRows(c, {})' = {} BY <1>0, <2>1, <2>3 DEF CountedRows
        <3>4. Uncounted({})' = {} BY DEF Uncounted
        <3>5. Cardinality({}) <= failures' BY <1>a, FS_EmptySet
        <3> QED BY <1>m, <3>2, <3>3, <3>4, <3>5, NoTokens
    <2> QED BY <2>2, <2>3
<1>2. ASSUME NEW d \in Conversations, RememberConversation(d) PROVE Goal
    BY <1>2, <1>u, RememberConversationEffect DEF RowsOf
<1>3. ASSUME NEW r \in Requests, InsertRequest(r) PROVE Goal
    BY <1>3, <1>u, InsertRequestEffect DEF RowsOf
<1>4. ASSUME NEW r \in Requests, RememberRequest(r) PROVE Goal
    BY <1>4, <1>u, RememberRequestEffect DEF RowsOf
<1>5. ASSUME NEW m \in Messages, CallSave(m) PROVE Goal
    <2>1. saving[m] = "idle" /\ saving' = [saving EXCEPT ![m] = "insert"] /\ pg' = pg
        BY <1>5, CallSaveEffect
    <2>2. m \notin pg.messages BY <2>1 DEF TablesFollow
    <2> QED BY <1>0, <1>u, <2>1, <2>2 DEF RowsOf
<1>6. ASSUME NEW m \in Messages, InsertMessage(m) PROVE Goal
    <2>1. PICK to \in {"update", "memory"} :
             /\ saving' = [saving EXCEPT ![m] = to]
             /\ to = "update" => m \in pg'.messages
             /\ failures' = failures /\ m \in pg'.messages => to = "update"
        BY <1>6, InsertMessageEffect
    <2>2. /\ saving[m] = "insert" /\ pg'.conversations = pg.conversations
          /\ pg'.count = pg.count
          /\ pg'.messages \in {pg.messages, pg.messages \cup {m}}
        BY <1>6, InsertMessageEffect
    <2>3. m \notin pg.messages BY <2>2 DEF TablesFollow
    <2>4. CASE pg'.messages = pg.messages \/ Thread[m] # c
        <3>1. RowsOf(c)' = RowsOf(c) BY <2>2, <2>4 DEF RowsOf
        <3>2. m \notin RowsOf(c) BY <2>3 DEF RowsOf
        <3> QED BY <1>0, <1>u, <2>1, <2>2, <3>1, <3>2 DEF RowsOf
    <2>5. CASE pg'.messages # pg.messages /\ Thread[m] = c
        <3>1. pg'.messages = pg.messages \cup {m} BY <2>2, <2>5
        <3>2. PICK lost : Misses(c, lost) BY <2>2 DEF TableCounts
        <3>3. lost \subseteq RowsOf(c) /\ m \notin lost BY <2>3, <3>2 DEF Misses, RowsOf
        <3>4. CASE to = "update"
            <4>1. lost \subseteq RowsOf(c)' BY <3>1, <3>3 DEF RowsOf
            <4>2. Uncounted(lost)' \subseteq Uncounted(lost)
                BY <1>0, <2>1, <3>3 DEF Uncounted, RowsOf
            <4>3. CountedRows(c, lost)' = CountedRows(c, lost)
                BY <1>0, <2>1, <2>3, <3>1, <3>4 DEF CountedRows
            <4>4. pg'.count[c] = TokensOf(CountedRows(c, lost)') BY <1>b, <2>2, <3>2, <4>3
            <4> QED BY <1>s, <3>2, <4>1, <4>2, <4>4
        <3>5. CASE to # "update"
            <4>1. failures' = failures + 1 BY <2>1, <3>1, <3>5, FailuresCounted
            <4>2. lost \cup {m} \subseteq RowsOf(c)' BY <2>5, <3>1, <3>3 DEF RowsOf
            <4>3. Uncounted(lost \cup {m})' \subseteq Uncounted(lost) \cup {m}
                BY <1>0, <2>1, <3>3 DEF Uncounted, RowsOf
            <4>4. CountedRows(c, lost \cup {m})' = CountedRows(c, lost)
                BY <1>0, <2>1, <2>3, <3>1 DEF CountedRows
            <4>5. pg'.count[c] = TokensOf(CountedRows(c, lost \cup {m})')
                BY <1>b, <2>2, <3>2, <4>4
            <4> QED BY <1>f, <3>2, <4>1, <4>2, <4>3, <4>5
        <3> QED BY <3>4, <3>5
    <2> QED BY <2>4, <2>5
<1>7. ASSUME NEW m \in Messages, UpdateCount(m) PROVE Goal
    <2>1. /\ saving[m] = "update" /\ saving' = [saving EXCEPT ![m] = "memory"]
          /\ pg'.conversations = pg.conversations /\ pg'.messages = pg.messages
          /\ pg'.count \in {pg.count, NewCount(m)}
          /\ failures' = failures => pg'.count = NewCount(m)
        BY <1>7, UpdateCountEffect
    <2>2. CASE Thread[m] # c
        <3>1. AddTo(pg.count, m)[c] = pg.count[c] BY <1>0, <2>1, <2>2, AddType
        <3>2. NewCount(m)[c] = pg.count[c] BY <3>1 DEF NewCount
        <3>3. m \notin RowsOf(c) BY <2>2 DEF RowsOf
        <3> QED BY <1>0, <1>u, <2>1, <3>2, <3>3 DEF RowsOf
    <2>3. CASE Thread[m] = c
        <3>1. m \in pg.messages BY <2>1, <2>3 DEF TablesFollow
        <3>2. PICK lost : Misses(c, lost) BY <2>1 DEF TableCounts
        <3>3. lost \subseteq RowsOf(c) BY <3>2 DEF Misses
        <3>4. CASE pg'.count = NewCount(m)
            <4>1. AddTo(pg.count, m)[c] = pg.count[c] + Tokens[m] BY <1>0, <2>3, AddType
            <4>2. pg'.count[c] = pg.count[c] + Tokens[m] BY <2>1, <2>3, <3>4, <4>1 DEF NewCount
            <4>3. m \notin CountedRows(c, lost) BY <2>1 DEF CountedRows
            <4>4. TokensOf(CountedRows(c, lost) \cup {m}) = TokensOf(CountedRows(c, lost)) + Tokens[m]
                BY <1>b, <3>2, <4>3, TokensAdd
            <4>5. CountedRows(c, lost \ {m})' = CountedRows(c, lost) \cup {m}
                BY <1>0, <2>1, <2>3, <3>1 DEF CountedRows
            <4>6. Uncounted(lost \ {m})' \subseteq Uncounted(lost)
                BY <1>0, <2>1, <3>3 DEF Uncounted, RowsOf
            <4>7. lost \ {m} \subseteq RowsOf(c)' BY <2>1, <3>3 DEF RowsOf
            <4>8. pg'.count[c] = TokensOf(CountedRows(c, lost \ {m})')
                BY <1>b, <3>2, <4>2, <4>4, <4>5
            <4> QED BY <1>s, <3>2, <4>6, <4>7, <4>8
        <3>5. CASE pg'.count # NewCount(m)
            <4>1. failures' = failures + 1 /\ pg'.count = pg.count
                BY <2>1, <3>5, FailuresCounted
            <4>2. lost \cup {m} \subseteq RowsOf(c)' BY <2>1, <2>3, <3>1, <3>3 DEF RowsOf
            <4>3. Uncounted(lost \cup {m})' \subseteq Uncounted(lost) \cup {m}
                BY <1>0, <2>1, <3>3 DEF Uncounted, RowsOf
            <4>4. CountedRows(c, lost \cup {m})' = CountedRows(c, lost)
                BY <1>0, <2>1 DEF CountedRows
            <4>5. pg'.count[c] = TokensOf(CountedRows(c, lost \cup {m})')
                BY <1>b, <3>2, <4>1, <4>4
            <4> QED BY <1>f, <3>2, <4>1, <4>2, <4>3, <4>5
        <3> QED BY <3>4, <3>5
    <2> QED BY <2>2, <2>3
<1>8. ASSUME NEW m \in Messages, RememberMessage(m) PROVE Goal
    <2>1. /\ saving[m] \in {"memory", "idle"} /\ saving' = [saving EXCEPT ![m] = "done"]
          /\ pg' = pg
        BY <1>8, RememberMessageEffect
    <2> QED BY <1>0, <1>u, <2>1 DEF RowsOf
<1>9. ASSUME NEW d \in Ids, DeleteRows(d) PROVE Goal
    <2>1. saving' = saving BY <1>9, DeleteRowsEffect
    <2>2. CASE pg' = pg BY <1>u, <2>1, <2>2 DEF RowsOf
    <2>3. CASE pg' # pg
        <3>1. /\ pg'.conversations = pg.conversations \ {d}
              /\ pg'.count = [pg.count EXCEPT ![d] = 0]
              /\ pg'.messages = {m \in pg.messages : Thread[m] # d}
            BY <1>9, <2>3, DeleteRowsEffect
        <3>2. c # d /\ c \in pg.conversations /\ c \in Ids BY <1>0, <3>1
        <3>3. RowsOf(c)' = RowsOf(c) BY <3>1, <3>2 DEF RowsOf
        <3> QED BY <1>0, <1>u, <2>1, <3>1, <3>2, <3>3
    <2> QED BY <2>2, <2>3
<1>10. ASSUME NEW d \in Ids, ForgetConversation(d) PROVE Goal
    BY <1>10, <1>u, ForgetConversationEffect DEF RowsOf
<1>11. CASE Restart
    <2>1. saving' = Interrupted(saving) /\ pg' = pg BY <1>11, RestartEffect
    <2>2. \A m \in Messages : /\ saving'[m] # "update"
                              /\ saving[m] \in {"update", "lost"} => saving'[m] = "lost"
        BY <1>0, <2>1, InterruptedSteps DEF Nowhere
    <2>3. PICK lost : Misses(c, lost) BY <2>1 DEF TableCounts
    <2>4. lost \subseteq RowsOf(c) BY <2>3 DEF Misses
    <2>5. PICK lost2 : lost2 = lost \cup {m \in RowsOf(c) : saving[m] = "update"} OBVIOUS
    <2>6. lost2 \subseteq RowsOf(c)' BY <2>1, <2>4, <2>5 DEF RowsOf
    <2>7. Uncounted(lost2)' \subseteq Uncounted(lost)
        BY <1>0, <2>2, <2>4, <2>5 DEF Uncounted, RowsOf
    <2>8. CountedRows(c, lost2)' = CountedRows(c, lost)
        BY <1>0, <2>1, <2>2, <2>5 DEF CountedRows, RowsOf
    <2>9. pg'.count[c] = TokensOf(CountedRows(c, lost2)') BY <1>b, <2>1, <2>3, <2>8
    <2> QED BY <1>s, <2>3, <2>6, <2>7, <2>9
<1>12. CASE UNCHANGED vars BY <1>u, <1>12 DEF vars, operations, RowsOf
<1> QED BY <1>1, <1>2, <1>3, <1>4, <1>5, <1>6, <1>7, <1>8, <1>9, <1>10, <1>11, <1>12 DEF Next

\* The list of a conversation after a message is pushed on it.
LEMMA Pushed ==
    ASSUME NEW list \in Seq(Messages), NEW m \in Messages
    PROVE  LET n == Len(list) IN
           /\ n \in Nat /\ DOMAIN list = 1..n /\ DOMAIN Append(list, m) = 1..(n + 1)
           /\ n + 1 \in 1..(n + 1) /\ Append(list, m)[n + 1] = m
           /\ \A i \in 1..n : /\ i \in 1..(n + 1) /\ i < n + 1
                              /\ Append(list, m)[i] = list[i] /\ list[i] \in Messages
           /\ \A i \in 1..(n + 1) : i \in 1..n \/ i = n + 1
<1> DEFINE n == Len(list)
<1>1. n \in Nat /\ DOMAIN list = 1..n /\ DOMAIN Append(list, m) = 1..(n + 1) OBVIOUS
<1>2. Append(list, m)[n + 1] = m
      /\ \A i \in 1..n : Append(list, m)[i] = list[i] /\ list[i] \in Messages
    OBVIOUS
<1> HIDE DEF n
<1>3. /\ n + 1 \in 1..(n + 1)
      /\ \A i \in 1..n : i \in 1..(n + 1) /\ i < n + 1
      /\ \A i \in 1..(n + 1) : i \in 1..n \/ i = n + 1
    BY <1>1, SMT
<1> QED BY <1>1, <1>2, <1>3 DEF n

\* The parts about the memory are kept by every step.
LEMMA MemoryFollowsNext ==
    ASSUME TypeOK, OperationsInOrder, MemoryFollows, [Next]_vars
    PROVE  MemoryFollows'
<1>0. /\ creating \in [Conversations -> Nowhere \cup {"memory"}]
      /\ saving \in [Messages -> Nowhere \cup {"insert", "update", "memory"}]
      /\ deleting \in [Ids -> Nowhere \cup {"memory"}]
      /\ recording \in [Requests -> Nowhere \cup {"memory"}]
      /\ Thread \in [Messages -> Ids] /\ Conversations \subseteq Ids
      /\ mem.conversations \subseteq Conversations /\ mem.requests \subseteq Requests
      /\ mem.messages \in [Ids -> Seq(Messages)]
      /\ \A c \in Ids : mem.messages[c] \in Seq(Messages)
      /\ \A c \in Ids : \A i \in DOMAIN mem.messages[c] : mem.messages[c][i] \in Messages
    BY Places, TypesOf DEF Memory
<1>u. ASSUME UNCHANGED mem,
             \A c \in Conversations : creating'[c] = "done" <=> creating[c] = "done",
             \A c \in Ids : deleting'[c] = "done" <=> deleting[c] = "done",
             \A r \in Requests : recording'[r] = "done" <=> recording[r] = "done",
             \A m \in Messages : saving'[m] = "done" <=> saving[m] = "done"
      PROVE  MemoryFollows'
    BY <1>0, <1>u DEF MemoryFollows
<1>1. ASSUME NEW c \in Conversations, InsertConversation(c) PROVE MemoryFollows'
    <2>1. creating[c] = "idle" /\ creating' = [creating EXCEPT ![c] = "memory"]
          /\ UNCHANGED <<mem, saving, deleting, recording>>
        BY <1>1, InsertConversationEffect
    <2> QED BY <1>0, <1>u, <2>1
<1>2. ASSUME NEW c \in Conversations, RememberConversation(c) PROVE MemoryFollows'
    <2>1. /\ creating[c] \in {"idle", "memory"} /\ creating' = [creating EXCEPT ![c] = "done"]
          /\ mem'.conversations = mem.conversations \cup {c}
          /\ mem'.messages = [mem.messages EXCEPT ![c] = <<>>]
          /\ mem'.requests = mem.requests
          /\ UNCHANGED <<saving, deleting, recording>>
        BY <1>2, RememberConversationEffect
    <2>2. deleting[c] = "idle" /\ \A m \in Messages : Thread[m] = c => saving[m] = "idle"
        BY <2>1, NotYetNamed
    <2>3. /\ mem'.messages[c] = <<>> /\ DOMAIN mem'.messages[c] = {}
          /\ \A d \in Ids : d # c => mem'.messages[d] = mem.messages[d]
        BY <1>0, <2>1
    <2>4. mem'.conversations = {d \in Conversations : creating'[d] = "done" /\ deleting'[d] # "done"}
        BY <1>0, <2>1, <2>2 DEF MemoryFollows
    <2> QED BY <1>0, <2>1, <2>2, <2>3, <2>4 DEF MemoryFollows
<1>3. ASSUME NEW r \in Requests, InsertRequest(r) PROVE MemoryFollows'
    <2>1. recording[r] = "idle" /\ recording' = [recording EXCEPT ![r] = "memory"]
          /\ UNCHANGED <<mem, saving, deleting, creating>>
        BY <1>3, InsertRequestEffect
    <2> QED BY <1>0, <1>u, <2>1
<1>4. ASSUME NEW r \in Requests, RememberRequest(r) PROVE MemoryFollows'
    <2>1. /\ recording' = [recording EXCEPT ![r] = "done"]
          /\ mem'.conversations = mem.conversations /\ mem'.messages = mem.messages
          /\ mem'.requests = mem.requests \cup {r} /\ UNCHANGED <<saving, deleting, creating>>
        BY <1>4, RememberRequestEffect
    <2>2. mem'.requests = {q \in Requests : recording'[q] = "done"}
        BY <1>0, <2>1 DEF MemoryFollows
    <2> QED BY <2>1, <2>2 DEF MemoryFollows
<1>5. ASSUME NEW m \in Messages, NEW to, to # "done", saving[m] # "done",
             saving' = [saving EXCEPT ![m] = to],
             UNCHANGED <<mem, creating, deleting, recording>>
      PROVE  MemoryFollows'
    BY <1>0, <1>5, <1>u
<1>6. ASSUME NEW m \in Messages, CallSave(m) PROVE MemoryFollows'
    BY <1>5, <1>6, CallSaveEffect
<1>7. ASSUME NEW m \in Messages, InsertMessage(m) PROVE MemoryFollows'
    <2>1. PICK to \in {"update", "memory"} : saving' = [saving EXCEPT ![m] = to]
        BY <1>7, InsertMessageEffect
    <2> QED BY <1>5, <1>7, <2>1, InsertMessageEffect
<1>8. ASSUME NEW m \in Messages, UpdateCount(m) PROVE MemoryFollows'
    BY <1>5, <1>8, UpdateCountEffect
<1>9. ASSUME NEW m \in Messages, RememberMessage(m) PROVE MemoryFollows'
    <2> DEFINE t == Thread[m]
               list == mem.messages[t]
               n == Len(list)
    <2>1. /\ saving[m] \in {"memory", "idle"} /\ saving' = [saving EXCEPT ![m] = "done"]
          /\ mem'.conversations = mem.conversations /\ mem'.requests = mem.requests
          /\ mem'.messages = [mem.messages EXCEPT ![t] = Append(@, m)]
          /\ UNCHANGED <<creating, deleting, recording>>
        BY <1>9, RememberMessageEffect
    <2>2. t \in Ids /\ list \in Seq(Messages) BY <1>0
    <2>3. mem'.messages[t] = Append(list, m)
          /\ \A d \in Ids : d # t => mem'.messages[d] = mem.messages[d]
        BY <1>0, <2>1, <2>2
    <2>4. /\ n \in Nat /\ DOMAIN list = 1..n /\ DOMAIN mem'.messages[t] = 1..(n + 1)
          /\ n + 1 \in 1..(n + 1) /\ mem'.messages[t][n + 1] = m
          /\ \A i \in 1..n : /\ i \in 1..(n + 1)
                             /\ mem'.messages[t][i] = list[i] /\ list[i] \in Messages
          /\ \A i \in 1..(n + 1) : i \in 1..n \/ i = n + 1
        BY <2>2, <2>3, Pushed
    <2>5. \A i \in 1..n : Thread[list[i]] = t /\ saving[list[i]] = "done" /\ list[i] # m
        BY <2>1, <2>2, <2>4 DEF MemoryFollows
    <2>6. \A i, j \in 1..n : list[i] = list[j] => i = j BY <2>2, <2>4 DEF MemoryFollows
    <2> HIDE DEF n, list, t
    <2>7. ASSUME NEW c \in Ids, NEW i \in DOMAIN mem'.messages[c]
          PROVE  Thread[mem'.messages[c][i]] = c /\ saving'[mem'.messages[c][i]] = "done"
        <3>1. CASE c = t BY <1>0, <2>1, <2>4, <2>5, <2>7, <3>1 DEF t
        <3>2. CASE c # t BY <1>0, <2>1, <2>3, <2>7, <3>2 DEF MemoryFollows
        <3> QED BY <3>1, <3>2
    <2>8. ASSUME NEW c \in Ids, NEW i \in DOMAIN mem'.messages[c], NEW j \in DOMAIN mem'.messages[c],
                 mem'.messages[c][i] = mem'.messages[c][j]
          PROVE  i = j
        <3>1. CASE c = t BY <2>4, <2>5, <2>6, <2>8, <3>1
        <3>2. CASE c # t BY <2>3, <2>8, <3>2 DEF MemoryFollows
        <3> QED BY <3>1, <3>2
    <2>9. ASSUME NEW k \in Messages, saving'[k] = "done", deleting'[Thread[k]] # "done"
          PROVE  \E i \in DOMAIN mem'.messages[Thread[k]] : mem'.messages[Thread[k]][i] = k
        <3>1. CASE k = m BY <2>4, <3>1 DEF t
        <3>2. CASE k # m
            <4>1. saving[k] = "done" /\ deleting[Thread[k]] # "done" BY <1>0, <2>1, <2>9, <3>2
            <4>2. PICK i \in DOMAIN mem.messages[Thread[k]] : mem.messages[Thread[k]][i] = k
                BY <4>1 DEF MemoryFollows
            <4>3. CASE Thread[k] = t BY <2>4, <4>2, <4>3 DEF list
            <4>4. CASE Thread[k] # t BY <1>0, <2>3, <4>2, <4>4
            <4> QED BY <4>3, <4>4
        <3> QED BY <3>1, <3>2
    <2> QED BY <2>1, <2>7, <2>8, <2>9 DEF MemoryFollows
<1>10. ASSUME NEW c \in Ids, DeleteRows(c) PROVE MemoryFollows'
    <2>1. /\ deleting[c] = "idle" /\ deleting' = [deleting EXCEPT ![c] = "memory"]
          /\ UNCHANGED <<mem, creating, saving, recording>>
        BY <1>10, DeleteRowsEffect
    <2> QED BY <1>0, <1>u, <2>1
<1>11. ASSUME NEW c \in Ids, ForgetConversation(c) PROVE MemoryFollows'
    <2>1. /\ deleting' = [deleting EXCEPT ![c] = "done"]
          /\ mem'.conversations = mem.conversations \ {c}
          /\ mem'.messages = [mem.messages EXCEPT ![c] = <<>>]
          /\ mem'.requests = mem.requests /\ UNCHANGED <<creating, saving, recording>>
        BY <1>11, ForgetConversationEffect
    <2>2. /\ mem'.messages[c] = <<>> /\ DOMAIN mem'.messages[c] = {}
          /\ \A d \in Ids : d # c => mem'.messages[d] = mem.messages[d]
        BY <1>0, <2>1
    <2>3. mem'.conversations = {d \in Conversations : creating'[d] = "done" /\ deleting'[d] # "done"}
        BY <1>0, <2>1 DEF MemoryFollows
    <2> QED BY <1>0, <2>1, <2>2, <2>3 DEF MemoryFollows
<1>12. CASE Restart
    <2>1. /\ mem' = NoMemory /\ mem'.conversations = {} /\ mem'.requests = {}
          /\ \A c \in Ids : mem'.messages[c] = <<>>
          /\ creating' = Interrupted(creating) /\ saving' = Interrupted(saving)
          /\ recording' = Interrupted(recording)
        BY <1>12, RestartEffect
    <2>2. /\ \A c \in Conversations : creating'[c] # "done"
          /\ \A m \in Messages : saving'[m] # "done"
        BY <1>0, <2>1, InterruptedSteps
    <2>3. \A r \in Requests : recording'[r] # "done"
        BY <1>0, <2>1, InterruptedSteps
    <2>4. \A c \in Ids : DOMAIN mem'.messages[c] = {} BY <2>1
    <2> QED BY <2>1, <2>2, <2>3, <2>4 DEF MemoryFollows
<1>13. CASE UNCHANGED vars BY <1>u, <1>13 DEF vars, operations
<1> QED BY <1>1, <1>2, <1>3, <1>4, <1>6, <1>7, <1>8, <1>9, <1>10, <1>11, <1>12, <1>13 DEF Next

\* The lists of messages and the counts change only so.
MemoryChange ==
    \/ /\ mem'.messages = mem.messages /\ mem'.count = mem.count
       /\ mem'.conversations = mem.conversations
    \/ \E c \in Ids : /\ mem'.messages = [mem.messages EXCEPT ![c] = <<>>]
                      /\ mem'.count = [mem.count EXCEPT ![c] = 0]
                      /\ mem'.conversations \in {mem.conversations \cup {c}, mem.conversations \ {c}}
    \/ \E m \in Messages :
          /\ saving[m] # "done"
          /\ mem'.messages = [mem.messages EXCEPT ![Thread[m]] = Append(@, m)]
          /\ mem'.count = IF Thread[m] \in mem.conversations THEN AddTo(mem.count, m)
                          ELSE mem.count
          /\ mem'.conversations = mem.conversations
    \/ mem'.conversations = {} /\ \A c \in Ids : mem'.messages[c] = <<>>

\* What a step can do to the memory.
LEMMA MemoryChanges ==
    ASSUME TypeOK, [Next]_vars
    PROVE  MemoryChange
<1>1. ASSUME NEW c \in Conversations, InsertConversation(c) PROVE MemoryChange
    BY <1>1, InsertConversationEffect DEF MemoryChange
<1>2. ASSUME NEW c \in Conversations, RememberConversation(c) PROVE MemoryChange
    <2>1. c \in Ids BY DEF Ids
    <2> QED BY <1>2, <2>1, RememberConversationEffect DEF MemoryChange
<1>3. ASSUME NEW r \in Requests, InsertRequest(r) PROVE MemoryChange
    BY <1>3, InsertRequestEffect DEF MemoryChange
<1>4. ASSUME NEW r \in Requests, RememberRequest(r) PROVE MemoryChange
    BY <1>4, RememberRequestEffect DEF MemoryChange
<1>5. ASSUME NEW m \in Messages, CallSave(m) PROVE MemoryChange
    BY <1>5, CallSaveEffect DEF MemoryChange
<1>6. ASSUME NEW m \in Messages, InsertMessage(m) PROVE MemoryChange
    BY <1>6, InsertMessageEffect DEF MemoryChange
<1>7. ASSUME NEW m \in Messages, UpdateCount(m) PROVE MemoryChange
    BY <1>7, UpdateCountEffect DEF MemoryChange
<1>8. ASSUME NEW m \in Messages, RememberMessage(m) PROVE MemoryChange
    <2>1. saving[m] # "done" BY <1>8, RememberMessageEffect
    <2> QED BY <1>8, <2>1, RememberMessageEffect DEF MemoryChange
<1>9. ASSUME NEW c \in Ids, DeleteRows(c) PROVE MemoryChange
    BY <1>9, DeleteRowsEffect DEF MemoryChange
<1>10. ASSUME NEW c \in Ids, ForgetConversation(c) PROVE MemoryChange
    BY <1>10, ForgetConversationEffect DEF MemoryChange
<1>11. CASE Restart BY <1>11, RestartEffect DEF MemoryChange
<1>12. CASE UNCHANGED vars BY <1>12 DEF vars, MemoryChange
<1> QED BY <1>1, <1>2, <1>3, <1>4, <1>5, <1>6, <1>7, <1>8, <1>9, <1>10, <1>11, <1>12 DEF Next

LEMMA MemoryInOrderNext ==
    ASSUME TypeOK, OperationsInOrder, MemoryFollows, MemoryInOrder, [Next]_vars
    PROVE  MemoryInOrder'
<1>0. /\ Thread \in [Messages -> Ids] /\ mem.messages \in [Ids -> Seq(Messages)]
      /\ \A m \in DOMAIN Question : Question[m] # m /\ m \in Messages
    BY Places, TypesOf DEF Memory
<1> SUFFICES ASSUME NEW c \in Ids,
                    NEW i \in DOMAIN mem'.messages[c], NEW j \in DOMAIN mem'.messages[c],
                    mem'.messages[c][j] \in DOMAIN Question,
                    mem'.messages[c][i] = Question[mem'.messages[c][j]]
             PROVE  i < j
    BY DEF MemoryInOrder
<1>1. CASE mem'.messages[c] = mem.messages[c] BY <1>1 DEF MemoryInOrder
<1>2. CASE mem'.messages[c] = <<>> BY <1>2
<1>3. ASSUME NEW m \in Messages, saving[m] # "done", c = Thread[m],
             mem'.messages[c] = Append(mem.messages[c], m)
      PROVE  i < j
    <2> DEFINE list == mem.messages[c]
               n == Len(list)
    <2>1. list \in Seq(Messages) BY <1>0
    <2>2. /\ n \in Nat /\ DOMAIN list = 1..n /\ DOMAIN mem'.messages[c] = 1..(n + 1)
          /\ mem'.messages[c][n + 1] = m
          /\ \A k \in 1..n : mem'.messages[c][k] = list[k] /\ list[k] \in Messages /\ k < n + 1
          /\ \A k \in 1..(n + 1) : k \in 1..n \/ k = n + 1
        BY <1>3, <2>1, Pushed
    <2>3. CASE i \in 1..n /\ j \in 1..n BY <2>2, <2>3 DEF MemoryInOrder
    <2>4. CASE i \in 1..n /\ j = n + 1 BY <2>2, <2>4
    <2>5. CASE i = n + 1 /\ j = n + 1 BY <1>0, <2>2, <2>5
    <2>6. CASE i = n + 1 /\ j \in 1..n
        <3>1. m = Question[list[j]] /\ list[j] \in DOMAIN Question BY <2>2, <2>6
        <3>2. saving[list[j]] = "done" BY <2>2, <2>6 DEF MemoryFollows
        <3>3. saving[m] = "done" BY <3>1, <3>2 DEF OperationsInOrder, Here
        <3> QED BY <1>3, <3>3
    <2> HIDE DEF n, list
    <2> QED BY <2>2, <2>3, <2>4, <2>5, <2>6
<1>4. \/ mem'.messages[c] = mem.messages[c] \/ mem'.messages[c] = <<>>
      \/ \E m \in Messages : /\ saving[m] # "done" /\ c = Thread[m]
                             /\ mem'.messages[c] = Append(mem.messages[c], m)
    BY <1>0, MemoryChanges DEF MemoryChange
<1> QED BY <1>1, <1>2, <1>3, <1>4

LEMMA CountsFollowNext ==
    ASSUME TypeOK, MemoryFollows, CountsFollow, [Next]_vars
    PROVE  CountsFollow'
<1>0. /\ Thread \in [Messages -> Ids] /\ mem.messages \in [Ids -> Seq(Messages)]
      /\ mem.count \in [Ids -> Nat] /\ mem.conversations \subseteq Ids
    BY Places, TypesOf DEF Memory
<1> SUFFICES ASSUME NEW c, c \in mem'.conversations
             PROVE  mem'.count[c] = TokensOf(Remembered(c))'
    BY DEF CountsFollow
<1> DEFINE Goal == mem'.count[c] = TokensOf(Remembered(c))'
<1> SUFFICES Goal OBVIOUS
<1>1. ASSUME c \in mem.conversations, mem'.messages[c] = mem.messages[c],
             mem'.count[c] = mem.count[c]
      PROVE  Goal
    <2>1. Remembered(c)' = Remembered(c) BY <1>1 DEF Remembered, ToSet
    <2> QED BY <1>1, <2>1 DEF CountsFollow
<1>2. ASSUME mem'.messages[c] = <<>>, mem'.count[c] = 0 PROVE Goal
    <2>1. Remembered(c)' = {} BY <1>2 DEF Remembered, ToSet
    <2> QED BY <1>2, <2>1, NoTokens
<1>3. ASSUME NEW m \in Messages, saving[m] # "done", c = Thread[m], c \in mem.conversations,
             mem'.messages[c] = Append(mem.messages[c], m),
             mem'.count[c] = mem.count[c] + Tokens[m]
      PROVE  Goal
    <2> DEFINE list == mem.messages[c]
               n == Len(list)
    <2>1. list \in Seq(Messages) /\ c \in Ids BY <1>0, <1>3
    <2>2. /\ n \in Nat /\ DOMAIN list = 1..n /\ DOMAIN mem'.messages[c] = 1..(n + 1)
          /\ n + 1 \in 1..(n + 1) /\ mem'.messages[c][n + 1] = m
          /\ \A k \in 1..n : /\ mem'.messages[c][k] = list[k] /\ list[k] \in Messages
                             /\ k \in 1..(n + 1)
          /\ \A k \in 1..(n + 1) : k \in 1..n \/ k = n + 1
        BY <1>3, <2>1, Pushed
    <2>3. Remembered(c) \in SUBSET Messages BY <2>2 DEF Remembered, ToSet
    <2>4. m \notin Remembered(c) BY <1>3, <2>1 DEF Remembered, ToSet, MemoryFollows
    <2>5. Remembered(c)' = Remembered(c) \cup {m}
        <3>1. ASSUME NEW k \in Remembered(c)' PROVE k \in Remembered(c) \cup {m}
            <4>1. PICK i \in DOMAIN mem'.messages[c] : k = mem'.messages[c][i]
                BY <3>1 DEF Remembered, ToSet
            <4> HIDE DEF n
            <4> QED BY <4>1, <2>2 DEF Remembered, ToSet
        <3>2. ASSUME NEW k \in Remembered(c) PROVE k \in Remembered(c)'
            <4>1. PICK i \in DOMAIN list : k = list[i] BY <3>2 DEF Remembered, ToSet
            <4> HIDE DEF n
            <4> QED BY <4>1, <2>2 DEF Remembered, ToSet
        <3>3. m \in Remembered(c)'
            <4> HIDE DEF n
            <4> QED BY <2>2 DEF Remembered, ToSet
        <3> QED BY <3>1, <3>2, <3>3
    <2>6. TokensOf(Remembered(c) \cup {m}) = TokensOf(Remembered(c)) + Tokens[m]
        BY <2>3, <2>4, TokensAdd
    <2> QED BY <1>3, <2>5, <2>6 DEF CountsFollow
<1> HIDE DEF Goal
<1>4. CASE /\ mem'.messages = mem.messages /\ mem'.count = mem.count
           /\ mem'.conversations = mem.conversations
    BY <1>1, <1>4
<1>5. ASSUME NEW d \in Ids,
             mem'.messages = [mem.messages EXCEPT ![d] = <<>>],
             mem'.count = [mem.count EXCEPT ![d] = 0],
             mem'.conversations \in {mem.conversations \cup {d}, mem.conversations \ {d}}
      PROVE  Goal
    <2>1. CASE c = d
        <3>1. mem'.messages[c] = <<>> /\ mem'.count[c] = 0 BY <1>0, <1>5, <2>1
        <3> QED BY <1>2, <3>1
    <2>2. CASE c # d
        <3>1. c \in mem.conversations BY <1>5, <2>2
        <3>2. mem'.messages[c] = mem.messages[c] /\ mem'.count[c] = mem.count[c]
            BY <1>0, <1>5, <2>2, <3>1
        <3> QED BY <1>1, <3>1, <3>2
    <2> QED BY <2>1, <2>2
<1>6. ASSUME NEW m \in Messages, saving[m] # "done",
             mem'.messages = [mem.messages EXCEPT ![Thread[m]] = Append(@, m)],
             mem'.count = IF Thread[m] \in mem.conversations THEN AddTo(mem.count, m)
                          ELSE mem.count,
             mem'.conversations = mem.conversations
      PROVE  Goal
    <2>1. c \in mem.conversations /\ c \in Ids BY <1>0, <1>6
    <2>2. CASE c = Thread[m]
        <3>1. mem'.messages[c] = Append(mem.messages[c], m) BY <1>0, <1>6, <2>1, <2>2
        <3>2. mem'.count = AddTo(mem.count, m) BY <1>6, <2>1, <2>2
        <3>3. AddTo(mem.count, m)[Thread[m]] = mem.count[Thread[m]] + Tokens[m] BY <1>0, AddType
        <3>4. mem'.count[c] = mem.count[c] + Tokens[m] BY <2>2, <3>2, <3>3
        <3> QED BY <1>3, <1>6, <2>1, <2>2, <3>1, <3>4
    <2>3. CASE c # Thread[m]
        <3>1. mem'.messages[c] = mem.messages[c] BY <1>0, <1>6, <2>1, <2>3
        <3>2. \A d \in Ids \ {Thread[m]} : AddTo(mem.count, m)[d] = mem.count[d]
            BY <1>0, AddType
        <3>3. mem'.count[c] = mem.count[c]
            <4>1. CASE Thread[m] \in mem.conversations BY <4>1, <1>6, <2>1, <2>3, <3>2
            <4>2. CASE Thread[m] \notin mem.conversations BY <4>2, <1>6
            <4> QED BY <4>1, <4>2
        <3> QED BY <1>1, <2>1, <3>1, <3>3
    <2> QED BY <2>2, <2>3
<1> QED BY <1>4, <1>5, <1>6, MemoryChanges DEF MemoryChange

\* The invariant holds at first, and is kept.
LEMMA StoreInvInit == Init => StoreInv
<1> SUFFICES ASSUME Init PROVE StoreInv OBVIOUS
<1>1. TypeOK BY TypesInit
<1>2. /\ pg.conversations = {} /\ pg.messages = {} /\ \A c \in Ids : pg.count[c] = 0
      /\ connected \in BOOLEAN /\ away = ~connected /\ calls = <<>> /\ DOMAIN calls = {}
      /\ \A c \in Conversations : creating[c] = "idle"
      /\ \A m \in Messages : saving[m] = "idle"
      /\ \A c \in Ids : deleting[c] = "idle"
      /\ \A r \in Requests : recording[r] = "idle"
      /\ failures = 0
    BY DEF Init, NoRows
<1>3. /\ mem.conversations = {} /\ mem.requests = {}
      /\ \A c \in Ids : mem.messages[c] = <<>> /\ DOMAIN mem.messages[c] = {}
    BY DEF Init, NoMemory, NoRows
<1>4. \A m \in DOMAIN Question : m \in Messages BY Places, <1>1
<1>5. OperationsInOrder BY <1>2, <1>4 DEF OperationsInOrder, Here
<1>6. CallsInOrder BY <1>2 DEF CallsInOrder, Here
<1>7. TablesFollow BY <1>2 DEF TablesFollow
<1>8. TablesFollowWell BY <1>2 DEF TablesFollowWell
<1>9. MissingBounded
    <2>1. \A c \in Conversations : Missing(c) = {} BY <1>2 DEF Missing
    <2>2. Cardinality({}) <= failures BY <1>2, FS_EmptySet
    <2> QED BY <2>1, <2>2 DEF MissingBounded
<1>10. TableCounts BY <1>2 DEF TableCounts
<1>11. MemoryFollows BY <1>2, <1>3 DEF MemoryFollows
<1>12. MemoryInOrder BY <1>3 DEF MemoryInOrder
<1>13. CountsFollow BY <1>3 DEF CountsFollow
<1> QED BY <1>1, <1>5, <1>6, <1>7, <1>8, <1>9, <1>10, <1>11, <1>12, <1>13 DEF StoreInv

LEMMA StoreInvNext == StoreInv /\ [Next]_vars => StoreInv'
BY TypesNext, OperationsInOrderNext, CallsInOrderNext, TablesFollowNext, TablesFollowWellNext,
   MissingBoundedNext, TableCountsNext, MemoryFollowsNext, MemoryInOrderNext, CountsFollowNext
   DEF StoreInv

\* The inductive invariant of the store.
THEOREM StoreInvHolds == Spec => []StoreInv
BY StoreInvInit, StoreInvNext, PTL DEF Spec

\* The count in the table misses at most one message for each statement that
\* threw and each save that a restart cut, beside those between INSERT and
\* UPDATE, and it is never over (conversation.repo.ts saveMessage).
THEOREM TableAlwaysCounts == Spec => []TableCountsItsMessages
<1>1. StoreInv => TableCountsItsMessages BY TableCountsByMisses DEF StoreInv
<1> QED BY StoreInvHolds, <1>1, PTL

\* What the memory keeps of a conversation.
LEMMA MemoryComplete == StoreInv => MemoryIsComplete
<1> SUFFICES ASSUME StoreInv PROVE MemoryIsComplete OBVIOUS
<1>0. /\ saving \in [Messages -> Nowhere \cup {"insert", "update", "memory"}]
      /\ recording \in [Requests -> Nowhere \cup {"memory"}]
      /\ Thread \in [Messages -> Ids]
    BY Places DEF StoreInv, TypeOK
<1>1. ASSUME NEW m \in InStep(saving, {"done"}), deleting[Thread[m]] = "idle"
      PROVE  Cardinality({i \in DOMAIN mem.messages[Thread[m]] :
                             mem.messages[Thread[m]][i] = m}) = 1
    <2> DEFINE list == mem.messages[Thread[m]]
    <2>1. m \in Messages /\ saving[m] = "done" /\ Thread[m] \in Ids BY <1>0 DEF InStep
    <2>2. PICK k \in DOMAIN list : list[k] = m BY <1>1, <2>1 DEF StoreInv, MemoryFollows
    <2>3. \A i \in DOMAIN list : list[i] = m => i = k BY <2>1, <2>2 DEF StoreInv, MemoryFollows
    <2>4. {i \in DOMAIN list : list[i] = m} = {k} BY <2>2, <2>3
    <2> QED BY <2>4, FS_Singleton
<1>2. \A c \in mem.conversations : mem.count[c] = TokensOf(Remembered(c))
    BY DEF StoreInv, CountsFollow
<1>3. TotalRequests = Cardinality(InStep(recording, {"done"}))
    <2>1. mem.requests = InStep(recording, {"done"})
        BY <1>0 DEF StoreInv, MemoryFollows, InStep
    <2> QED BY <2>1 DEF TotalRequests
<1> QED BY <1>1, <1>2, <1>3 DEF MemoryIsComplete

\* The memory can stand in for the tables (conversation.repo.ts: every method
\* ends with the memory, whatever became of its statements).
THEOREM MemoryAlwaysComplete == Spec => []MemoryIsComplete
BY StoreInvHolds, MemoryComplete, PTL

\* What follows from the invariant.
LEMMA StoresAgree == StoreInv => StoresAgreeAtRest
<1> SUFFICES ASSUME StoreInv, connected, failures = 0,
                    NEW c \in InStep(creating, {"done"}), AtRest(c)
             PROVE  /\ c \in pg.conversations <=> c \in mem.conversations
                    /\ c \in mem.conversations =>
                          /\ RowsOf(c) = Remembered(c)
                          /\ pg.count[c] = mem.count[c]
    BY DEF StoresAgreeAtRest
<1>0. /\ creating \in [Conversations -> Nowhere \cup {"memory"}]
      /\ saving \in [Messages -> Nowhere \cup {"insert", "update", "memory"}]
      /\ Thread \in [Messages -> Ids] /\ Conversations \subseteq Ids
      /\ pg.messages \subseteq Messages /\ mem.messages \in [Ids -> Seq(Messages)]
    BY Places, TypesOf DEF StoreInv, Tables, Memory
<1>1. c \in Conversations /\ creating[c] = "done" /\ c \in Ids BY <1>0 DEF InStep
<1>2. deleting[c] \in {"idle", "done"}
    BY <1>1 DEF StoreInv, OperationsInOrder, AtRest, Nowhere
<1>3. /\ c \in pg.conversations <=> deleting[c] = "idle"
      /\ c \in mem.conversations <=> deleting[c] # "done"
    BY <1>1 DEF StoreInv, TablesFollowWell, MemoryFollows
<1>4. ASSUME c \in mem.conversations PROVE RowsOf(c) = Remembered(c)
    <2>1. c \in pg.conversations /\ deleting[c] # "done" BY <1>2, <1>3, <1>4
    <2>2. ASSUME NEW m \in RowsOf(c) PROVE m \in Remembered(c)
        <3>1. m \in pg.messages /\ m \in Messages /\ Thread[m] = c BY <1>0 DEF RowsOf
        <3>2. saving[m] \notin {"idle", "insert", "lost", "earlier"} /\ saving[m] \in Nowhere
            BY <1>1, <3>1 DEF StoreInv, TablesFollow, OperationsInOrder, AtRest
        <3>3. saving[m] = "done" BY <3>2 DEF Nowhere
        <3> QED BY <2>1, <3>1, <3>3 DEF StoreInv, MemoryFollows, Remembered, ToSet
    <2>3. ASSUME NEW m \in Remembered(c) PROVE m \in RowsOf(c)
        <3>1. PICK i \in DOMAIN mem.messages[c] : m = mem.messages[c][i]
            BY DEF Remembered, ToSet
        <3>2. m \in Messages BY <1>0, <1>1, <3>1
        <3>3. Thread[m] = c /\ saving[m] = "done" BY <1>1, <3>1 DEF StoreInv, MemoryFollows
        <3> QED BY <2>1, <3>2, <3>3 DEF StoreInv, TablesFollowWell, RowsOf
    <2> QED BY <2>2, <2>3
<1>5. ASSUME c \in mem.conversations PROVE pg.count[c] = mem.count[c]
    <2>1. c \in pg.conversations BY <1>2, <1>3, <1>5
    <2>2. PICK lost : Misses(c, lost) BY <2>1 DEF StoreInv, TableCounts
    <2>3. \A m \in RowsOf(c) : saving[m] \notin {"update", "lost"}
        BY <1>0, <1>1 DEF StoreInv, OperationsInOrder, AtRest, Nowhere, RowsOf
    <2>4. Uncounted(lost) = lost /\ lost \subseteq Messages /\ IsFiniteSet(lost)
          /\ Cardinality(lost) <= 0
        <3>1. lost \subseteq RowsOf(c) /\ Cardinality(Uncounted(lost)) <= 0 BY <2>2 DEF Misses
        <3>2. Uncounted(lost) = lost BY <2>3, <3>1 DEF Uncounted
        <3>3. lost \subseteq Messages BY <1>0, <3>1 DEF RowsOf
        <3> QED BY <3>1, <3>2, <3>3, StoreAssumption, FS_Subset
    <2>5. lost = {}
        <3>1. Cardinality(lost) \in Nat BY <2>4, FS_CardinalityType
        <3>2. Cardinality(lost) = 0 BY <2>4, <3>1
        <3> QED BY <2>4, <3>2, FS_EmptySet
    <2>6. CountedRows(c, lost) = RowsOf(c) BY <2>3, <2>5 DEF CountedRows, RowsOf
    <2> QED BY <1>4, <1>5, <2>2, <2>6 DEF Misses, StoreInv, CountsFollow
<1> QED BY <1>2, <1>3, <1>4, <1>5

\* While nothing has thrown, the tables and the memory agree about every
\* conversation of this process that no operation is on.
THEOREM StoresAlwaysAgree == Spec => []StoresAgreeAtRest
BY StoreInvHolds, StoresAgree, PTL

LEMMA ReadBack == StoreInv => SavesAreReadBack
<1> SUFFICES ASSUME StoreInv, ~away, NEW c \in Conversations,
                    failures = 0 \/ c \in pg.conversations, deleting[c] = "idle"
             PROVE  Cardinality({m \in InStep(saving, {"done", "earlier"}) :
                                    Thread[m] = c /\ m \notin RowsOf(c)}) <= failures
    BY DEF SavesAreReadBack
<1> DEFINE S == {m \in InStep(saving, {"done", "earlier"}) : Thread[m] = c /\ m \notin RowsOf(c)}
<1>1. saving \in [Messages -> Nowhere \cup {"insert", "update", "memory"}] /\ failures \in Nat
    BY Places, StoreAssumption DEF StoreInv, TypeOK
<1>2. S \subseteq Missing(c) BY <1>1 DEF InStep, RowsOf, Missing
<1>3. IsFiniteSet(Missing(c))
    <2>1. Missing(c) \subseteq Messages BY DEF Missing
    <2> QED BY <2>1, StoreAssumption, FS_Subset
<1>4. Cardinality(Missing(c)) <= failures BY DEF StoreInv, MissingBounded
<1> HIDE DEF S
<1>5. IsFiniteSet(S) /\ Cardinality(S) <= Cardinality(Missing(c)) BY <1>2, <1>3, FS_Subset
<1>6. Cardinality(S) \in Nat /\ Cardinality(Missing(c)) \in Nat
    BY <1>3, <1>5, FS_CardinalityType
<1> QED BY <1>1, <1>4, <1>5, <1>6 DEF S

\* What was saved is read back from the tables, in this process and the next,
\* but for one message at most for each statement that threw.
THEOREM SavesAlwaysReadBack == Spec => []SavesAreReadBack
BY StoreInvHolds, ReadBack, PTL

\* A listing of a conversation's rows lists all of them.
LEMMA ByCallListsAll ==
    ASSUME TypeOK, NEW c, NEW read \in ByCall(c)
    PROVE  /\ ToSet(read) = RowsOf(c)
           /\ \A i, j \in DOMAIN read : i \in Nat /\ (i < j => CalledBefore(read[i], read[j]))
<1> DEFINE S == RowsOf(c)
           D == 1..Cardinality(S)
<1>1. IsFiniteSet(S) /\ Cardinality(S) \in Nat
    <2>1. S \subseteq Messages BY DEF TypeOK, RowsOf
    <2> QED BY <2>1, StoreAssumption, FS_Subset, FS_CardinalityType
<1>2. read \in [D -> S] /\ \A i, j \in D : i # j => read[i] # read[j]
    BY DEF ByCall, SetToSeqs
<1>3. \A i, j \in DOMAIN read : i < j => CalledBefore(read[i], read[j]) BY DEF ByCall
<1> HIDE DEF S
<1>4. read \in Injection(D, S) BY <1>2 DEF Injection, IsInjective
<1>5. Cardinality(D) = Cardinality(S) BY <1>1, FS_Interval, SMT
<1> HIDE DEF D
<1>6. read \in Surjection(D, S) BY <1>1, <1>4, <1>5, FS_Injection
<1>7. ToSet(read) = S BY <1>2, <1>6 DEF ToSet, Surjection
<1>8. \A i \in DOMAIN read : i \in Nat BY <1>2 DEF D
<1> QED BY <1>3, <1>7, <1>8 DEF S

\* Of messages that were stamped one was stamped last.
LEMMA LastCalled ==
    ASSUME TypeOK, NEW S, S # {}, \A m \in S : \E i \in DOMAIN calls : calls[i] = m
    PROVE  \E m \in S : \A n \in S : n = m \/ CalledBefore(n, m)
<1> DEFINE L == Len(calls)
           P == {k \in Nat : \E i \in 1..L : calls[i] \in S /\ k = L - i}
<1>1. L \in Nat /\ DOMAIN calls = 1..L
    <2>1. calls \in Seq(Messages) BY DEF TypeOK
    <2> QED BY <2>1
<1> HIDE DEF L
<1>2. \A i \in 1..L : L - i \in Nat BY <1>1, SMT
<1>3. P # {} /\ P \subseteq Nat
    <2>1. PICK m \in S : TRUE OBVIOUS
    <2>2. PICK i \in 1..L : calls[i] = m BY <1>1
    <2> QED BY <1>2, <2>1, <2>2
<1> HIDE DEF P
<1>4. PICK p \in P : \A q \in P : ~ (<<q, p>> \in OpToRel(<, Nat))
    BY <1>3, NatLessThanWellFounded, WFMin
<1>5. \A q \in P : ~ (q < p) BY <1>3, <1>4 DEF OpToRel
<1>6. PICK i \in 1..L : calls[i] \in S /\ p = L - i BY <1>4 DEF P
<1>7. ASSUME NEW n \in S, n # calls[i] PROVE CalledBefore(n, calls[i])
    <2>1. PICK j \in 1..L : calls[j] = n BY <1>1
    <2>2. L - j \in P BY <1>2, <2>1 DEF P
    <2>3. ~ (L - j < L - i) /\ i # j BY <1>5, <1>6, <1>7, <2>1, <2>2
    <2>4. j < i BY <1>1, <2>3, SMT
    <2> QED BY <1>1, <2>1, <2>4 DEF CalledBefore
<1> QED BY <1>6, <1>7

\* Any of them can be listed in that order: a smallest set that cannot is
\* impossible.
Sorted(S) == {read \in SetToSeqs(S) : \A i, j \in DOMAIN read : i < j => CalledBefore(read[i], read[j])}

\* Messages that were called can be listed in the order of their calls.
LEMMA ListingExists ==
    ASSUME TypeOK, NEW S \in SUBSET Messages, \A m \in S : \E i \in DOMAIN calls : calls[i] = m
    PROVE  Sorted(S) # {}
<1> DEFINE Wrong == {V \in SUBSET S : Sorted(V) = {}}
           R == StrictSubsetOrdering(S)
<1> SUFFICES ASSUME Wrong # {} PROVE FALSE OBVIOUS
<1>1. IsFiniteSet(S) BY StoreAssumption, FS_Subset
<1>2. IsWellFoundedOn(R, SUBSET S)
    <2>1. IsWellFoundedOn(R, FiniteSubsetsOf(S)) BY FS_StrictSubsetOrderingWellFounded
    <2> QED BY <1>1, <2>1, FS_FiniteSubsetsOfFinite
<1>3. PICK V \in Wrong : \A W \in Wrong : ~ (<<W, V>> \in R)
    <2>1. Wrong \subseteq SUBSET S OBVIOUS
    <2> HIDE DEF Wrong, R
    <2> QED BY <1>2, <2>1, WFMin
<1>4. V \in SUBSET S /\ IsFiniteSet(V) BY <1>1, FS_Subset
<1>5. CASE V = {}
    <2> DEFINE read == [i \in 1..0 |-> {}]
    <2>1. Cardinality(V) = 0 BY <1>5, FS_EmptySet
    <2>2. read \in [1..0 -> V] /\ DOMAIN read = {} BY <1>5
    <2>3. read \in Sorted(V) BY <2>1, <2>2 DEF Sorted, SetToSeqs
    <2> QED BY <2>3
<1>6. CASE V # {}
    <2>1. PICK m \in V : \A n \in V : n = m \/ CalledBefore(n, m) BY <1>4, <1>6, LastCalled
    <2> DEFINE U == V \ {m}
               k == Cardinality(U)
    <2>2. /\ U \in SUBSET S /\ U # V /\ IsFiniteSet(U) /\ k \in Nat
        BY <1>4, <2>1, FS_Subset, FS_CardinalityType
    <2>3. Cardinality(V) = k + 1
        <3>1. U \cup {m} = V /\ m \notin U BY <2>1
        <3> HIDE DEF U
        <3> QED BY <2>2, <3>1, FS_AddElement
    <2>4. <<U, V>> \in R BY <1>4, <2>2 DEF StrictSubsetOrdering
    <2>5. Sorted(U) # {} BY <1>3, <2>2, <2>4
    <2>6. PICK r \in Sorted(U) : TRUE BY <2>5
    <2> HIDE DEF k
    <2>7. /\ r \in [1..k -> U] /\ \A i, j \in 1..k : i # j => r[i] # r[j]
          /\ \A i, j \in 1..k : i < j => CalledBefore(r[i], r[j])
        BY <2>6 DEF Sorted, SetToSeqs, k
    <2> DEFINE read == [i \in 1..(k + 1) |-> IF i = k + 1 THEN m ELSE r[i]]
    <2>8. /\ \A i \in 1..(k + 1) : i \in 1..k \/ i = k + 1
          /\ \A i \in 1..k : ~ (k + 1 < i) /\ i # k + 1
          /\ ~ (k + 1 < k + 1)
        BY <2>2, SMT
    <2>9. read \in [1..(k + 1) -> V] BY <2>1, <2>7, <2>8
    <2>10. /\ read[k + 1] = m
           /\ \A i \in 1..k : read[i] = r[i] /\ r[i] \in V /\ r[i] # m
        BY <2>2, <2>7, <2>8
    <2> HIDE DEF read, U
    <2>11. \A i, j \in 1..(k + 1) : i # j => read[i] # read[j] BY <2>7, <2>8, <2>10
    <2>12. \A i, j \in 1..(k + 1) : i < j => CalledBefore(read[i], read[j])
        BY <2>1, <2>7, <2>8, <2>10
    <2>13. read \in Sorted(V) BY <2>3, <2>9, <2>11, <2>12 DEF Sorted, SetToSeqs
    <2> QED BY <2>13
<1> QED BY <1>5, <1>6

\* The SELECT of getMessages has an answer in every state: the rows of a
\* conversation were all stamped, in some order.  (Without it, what is said
\* of every answer would say nothing.)
THEOREM RowsAlwaysListed == Spec => [](\A c \in Ids : ByCall(c) # {})
<1>1. StoreInv => \A c \in Ids : ByCall(c) # {}
    <2> SUFFICES ASSUME StoreInv, NEW c \in Ids PROVE ByCall(c) # {} OBVIOUS
    <2>1. RowsOf(c) \in SUBSET Messages /\ TypeOK BY DEF StoreInv, TypeOK, RowsOf
    <2>2. \A m \in RowsOf(c) : \E i \in DOMAIN calls : calls[i] = m
        BY <2>1 DEF StoreInv, CallsInOrder, RowsOf
    <2>3. Sorted(RowsOf(c)) # {} BY <2>1, <2>2, ListingExists
    <2> QED BY <2>3 DEF Sorted, ByCall
<1> QED BY StoreInvHolds, <1>1, PTL

\* No answer is read before its question.
LEMMA AnswersFollow == StoreInv => AnswerFollowsQuestion
<1> SUFFICES ASSUME StoreInv, NEW c \in Ids, NEW read \in GetMessages(c),
                    NEW m \in DOMAIN Question, m \in ToSet(read)
             PROVE  \/ \E i, j \in DOMAIN read : i < j /\ read[i] = Question[m] /\ read[j] = m
                    \/ Question[m] \notin ToSet(read) /\ (failures > 0 \/ deleting[c] # "idle")
    BY DEF AnswerFollowsQuestion
<1> DEFINE q == Question[m]
<1>0. /\ m \in Messages /\ q \in Messages /\ q # m /\ Thread[q] = Thread[m]
      /\ mem.messages[c] \in Seq(Messages) /\ failures \in Nat
    BY Places, TypesOf, StoreAssumption DEF StoreInv, Memory
<1> HIDE DEF q
<1>1. CASE read \in ByCall(c)
    <2>1. /\ ToSet(read) = RowsOf(c)
          /\ \A i, j \in DOMAIN read : i \in Nat /\ (i < j => CalledBefore(read[i], read[j]))
        BY <1>1, ByCallListsAll DEF StoreInv
    <2>2. m \in pg.messages /\ Thread[m] = c BY <2>1 DEF RowsOf
    <2>3. CASE q \in ToSet(read)
        <3>1. PICK i \in DOMAIN read : read[i] = q BY <2>3 DEF ToSet
        <3>2. PICK j \in DOMAIN read : read[j] = m BY DEF ToSet
        <3>3. i # j /\ i \in Nat /\ j \in Nat BY <1>0, <2>1, <3>1, <3>2
        <3>4. ~ (j < i)
            <4> SUFFICES ASSUME j < i PROVE FALSE OBVIOUS
            <4>1. CalledBefore(m, q) BY <2>1, <3>1, <3>2
            <4>2. CalledBefore(q, m) BY <1>0, <2>2 DEF StoreInv, CallsInOrder, q
            <4>3. PICK a \in DOMAIN calls : \E b \in DOMAIN calls :
                      a < b /\ calls[a] = m /\ calls[b] = q
                BY <4>1 DEF CalledBefore
            <4>4. PICK b \in DOMAIN calls : a < b /\ calls[a] = m /\ calls[b] = q BY <4>3
            <4>5. PICK d \in DOMAIN calls : \E e \in DOMAIN calls :
                      d < e /\ calls[d] = q /\ calls[e] = m
                BY <4>2 DEF CalledBefore
            <4>6. PICK e \in DOMAIN calls : d < e /\ calls[d] = q /\ calls[e] = m BY <4>5
            <4>7. a = e /\ b = d BY <4>4, <4>6 DEF StoreInv, CallsInOrder
            <4>8. a \in Nat /\ b \in Nat
                <5>1. calls \in Seq(Messages) BY DEF StoreInv, TypeOK
                <5>2. DOMAIN calls = 1..Len(calls) BY <5>1
                <5> QED BY <4>4, <4>3, <5>2
            <4> QED BY <4>4, <4>6, <4>7, <4>8
        <3>5. i < j BY <3>3, <3>4
        <3> QED BY <3>1, <3>2, <3>5 DEF q
    <2>4. CASE q \notin ToSet(read)
        <3>1. q \notin pg.messages BY <1>0, <2>1, <2>2, <2>4 DEF RowsOf
        <3>2. failures # 0 BY <2>2, <3>1 DEF StoreInv, TablesFollowWell, q
        <3> QED BY <1>0, <2>4, <3>2 DEF q
    <2> QED BY <2>3, <2>4
<1>2. CASE read = mem.messages[c]
    <2>1. PICK j \in DOMAIN read : read[j] = m BY DEF ToSet
    <2>2. saving[m] = "done" /\ Thread[m] = c BY <1>2, <2>1 DEF StoreInv, MemoryFollows
    <2>3. saving[q] = "done" BY <2>2 DEF StoreInv, OperationsInOrder, Here, q
    <2>4. CASE q \in ToSet(read)
        <3>1. PICK i \in DOMAIN read : read[i] = q BY <2>4 DEF ToSet
        <3>2. i < j BY <1>2, <2>1, <3>1 DEF StoreInv, MemoryInOrder, q
        <3> QED BY <2>1, <3>1, <3>2 DEF q
    <2>5. CASE q \notin ToSet(read)
        <3>1. deleting[c] = "done"
            BY <1>0, <1>2, <2>2, <2>3, <2>5 DEF StoreInv, MemoryFollows, ToSet
        <3> QED BY <2>5, <3>1 DEF q
    <2> QED BY <2>4, <2>5
<1> QED BY <1>1, <1>2 DEF GetMessages, FromTables

\* An answer is never read before its question, nor without it unless a
\* statement that threw or a deletion took it (conversation.repo.ts
\* getMessages, ordered by created_at or by the end of the save).
THEOREM AnswersAlwaysFollow == Spec => []AnswerFollowsQuestion
BY StoreInvHolds, AnswersFollow, PTL

\* What was deleted is not read.
LEMMA DeletedGone == StoreInv => DeletedIsGone
<1> SUFFICES ASSUME StoreInv, NEW c \in Conversations,
                    \/ Dependable /\ deleting[c] \in {"done", "earlier"}
                    \/ ~connected /\ deleting[c] = "done"
             PROVE  /\ GetConversation(c) = {FALSE}
                    /\ \A listed \in ListConversations : c \notin listed
    BY DEF DeletedIsGone
<1>0. c \in Ids /\ creating[c] # "idle"
    <2>1. c \in Ids BY DEF Ids
    <2> QED BY <2>1 DEF StoreInv, OperationsInOrder, Named
<1>1. c \notin mem.conversations
    BY <1>0 DEF StoreInv, OperationsInOrder, MemoryFollows
<1>2. connected => c \notin pg.conversations
    BY <1>0 DEF StoreInv, TablesFollowWell, Dependable
<1>3. ASSUME connected
      PROVE  (c \in pg.conversations \cup mem.conversations) = FALSE
    BY <1>1, <1>2, <1>3
<1>4. (c \in mem.conversations) = FALSE BY <1>1
<1>5. connected \in BOOLEAN BY DEF StoreInv, TypeOK
<1>6. GetConversation(c) = {FALSE}
    <2>1. CASE connected
        <3>1. GetConversation(c) = FromTables({FALSE}, FALSE)
            BY <1>3, <1>4, <2>1 DEF GetConversation
        <3> QED BY <2>1, <3>1 DEF FromTables
    <2>2. CASE ~connected BY <1>4, <2>2 DEF GetConversation, FromTables
    <2> QED BY <2>1, <2>2
<1>7. \A listed \in ListConversations : c \notin listed
    BY <1>1, <1>2 DEF ListConversations, FromTables
<1> QED BY <1>6, <1>7

\* A conversation whose deletion ended is not listed or found again, whatever
\* saves to it were under way, if every statement answered or there is no
\* database (conversation.repo.ts deleteConversation).
THEOREM DeletedAlwaysGone == Spec => []DeletedIsGone
BY StoreInvHolds, DeletedGone, PTL
=============================================================================
