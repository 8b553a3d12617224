---------------------------- MODULE ContextWindow ----------------------------
(***************************************************************************)
(* ContextManager.prepareContext (application/context/context-manager.ts): *)
(* which turns of a conversation go to the model with a new prompt.  The   *)
(* loop over the history, newest turn first, is one step per turn, so what *)
(* it maintains can be stated and proved as invariants.                    *)
(*                                                                         *)
(* A stored message is its token count and its length; contents and roles  *)
(* play no part.  JavaScript's ceil(length / 3.8) is exact in this range.  *)
(***************************************************************************)
EXTENDS Integers, Sequences, FiniteSetsExt

CONSTANTS ContextLimit,    \* maxBudgetTokens, or min(maxContextTokens, 8192)
          Histories,       \* the histories conversations may have
          SystemLengths,   \* lengths of the system prompt in characters
          PromptLengths    \* lengths of the new prompt in characters

Message == [tokenCount : Nat, chars : Nat]

ASSUME InputsAssumption ==
    /\ ContextLimit \in Nat \ {0}
    /\ Histories \subseteq Seq(Message)
    /\ SystemLengths \subseteq Nat \ {0}
    /\ PromptLengths \subseteq Nat \ {0}

\* estimateTokens: max(1, ceil(chars / 3.8)) for a text that is not empty.
EstimateTokens(chars) == (10 * chars + 37) \div 38

\* msg.tokenCount || estimateTokens(msg.content)
TokenCount(m) == IF m.tokenCount # 0 THEN m.tokenCount ELSE EstimateTokens(m.chars)

\* A quarter of the window is kept for the answer.
MaxInputBudget == (3 * ContextLimit) \div 4

VARIABLES history,     \* the conversation's messages, oldest first
          fixed,       \* tokens of the system prompt and the new prompt
          next,        \* index of the message examined next; 0 at the end
          current,     \* currentTokens
          selected,    \* indices of selectedHistory, oldest first
          truncated    \* truncatedCount

windowVars == <<history, fixed, next, current, selected, truncated>>

WindowTypeOK ==
    /\ history \in Seq(Message)
    /\ fixed \in Nat
    /\ next \in 0..Len(history)
    /\ current \in Nat
    /\ selected \in Seq(Nat)
    /\ truncated \in Nat

WindowInit ==
    /\ history \in Histories
    /\ \E s \in SystemLengths, p \in PromptLengths :
          fixed = EstimateTokens(s) + EstimateTokens(p)
    /\ next = Len(history)
    /\ current = fixed
    /\ selected = <<>>
    /\ truncated = 0

-----------------------------------------------------------------------------
Fits == current + TokenCount(history[next]) <= MaxInputBudget

KeepIfRoomLeft ==
    /\ next > 0
    /\ current < MaxInputBudget
    /\ selected' = <<next>> \o selected
    /\ current' = current + TokenCount(history[next])
    /\ next' = next - 1
    /\ UNCHANGED <<history, fixed, truncated>>

KeepAtTheEnd ==
    /\ next > 0
    /\ Fits
    /\ selected' = Append(selected, next)
    /\ current' = current + TokenCount(history[next])
    /\ next' = next - 1
    /\ UNCHANGED <<history, fixed, truncated>>

\* unshift: what is kept goes in front of the newer turns.
Keep ==
    /\ next > 0
    /\ Fits
    /\ selected' = <<next>> \o selected
    /\ current' = current + TokenCount(history[next])
    /\ next' = next - 1
    /\ UNCHANGED <<history, fixed, truncated>>

StopAtFirstMisfit ==
    /\ next > 0
    /\ ~Fits
    /\ truncated' = truncated + 1
    /\ next' = 0
    /\ UNCHANGED <<history, fixed, current, selected>>

\* A turn that does not fit is dropped, and the loop goes on: an older,
\* smaller one may still be kept.
Drop ==
    /\ next > 0
    /\ ~Fits
    /\ truncated' = truncated + 1
    /\ next' = next - 1
    /\ UNCHANGED <<history, fixed, current, selected>>

WindowNext == Keep \/ Drop

WindowSpec == WindowInit /\ [][WindowNext]_windowVars

Done == next = 0

-----------------------------------------------------------------------------
Examined == (next + 1)..Len(history)
Selected == {selected[i] : i \in 1..Len(selected)}

TokensIn(S) == MapThenSumSet(LAMBDA k : TokenCount(history[k]), S)

\* History never pushes a prompt over the input budget: a context over the
\* budget is one whose system prompt and prompt alone are over it.
WithinBudget == current <= MaxInputBudget \/ (selected = <<>> /\ current = fixed)

\* The reference definition: of the turns examined, those are selected that
\* fit beside the newer ones that are, and the others are counted; and the
\* total given to the rate limiter and the router is that of exactly what is
\* sent.
SelectionIsGreedy ==
    /\ current = fixed + TokensIn(Selected)
    /\ \A k \in Examined :
          k \in Selected <=>
            fixed + TokensIn({j \in Selected : j > k}) + TokenCount(history[k])
                <= MaxInputBudget
    /\ truncated = Cardinality(Examined \ Selected)

\* The model reads the turns in the order they were made, none twice.
Chronological ==
    /\ \A i \in 1..Len(selected) : selected[i] \in Examined
    /\ \A i, j \in 1..Len(selected) : i < j => selected[i] < selected[j]

-----------------------------------------------------------------------------
\* Claims the code does not keep.

\* "caps conversation context at 75% of model window limit"
\* (architecture/decisions/ADR-010-cost-optimization.md:11)
CappedAtBudget == current <= MaxInputBudget

\* "Sliding window over historical turns" (docs/claims-audit.md:20): what is
\* kept is the most recent part of the conversation.
KeepsRecentPart ==
    Done => \A k \in Selected : \A j \in k..Len(history) : j \in Selected
=============================================================================
