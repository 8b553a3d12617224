--------------------------- MODULE MCContextWindow ---------------------------
EXTENDS ContextWindow

\* A window of 16 tokens has an input budget of 12.  Turns: one whose count
\* is missing (a 20-character text, estimated at 6), an empty answer, a
\* small and a large one.
MCMessages ==
    {[tokenCount |-> 0, chars |-> 20], [tokenCount |-> 0, chars |-> 0],
     [tokenCount |-> 3, chars |-> 10], [tokenCount |-> 7, chars |-> 25]}

MCHistories == UNION {[1..n -> MCMessages] : n \in 0..5}

\* Estimated at 2 and 11, and at 1 and 4: all but one pair leave room.
MCSystemLengths == {6, 40}
MCPromptLengths == {1, 15}
=============================================================================
