------------------------- MODULE MCConversationStore -------------------------
(* A question and its answer race with another question in one conversation;*)
(* one message goes to an id that no conversation has.                      *)
EXTENDS ConversationStore

CONSTANTS c1, u, m1, m2, m3, m4, r1

MCConversations == {c1}
MCUnknown  == {u}
MCMessages == {m1, m2, m3, m4}
MCThread == [m \in Messages |-> IF m = m4 THEN u ELSE c1]
MCQuestion == [m \in {m2} |-> m1]
MCTokens == [m \in Messages |-> IF m = m1 THEN 1 ELSE 2]
MCRequests == {r1}
MCLastTurn == [r \in Requests |-> m2]
=============================================================================
