---------------------------- MODULE MCChatClient ----------------------------
(* Two messages, a conversation picked and one deleted, in any order:       *)
(* enough for a pick to overtake another action, or be overtaken.           *)
EXTENDS ChatClient

CONSTANTS c1, n1, n2, s1, s2, l1, d1

MCExisting == {c1}
MCSends    == {s1, s2}
MCFresh    == [s \in Sends |-> IF s = s1 THEN n1 ELSE n2]
MCLoads    == {l1}
MCDeletes  == {d1}
=============================================================================
