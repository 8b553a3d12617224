--------------------------- MODULE MCChatGateway ---------------------------
EXTENDS ChatGateway

CONSTANTS r1, r2, t1, bad

MCRequests  == {r1, r2}
MCThreads   == {t1, bad}
MCMalformed == {bad}

\* r1 starts a conversation, and r2 goes on with it or has an id of its own.
MCNamed == [r \in Requests |-> IF r = r1 THEN {t1} ELSE {t1, bad}]
MCFresh == {r1}

MCTokens   == [r \in Requests |-> 1]
MCRegistry == {"mock-fast", "mock-standard"}

\* The model of last resort, also under an id that names no model.
MCRequested  == {"mock-standard", "no-model"}
=============================================================================
