--------------------------- MODULE MCRateLimiter ---------------------------
(* One request more than may stream at once, or pass in one minute; one of  *)
(* them is estimated at twice the tokens of the other, and both fit in a    *)
(* minute's tokens only when the first was forgotten: by a flush, with the  *)
(* connection, or in another minute.                                        *)
EXTENDS RateLimiter

CONSTANTS r1, r2

MCRequests == {r1, r2}
MCTokens    == [r \in Requests |-> IF r = r1 THEN 2 ELSE 1]
=============================================================================
