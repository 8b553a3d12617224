---------------------------- MODULE MCTokenStream ----------------------------
(* One stream, of either provider, while the mock's faults are injected at   *)
(* any time: another stream would share no more than these.  Five words put  *)
(* the mock's forced drop (past the middle) before its last word.            *)
EXTENDS TokenStream

CONSTANTS stream

MCStreams == {stream}
=============================================================================
