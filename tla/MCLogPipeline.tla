--------------------------- MODULE MCLogPipeline ---------------------------
(* LogPipeline for TLC: the two threads of the process. *)
EXTENDS LogPipeline

CONSTANTS main, dispatcher

OneSender == {main}
OneReceiver == {dispatcher}
=============================================================================
