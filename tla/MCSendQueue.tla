---------------------------- MODULE MCSendQueue ----------------------------
(* Two threads, three audio frames, and two calls that want to send the close  *)
(* frame; two audio frames and one close frame are sent with a callback.      *)
EXTENDS SendQueue

CONSTANTS main, capture, a1, a2, a3, c1, c2, none

MCThreads == {main, capture}
MCMsgs == {a1, a2, a3, c1, c2}
MCCloseMsgs == {c1, c2}
MCCallbacks == {a1, a2, c1}

=============================================================================
