-------------------------- MODULE MCHuoshanFrames --------------------------
(***************************************************************************)
(* An instance of HuoshanFrames for TLC: sequence numbers and error codes  *)
(* of both signs, one that looks like the event SessionStarted and one     *)
(* like SessionFinished.                                                   *)
(***************************************************************************)
EXTENDS HuoshanFrames

MCNumbers == {to_bytesb(1), to_bytesb(Started), to_bytesb(Finished),
              <<255, 255, 255, 255>>, <<2, 174, 165, 64>>}
=============================================================================
