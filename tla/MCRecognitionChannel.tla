------------------------- MODULE MCRecognitionChannel -------------------------
(***************************************************************************)
(* Instances of RecognitionChannel for TLC.                                 *)
(***************************************************************************)
EXTENDS RecognitionChannel
==============================================================================
