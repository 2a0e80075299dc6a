----------------------- MODULE MCRecognitionConnection -----------------------
(***************************************************************************)
(* Instances of RecognitionConnection for TLC.                              *)
(***************************************************************************)
EXTENDS RecognitionConnection
==============================================================================
