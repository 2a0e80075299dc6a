------------------------ MODULE MCSampleRecognition -------------------------
(***************************************************************************)
(* Instances of SampleRecognition for TLC.                                  *)
(***************************************************************************)
EXTENDS SampleRecognition
==============================================================================
