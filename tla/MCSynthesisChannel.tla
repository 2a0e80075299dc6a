-------------------------- MODULE MCSynthesisChannel --------------------------
(***************************************************************************)
(* Instances of SynthesisChannel for TLC.                                   *)
(***************************************************************************)
EXTENDS SynthesisChannel
==============================================================================
