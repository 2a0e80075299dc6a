-------------------------- MODULE MCSampleSynthesis ---------------------------
(***************************************************************************)
(* Instances of SampleSynthesis for TLC.                                    *)
(***************************************************************************)
EXTENDS SampleSynthesis
==============================================================================
