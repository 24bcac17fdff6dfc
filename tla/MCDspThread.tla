---------------------------- MODULE MCDspThread ----------------------------
(* Model-checking instance of DspThread. *)
EXTENDS DspThread
=============================================================================
