---------------------------- MODULE MCRebootLoop ----------------------------
(* Instances of RebootLoop for TLC. *)
EXTENDS RebootLoop
=============================================================================
