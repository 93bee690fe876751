---------------------------- MODULE MC_Convert ----------------------------
(* Instances of Convert for TLC. *)
EXTENDS Convert
=============================================================================
