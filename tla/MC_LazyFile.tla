---------------------------- MODULE MC_LazyFile ----------------------------
(* Instances of LazyFile for TLC. *)
EXTENDS LazyFile
=============================================================================
