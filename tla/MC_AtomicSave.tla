--------------------------- MODULE MC_AtomicSave ---------------------------
(* Instances of AtomicSave for TLC. *)
EXTENDS AtomicSave

\* A file is at the path, and nothing but Save touches the directory.
Undisturbed ==
  /\ Init /\ path = Old
  /\ [][\E s \in Saves : Begin(s) \/ Step(s)]_vars
  /\ Fairness
=============================================================================
