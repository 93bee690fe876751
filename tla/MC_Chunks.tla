----------------------------- MODULE MC_Chunks -----------------------------
(* Instances of Chunks for TLC: limits small enough for shapes to exceed them. *)
EXTENDS Chunks

SmallShapes == (1..9) \X (1..5) \X (1..3)
AnyChunks == (0..4) \X (0..3) \X (0..2)
=============================================================================
