---------------------------- MODULE MC_RoundTrip ----------------------------
(* Instances of RoundTrip for TLC. *)
EXTENDS RoundTrip

\* Sizes that coincide (M = R, E = N) and sizes that are 1, where layouts are
\* mistaken most easily; the last one can hold second-order sections.
SmallShapes == {<<1, 2, 1, 1>>, <<2, 2, 2, 2>>, <<2, 1, 2, 6>>}

\* As many measurements as receivers.
SquareShapes == {<<2, 2, 1, 1>>}
=============================================================================
