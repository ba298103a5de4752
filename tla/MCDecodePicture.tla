--------------------------- MODULE MCDecodePicture ---------------------------
(***************************************************************************)
(* DecodePicture on small sets of contexts, surfaces and buffers.          *)
(***************************************************************************)
EXTENDS DecodePicture, TLC

Symmetry == Permutations(Buffers) \cup Permutations(Surfaces) \cup Permutations(Contexts)
=============================================================================
