------------------------------ MODULE MCMixers ------------------------------
(***************************************************************************)
(* Mixers with interchangeable surfaces, mixers and geometries.            *)
(***************************************************************************)
EXTENDS Mixers, TLC

MixerSymmetry ==
  Permutations(Surfaces) \cup Permutations(MixerIds) \cup Permutations(Geometries)
=============================================================================
