---------------------------- MODULE MCSubpictures ----------------------------
(***************************************************************************)
(* Subpictures with rectangles of one part or of all of the subpicture.    *)
(***************************************************************************)
EXTENDS Subpictures, TLC

LeftOrWhole == {{CHOOSE x \in Parts : TRUE}, Parts}

IdSymmetry == Permutations(Surfaces) \cup Permutations(Subpictures) \cup Permutations(Images)
=============================================================================
