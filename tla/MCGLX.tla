--------------------------------- MODULE MCGLX ---------------------------------
(***************************************************************************)
(* GLX with single fields and frames.                                      *)
(***************************************************************************)
EXTENDS GLX, TLC

TopOrFrame == {{"top"}, AllFields}

IdSymmetry ==
  Permutations(GLXSurfaces) \cup Permutations(VASurfaces) \cup Permutations(Threads)
    \cup Permutations(OwnContexts)
=============================================================================
