-------------------------- MODULE MCOutputSurfaces --------------------------
(***************************************************************************)
(* OutputSurfaces with windows that belong to different threads, if there  *)
(* are several.                                                            *)
(***************************************************************************)
EXTENDS OutputSurfaces, TLC

OneEach ==
  CHOOSE f \in [Drawables -> Threads] : \A t \in Threads : \E d \in Drawables : f[d] = t

SurfaceSymmetry == Permutations(Surfaces)
=============================================================================
