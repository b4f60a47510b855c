---------------------------- MODULE MCPhotoOxide ----------------------------
(***************************************************************************)
(* Model checking of PhotoOxide: the constants get their values in the     *)
(* .cfg file, and the threads of the pool are interchangeable.             *)
(***************************************************************************)
EXTENDS PhotoOxide, TLC

\* Sound because the run checks no liveness property.
ThreadSymmetry == Permutations(Workers)
=============================================================================
