----------------------------- MODULE MCOverlap ------------------------------
(***************************************************************************)
(* Overlap with the option sets of MCFileVault; downloads are              *)
(* interchangeable.                                                        *)
(***************************************************************************)
EXTENDS MCFileVault, Overlap, TLC

Symmetry == Permutations(Downloads)
=============================================================================
