-------------------------- MODULE MCRefreshOverlap --------------------------
(***************************************************************************)
(* RefreshOverlap with the symmetries of MCSessions.                       *)
(***************************************************************************)
EXTENDS MCSessions, RefreshOverlap
=============================================================================
