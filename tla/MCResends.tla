----------------------------- MODULE MCResends ------------------------------
(***************************************************************************)
(* Resends with the requests of MCApiClient in their tabs.                 *)
(***************************************************************************)
EXTENDS MCApiClient, Resends
=============================================================================
