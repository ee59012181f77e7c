---------------------------- MODULE MCApiClient ----------------------------
(***************************************************************************)
(* ApiClient with the requests spread over the tabs.                       *)
(***************************************************************************)
EXTENDS ApiClient, TLC

CONSTANTS c1, c2, l1, t1, t2

TwoTabs == (c1 :> t1) @@ (l1 :> t1) @@ (c2 :> t2)

OneTab == [p \in Requests |-> t1]
=============================================================================
