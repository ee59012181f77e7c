------------------------------ MODULE Resends -------------------------------
(***************************************************************************)
(* How often the axios instance of api.ts makes a request, and with which  *)
(* cookies.  A request that waited in failedQueue is made again without    *)
(* being marked _retry, so it may be refused again, and wait again, with   *)
(* nothing in the code to count how often; and what it is sent with is     *)
(* the browser's affair, which other tabs change.                          *)
(*                                                                         *)
(* The specification is that of ApiClient, with two history variables.     *)
(***************************************************************************)
EXTENDS ApiClient, FiniteSets

VARIABLES
  sends,  \* how often each request has been made
  tried   \* the cookies that each request's refresh was made with, until the request is over

ASSUME ResendsAssumption == IsFiniteSet(Requests)

ResendsInit ==
  /\ Init
  /\ sends = [p \in Requests |-> 0]
  /\ tried = [p \in Requests |-> {}]

ResendsNext ==
  /\ Next
  /\ sends' = [p \in Requests |->
                 IF at[p] # "ready" /\ at'[p] = "ready" THEN sends[p] + 1 ELSE sends[p]]
  /\ tried' = [p \in Requests |->
                 IF at'[p] \notin {"refreshing", "ready", "sent"} THEN {}
                 ELSE IF call'[p] = "sent" THEN {carried'[p]} ELSE tried[p]]

ResendsSpec == ResendsInit /\ [][ResendsNext]_<<vars, sends, tried>>

FairResendsSpec == ResendsSpec /\ Fairness

----------------------------------------------------------------------------
(* Properties.                                                              *)

(* The refreshes that a tab has begun.                                      *)
Refreshes(t) == {q \in retry : Tab[q] = t}

(* A 401 never turns into a storm: a request is made once, and once more at *)
(* most for each refresh of its tab, and a request makes one refresh in its *)
(* life.  However the answers fall, a tab that makes n requests sends no    *)
(* more than n + 1 times each.                                              *)
ResendsBounded ==
  \A p \in Requests : sends[p] <= 1 + Cardinality(Refreshes(Tab[p]))

(* A request that is made again after its refresh goes out with other       *)
(* cookies than that refresh, although it is the browser that attaches them *)
(* then, and the refreshes and logins of other tabs, begun earlier or       *)
(* later, may have changed them in between: the client never gives up a     *)
(* request because it only tried the old tokens twice.                      *)
RetriedWithNewTokens ==
  \A p \in retry : at[p] = "sent" => carried[p] \notin tried[p]
=============================================================================
