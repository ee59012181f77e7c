--------------------------- MODULE RefreshOverlap ---------------------------
(***************************************************************************)
(* How far the races of refreshTokens and logout can go.  A token is read, *)
(* checked and revoked in separate queries, so one refresh token may be    *)
(* exchanged more than once, and a logout may miss the session that takes  *)
(* the place of the one it revokes; only requests that overlap can do it.  *)
(*                                                                         *)
(* The specification is that of Sessions, with history variables.          *)
(***************************************************************************)
EXTENDS Sessions, FiniteSets

VARIABLES
  contended,  \* of each token: the most refreshes that held it at once
  overlapped, \* the tokens that two requests, refresh or logout, held at once
  origin      \* of each token: the registration or login that it comes from

overlap == <<contended, overlapped, origin>>

ASSUME RefreshOverlapAssumption == IsFiniteSet(Refreshes)

(* The requests between the two queries that race: t has been accepted, and *)
(* its session is still to be revoked.                                      *)
Holding(t) == {b \in Refreshes \cup Logouts : using[b] = t /\ pc[b] = "revoke"}

Exchanging(t) == Holding(t) \cap Refreshes

(* The refreshes that have made a session out of t.                         *)
Successors(t) == {r \in Refreshes : using[r] = t /\ session[r] # "none"}

AtLeast(m, n) == IF m < n THEN n ELSE m

OverlapInit ==
  /\ Init
  /\ contended = [t \in Issuers |-> 0]
  /\ overlapped = {}
  /\ origin = [t \in Issuers |-> t]

OverlapNext ==
  /\ Next
  /\ contended' = [t \in Issuers |-> AtLeast(contended[t], Cardinality(Exchanging(t)'))]
  /\ overlapped' = overlapped \cup {t \in Issuers : \E b, c \in Holding(t)' : b # c}
  /\ origin' = [t \in Issuers |->
       IF t \in Refreshes /\ using'[t] # using[t] THEN origin[using'[t]] ELSE origin[t]]

OverlapSpec == OverlapInit /\ [][OverlapNext]_<<vars, overlap>>

----------------------------------------------------------------------------
(* Properties.                                                              *)

(* What is left of rotation's promise that a refresh token is good for one  *)
(* new session: it is good for as many as there were refreshes that held it *)
(* at once, and for none that comes, or comes again, after the first of     *)
(* them has revoked it; also when others fail or log out in between.        *)
SuccessorsBounded == \A t \in Issuers : Cardinality(Successors(t)) <= contended[t]

(* A login whose tokens were never brought by two requests at once.         *)
Orderly(g) == \A t \in overlapped : origin[t] # g

(* Then it has one live session at most, however often it was rotated, and  *)
(* whatever failed in between.                                              *)
OneSessionPerLogin ==
  \A s, t \in Issuers :
    session[s] = "live" /\ session[t] = "live" /\ origin[s] = origin[t] /\ Orderly(origin[t])
      => s = t

(* And a logout ends it for good, with whichever of its tokens it comes: no *)
(* session that descends from the same login is live, or will be.           *)
LogoutEndsTheLogin ==
  \A o \in Logouts, t \in Issuers :
    /\ outcome[o] = "ok"
    /\ origin[t] = origin[using[o]]
    /\ Orderly(origin[t])
    => session[t] # "live"
=============================================================================
