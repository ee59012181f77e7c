---------------------------- MODULE TokenServer -----------------------------
(***************************************************************************)
(* What the backend and the browsers agree on about tokens, with the       *)
(* database, the cookies, the tabs and the queues left out.  A request     *)
(* obtains tokens once in its life, by proving who its user is or in       *)
(* exchange for live ones.  An exchange puts the new tokens in the place   *)
(* of the old ones, never beside them.  Tokens whose session has ended     *)
(* are never good again.                                                   *)
(*                                                                         *)
(* The backend reads the old session, revokes it and stores the new one in *)
(* three queries, and the browser knows of answers that may be lost: both  *)
(* Sessions!KeepsTokenPromise and ApiClient!KeepsTokenPromise say that     *)
(* nothing happens but what is said here.                                  *)
(***************************************************************************)

CONSTANTS
  Tokens,   \* named after the requests that may obtain them
  NoToken   \* not a token

VARIABLES
  unused,   \* the tokens that may yet be obtained
  live,     \* the tokens with a session that is good
  accepted  \* the live tokens that an exchange has been promised for, if any

vars == <<unused, live, accepted>>

TypeOK ==
  /\ unused \subseteq Tokens
  /\ live \subseteq Tokens \ unused
  /\ accepted \in [Tokens -> Tokens \cup {NoToken}]
  /\ \A t \in Tokens \ unused : accepted[t] = NoToken

(* A browser may come with tokens from before.                              *)
Init ==
  /\ unused \in SUBSET Tokens
  /\ live \in SUBSET (Tokens \ unused)
  /\ accepted = [t \in Tokens |-> NoToken]

(* A registration or a login.                                               *)
Grant(t) ==
  /\ t \in unused
  /\ accepted[t] = NoToken
  /\ unused' = unused \ {t}
  /\ live' = live \cup {t}
  /\ UNCHANGED accepted

(* A refresh finds the session of its tokens s good.                        *)
Accept(t, s) ==
  /\ t \in unused
  /\ accepted[t] = NoToken
  /\ s \in live
  /\ accepted' = [accepted EXCEPT ![t] = s]
  /\ UNCHANGED <<unused, live>>

(* It gives new tokens for them, which need not be live any more: others    *)
(* may have exchanged or ended them meanwhile.                              *)
Exchange(t) ==
  /\ t \in unused
  /\ accepted[t] # NoToken
  /\ unused' = unused \ {t}
  /\ live' = (live \ {accepted[t]}) \cup {t}
  /\ accepted' = [accepted EXCEPT ![t] = NoToken]

(* Requests come to nothing and sessions end, any number at once: a logout, *)
(* an expiry, an error, a server or a page that goes away.                  *)
End ==
  /\ unused' \in SUBSET unused
  /\ live' \in SUBSET live
  /\ accepted' = [t \in Tokens |-> IF t \in unused' THEN accepted[t] ELSE NoToken]

Next ==
  \/ End
  \/ \E t \in Tokens : Grant(t) \/ Exchange(t)
  \/ \E t, s \in Tokens : Accept(t, s)

Spec == Init /\ [][Next]_vars

----------------------------------------------------------------------------
(* What follows from the promise.                                           *)

(* Tokens whose session has ended are never good again, though a request    *)
(* that was promised an exchange for them may still be given its own.       *)
NeverGoodAgain ==
  [][\A t \in Tokens \ unused : t \notin live => t \notin unused' \cup live']_vars
=============================================================================
