------------------------------ MODULE Sessions ------------------------------
(***************************************************************************)
(* Accounts and sessions: AuthService (register, login, refreshTokens,     *)
(* logout, verifyAccessToken), the routes that call it and the middleware  *)
(* that guards the rest of the API.                                        *)
(*                                                                         *)
(* A session row, its jti and the pair of tokens signed for it are named   *)
(* after the request that issued them, and a user after the registration   *)
(* that created the row.  Every await on the database ends a step, so      *)
(* requests interleave there; signing, hashing and checking a JWT touch    *)
(* nothing shared.  A request carries any token pair that was ever handed  *)
(* out: a second tab, a retry or a slow request sends cookies that have    *)
(* been replaced meanwhile.  The clock is left out: any request may find   *)
(* its token expired.  lastLoginAt is a step that may fail and otherwise   *)
(* leaves no trace here.                                                   *)
(***************************************************************************)
EXTENDS Naturals

CONSTANTS
  Registers,  \* requests POST /api/auth/register
  Logins,     \* requests POST /api/auth/login
  Refreshes,  \* requests POST /api/auth/refresh
  Logouts,    \* requests POST /api/auth/logout
  Calls,      \* requests to a route behind authenticate
  Emails,     \* addresses, lower-cased and trimmed
  Names,      \* user names, trimmed
  NoUser,     \* not a user
  NoToken,    \* not a token
  MaxFaults   \* bound on faults

Issuers == Registers \cup Logins \cup Refreshes

Bearers == Refreshes \cup Logouts \cup Calls

Requests == Issuers \cup Bearers

ASSUME SessionsAssumption ==
  /\ NoUser \notin Registers
  /\ NoToken \notin Issuers
  /\ MaxFaults \in Nat
  /\ Registers \cap (Logins \cup Bearers) = {}
  /\ Logins \cap Bearers = {}
  /\ Refreshes \cap (Logouts \cup Calls) = {}
  /\ Logouts \cap Calls = {}

Form == [email : Emails, name : Names]

Steps == {"idle", "name", "user", "revoke", "session", "stamp", "done"}

(* "admin" is the 200 of a route behind adminMiddleware; every 4xx and 500, *)
(* and a connection that a crash has cut, is "error".                       *)
Outcomes == {"none", "ok", "admin", "error"}

VARIABLES
  \* the database
  users,     \* the registrations whose row was inserted
  admin,     \* the users with isAdmin
  session,   \* session of each issuer: "none", "live" or "revoked" (isRevoked)
  \* what has been submitted and signed
  form,      \* what each registration asks for
  owner,     \* userId in the tokens of each issuer
  claim,     \* isAdmin in the tokens of each issuer
  \* the requests
  pc,        \* where each request stands
  using,     \* the token a bearer was accepted with
  outcome,   \* the answer to a request
  faults     \* how many faults have struck

database == <<users, admin, session>>

signed == <<form, owner, claim>>

requests == <<pc, using, outcome>>

vars == <<database, signed, requests, faults>>

(* sessions.user_id references users, which no insert of a session violates. *)
TypeOK ==
  /\ users \subseteq Registers
  /\ admin \subseteq users
  /\ session \in [Issuers -> {"none", "live", "revoked"}]
  /\ form \in [Registers -> Form]
  /\ owner \in [Issuers -> Registers \cup {NoUser}]
  /\ claim \in [Issuers -> BOOLEAN]
  /\ \A t \in Issuers : session[t] # "none" => owner[t] \in users
  /\ pc \in [Requests -> Steps]
  /\ using \in [Bearers -> Issuers \cup {NoToken}]
  /\ outcome \in [Requests -> Outcomes]
  /\ faults \in 0..MaxFaults

Init ==
  /\ users = {}
  /\ admin = {}
  /\ session = [t \in Issuers |-> "none"]
  /\ form \in [Registers -> Form]
  /\ owner = [t \in Issuers |-> NoUser]
  /\ claim = [t \in Issuers |-> FALSE]
  /\ pc = [r \in Requests |-> "idle"]
  /\ using = [b \in Bearers |-> NoToken]
  /\ outcome = [r \in Requests |-> "none"]
  /\ faults = 0

----------------------------------------------------------------------------
(* Control.                                                                 *)

Fault == faults < MaxFaults /\ faults' = faults + 1

Goto(r, step) == pc' = [pc EXCEPT ![r] = step] /\ UNCHANGED outcome

(* The answer, or the error that next(error) hands to the error handler,    *)
(* in the same turn of the event loop as the last query's result.           *)
Finish(r, answer) ==
  /\ pc' = [pc EXCEPT ![r] = "done"]
  /\ outcome' = [outcome EXCEPT ![r] = answer]

(* Both cookies are set when an issuer answers; an answer that gets lost is *)
(* one whose tokens nobody uses.                                            *)
HandedOut == {t \in Issuers : outcome[t] = "ok"}

----------------------------------------------------------------------------
(* register: checkUniqueness is two queries (VALIDATION_FAILED), then the   *)
(* user and the session are inserted by two more, in no transaction.        *)

EmailTaken(r) == \E u \in users : form[u].email = form[r].email

NameTaken(r) == \E u \in users : form[u].name = form[r].name

CheckEmail(r) ==
  /\ pc[r] = "idle"
  /\ IF EmailTaken(r) THEN Finish(r, "error") ELSE Goto(r, "name")
  /\ UNCHANGED <<database, signed, using, faults>>

CheckName(r) ==
  /\ pc[r] = "name"
  /\ IF NameTaken(r) THEN Finish(r, "error") ELSE Goto(r, "user")
  /\ UNCHANGED <<database, signed, using, faults>>

(* Mutant: the username column is not unique.                               *)
ConflictsByEmail(r) == EmailTaken(r)

(* The unique indices of users: what they reject is answered with a 500.    *)
Conflicts(r) == EmailTaken(r) \/ NameTaken(r)

CreateUser(r) ==
  /\ pc[r] = "user"
  /\ IF Conflicts(r)
     THEN Finish(r, "error") /\ UNCHANGED <<users, owner>>
     ELSE /\ Goto(r, "session")
          /\ users' = users \cup {r}
          /\ owner' = [owner EXCEPT ![r] = r]
  /\ UNCHANGED <<admin, session, form, claim, using, faults>>

----------------------------------------------------------------------------
(* login: read the user (the tokens carry what this read has seen), check   *)
(* the password, insert the session, set lastLoginAt.                       *)

FindUser(l, email, passwordOk) ==
  /\ pc[l] = "idle"
  /\ \/ /\ passwordOk
        /\ \E u \in users :
             /\ form[u].email = email
             /\ owner' = [owner EXCEPT ![l] = u]
             /\ claim' = [claim EXCEPT ![l] = u \in admin]
        /\ Goto(l, "session")
     \/ /\ ~passwordOk \/ \A u \in users : form[u].email # email
        /\ Finish(l, "error")
        /\ UNCHANGED <<owner, claim>>
  /\ UNCHANGED <<database, form, using, faults>>

(* The session of a login, a registration or a refresh.                     *)
InsertSession(t) == session' = [session EXCEPT ![t] = "live"]

CreateSession(t) ==
  /\ pc[t] = "session"
  /\ IF t \in Logins THEN Goto(t, "stamp") ELSE Finish(t, "ok")
  /\ InsertSession(t)
  /\ UNCHANGED <<users, admin, signed, using, faults>>

StampLogin(l) ==
  /\ pc[l] = "stamp"
  /\ Finish(l, "ok")
  /\ UNCHANGED <<database, signed, using, faults>>

----------------------------------------------------------------------------
(* Requests that bring a token: the JWT is verified, then its session row   *)
(* is read.                                                                 *)

(* AUTH_FAILED or TOKEN_EXPIRED: no cookie, a bad signature, a token of the *)
(* wrong type or one whose time is over.                                    *)
Unauthenticated(b) ==
  /\ pc[b] = "idle"
  /\ Finish(b, "error")
  /\ UNCHANGED <<database, signed, using, faults>>

(* Mutant: isRevoked is not looked at.                                      *)
Exists(t) == session[t] # "none"

Valid(t) == session[t] = "live"

(* SESSION_REVOKED.                                                         *)
Refuse(b, t) ==
  /\ pc[b] = "idle"
  /\ t \in HandedOut
  /\ ~Valid(t)
  /\ Finish(b, "error")
  /\ UNCHANGED <<database, signed, using, faults>>

(* b is accepted with token t.                                              *)
Accept(b, t) ==
  /\ pc[b] = "idle"
  /\ t \in HandedOut
  /\ Valid(t)
  /\ using' = [using EXCEPT ![b] = t]

(* Mutant: adminMiddleware lets every user pass.                            *)
AnyonePasses(t) == TRUE

(* adminMiddleware: the claim in the token, not the users table.            *)
IsAdmin(t) == claim[t]

(* A guarded route; what it does next is another module's business.         *)
Call(c, t, adminOnly) ==
  /\ Accept(c, t)
  /\ Finish(c, IF ~adminOnly THEN "ok" ELSE IF IsAdmin(t) THEN "admin" ELSE "error")
  /\ UNCHANGED <<database, signed, faults>>

StartLogout(o, t) ==
  /\ Accept(o, t)
  /\ Goto(o, "revoke")
  /\ UNCHANGED <<database, signed, faults>>

UserOf(t) == owner[t]

(* refreshTokens copies the user and the isAdmin claim of the old token: a  *)
(* promotion never reaches a session that keeps refreshing.                 *)
StartRefresh(r, t) ==
  /\ Accept(r, t)
  /\ Goto(r, "revoke")
  /\ owner' = [owner EXCEPT ![r] = UserOf(t)]
  /\ claim' = [claim EXCEPT ![r] = claim[t]]
  /\ UNCHANGED <<database, form, faults>>

(* Mutants: every session of the user is revoked; the update is forgotten.  *)
RevokeAllOfUser(b) ==
  session' = [t \in Issuers |->
    IF session[t] = "live" /\ owner[t] = owner[using[b]] THEN "revoked" ELSE session[t]]

RevokeNothing(b) == UNCHANGED session

(* Without a condition on isRevoked: it may have been set meanwhile.        *)
SetRevoked(b) == session' = [session EXCEPT ![using[b]] = "revoked"]

Revoke(b) ==
  /\ pc[b] = "revoke"
  /\ IF b \in Refreshes THEN Goto(b, "session") ELSE Finish(b, "ok")
  /\ SetRevoked(b)
  /\ UNCHANGED <<users, admin, signed, using, faults>>

----------------------------------------------------------------------------
(* The surroundings: an operator promotes a user in the database, queries   *)
(* fail, the process dies.                                                  *)

(* seed-admin.sh                                                            *)
Promote(u) ==
  /\ u \in users \ admin
  /\ admin' = admin \cup {u}
  /\ UNCHANGED <<users, session, signed, requests, faults>>

Active(r) == pc[r] \notin {"idle", "done"}

(* No error is caught before the error handler, so nothing is rolled back.  *)
(* A first query that fails leaves what a refusal leaves.                   *)
QueryFails(r) ==
  /\ Active(r)
  /\ Fault
  /\ Finish(r, "error")
  /\ UNCHANGED <<database, signed, using>>

Crash ==
  /\ \E r \in Requests : Active(r)
  /\ Fault
  /\ pc' = [r \in Requests |-> IF Active(r) THEN "done" ELSE pc[r]]
  /\ outcome' = [r \in Requests |-> IF Active(r) THEN "error" ELSE outcome[r]]
  /\ UNCHANGED <<database, signed, using>>

----------------------------------------------------------------------------

(* The steps that the event loop takes once a request has begun.            *)
Step(r) ==
  \/ r \in Registers /\ (CheckName(r) \/ CreateUser(r))
  \/ r \in Refreshes \cup Logouts /\ Revoke(r)
  \/ r \in Issuers /\ CreateSession(r)
  \/ r \in Logins /\ StampLogin(r)

Arrive ==
  \/ \E r \in Registers : CheckEmail(r)
  \/ \E l \in Logins, e \in Emails, ok \in BOOLEAN : FindUser(l, e, ok)
  \/ \E b \in Bearers : Unauthenticated(b)
  \/ \E b \in Bearers, t \in Issuers : Refuse(b, t)
  \/ \E c \in Calls, t \in Issuers, adminOnly \in BOOLEAN : Call(c, t, adminOnly)
  \/ \E o \in Logouts, t \in Issuers : StartLogout(o, t)
  \/ \E r \in Refreshes, t \in Issuers : StartRefresh(r, t)

Surroundings ==
  \/ \E u \in Registers : Promote(u)
  \/ \E r \in Requests : QueryFails(r)
  \/ Crash

Next == Arrive \/ (\E r \in Requests : Step(r)) \/ Surroundings

Spec == Init /\ [][Next]_vars

----------------------------------------------------------------------------
(* Properties.                                                              *)

(* No two accounts share an address or a name, although register checks in  *)
(* two queries of its own and inserts in a third.                           *)
AccountsDistinct ==
  \A u, v \in users : u # v => form[u].email # form[v].email /\ form[u].name # form[v].name

(* Nobody is logged out by anybody else: a session whose tokens were handed *)
(* out stays live until a refresh or a logout that brought one of these     *)
(* very tokens has ended it.                                                *)
OnlyOwnTokensEndASession ==
  \A t \in HandedOut :
    \/ session[t] = "live"
    \/ \E b \in Refreshes \cup Logouts : using[b] = t /\ pc[b] # "revoke"

(* A rotation never leaves both sessions usable, wherever it is broken off: *)
(* when a refresh has created its session, the one it replaces is revoked.  *)
SuccessorReplaces ==
  \A r \in Refreshes : session[r] # "none" => session[using[r]] = "revoked"

(* adminMiddleware trusts a claim that is copied from token to token; still *)
(* only users with isAdmin in the database ever get through.                *)
AdminsOnly ==
  \A c \in Calls : outcome[c] = "admin" => owner[using[c]] \in admin

(* A token is worth nothing once a refresh or a logout that brought it has  *)
(* been answered: whatever request brings it afterwards is refused.         *)
ReplayRefused ==
  [][\A b \in Bearers, q \in Refreshes \cup Logouts :
       using'[b] # using[b] /\ outcome[q] = "ok" => using'[b] # using[q]]_vars

(* A revoked session is never valid again, and what was signed for a        *)
(* session that exists does not change.                                     *)
RevokedForGood ==
  [][\A t \in Issuers :
       /\ session[t] = "revoked" => session'[t] = "revoked"
       /\ session[t] # "none" => owner'[t] = owner[t] /\ claim'[t] = claim[t]]_vars

(* The refreshes between the update and the insert.                         *)
Replacing == {r \in Refreshes : pc[r] = "session"}

(* The requests that have yet to obtain tokens.                             *)
Waiting == {t \in Issuers \ Replacing : pc[t] \notin {"stamp", "done"}}

(* A session that is about to be inserted is as good as live: nobody else   *)
(* has its tokens yet.                                                      *)
Live == {t \in Issuers : session[t] = "live"} \cup Replacing

Promised(t) == IF t \in Refreshes /\ pc[t] = "revoke" THEN using[t] ELSE NoToken

Server == INSTANCE TokenServer WITH
  Tokens   <- Issuers,
  unused   <- Waiting,
  live     <- Live,
  accepted <- [t \in Issuers |-> Promised(t)]

(* For those who hold tokens, a rotation is one step: the old session gives *)
(* way to the new one at the update, in a place of its own in the order of  *)
(* all rotations, logouts and failures, although it takes two queries and   *)
(* may be broken off between them.  Live sessions come from nowhere else    *)
(* but registrations and logins.                                            *)
KeepsTokenPromise == Server!Spec

(* What the documentation says, and the code does not keep.                 *)

(* TECHNICAL_REPORT.md, 3.6: rotation prevents refresh token replay; a      *)
(* refresh token is good for one new session.                               *)
RefreshTokenUsedOnce ==
  \A q, r \in Refreshes :
    outcome[q] = "ok" /\ outcome[r] = "ok" /\ using[q] = using[r] => q = r
=============================================================================
