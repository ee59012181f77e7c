-------------------------- MODULE Sessions_proofs --------------------------
(***************************************************************************)
(* What holds of accounts and sessions for any number of requests, users   *)
(* and faults, and how far the race of refreshTokens can go.               *)
(***************************************************************************)
EXTENDS RefreshOverlap, TLAPS, FiniteSetTheorems

(* A request has no answer and no token before its time, a session no row,  *)
(* and what is about to be inserted has a user.                             *)
Order ==
  /\ \A r \in Requests : pc[r] # "done" => outcome[r] = "none"
  /\ \A b \in Bearers : pc[b] = "idle" => using[b] = NoToken
  /\ \A t \in Issuers : session[t] # "none" => pc[t] \in {"stamp", "done"}
  /\ \A t \in Issuers : outcome[t] = "ok" \/ pc[t] = "stamp" => session[t] # "none"
  /\ \A t \in Issuers : pc[t] \in {"revoke", "session"} => owner[t] \in users

(* A token in use has a row.                                                *)
InUse ==
  \A b \in Refreshes \cup Logouts :
    pc[b] \in {"revoke", "session"} => using[b] \in Issuers /\ session[using[b]] # "none"

(* What a refresh or a logout has been through with is revoked.             *)
Spent ==
  /\ \A r \in Refreshes :
       pc[r] = "session" \/ session[r] # "none" =>
         using[r] \in Issuers /\ session[using[r]] = "revoked"
  /\ \A q \in Refreshes \cup Logouts :
       outcome[q] = "ok" => using[q] \in Issuers /\ session[using[q]] = "revoked"

(* A revoked session was ended by somebody who brought its token.           *)
Reasons ==
  \A t \in Issuers : session[t] = "revoked" =>
    \E b \in Refreshes \cup Logouts : using[b] = t /\ pc[b] # "revoke"

(* Tokens claim no more than the database says; a session's owner is fixed. *)
Claims ==
  /\ \A g \in Registers : ~claim[g]
  /\ \A t \in Issuers : claim[t] => owner[t] \in admin
  /\ \A c \in Calls : outcome[c] = "admin" =>
       using[c] \in Issuers /\ session[using[c]] # "none" /\ owner[using[c]] \in admin

(* The inductive invariant.                                                 *)
IInv == TypeOK /\ Order /\ InUse /\ Spent /\ Reasons /\ Claims /\ AccountsDistinct

----------------------------------------------------------------------------

(* Which requests are of which kind.                                        *)
LEMMA Sets ==
  /\ Registers \subseteq Issuers /\ Logins \subseteq Issuers /\ Refreshes \subseteq Issuers
  /\ Refreshes \subseteq Bearers /\ Logouts \subseteq Bearers /\ Calls \subseteq Bearers
  /\ Issuers \subseteq Requests /\ Bearers \subseteq Requests
  /\ Bearers \cap Issuers \subseteq Refreshes
  /\ Calls \cap (Refreshes \cup Logouts \cup Issuers) = {}
  /\ Logouts \cap Issuers = {}
  /\ Logins \cap Bearers = {}
  /\ Registers \cap Bearers = {}
BY SessionsAssumption DEF Issuers, Bearers, Requests

(* An answered request stops, and nobody else moves.                        *)
LEMMA FinishEffect ==
  ASSUME TypeOK, NEW r \in Requests, NEW answer \in Outcomes, Finish(r, answer)
  PROVE  /\ pc' \in [Requests -> Steps] /\ outcome' \in [Requests -> Outcomes]
         /\ pc'[r] = "done" /\ outcome'[r] = answer
         /\ \A q \in Requests \ {r} : pc'[q] = pc[q] /\ outcome'[q] = outcome[q]
  BY DEF TypeOK, Finish, Steps

(* A request that goes on leaves the others where they are.                 *)
LEMMA GotoEffect ==
  ASSUME TypeOK, NEW r \in Requests, NEW to \in Steps, Goto(r, to)
  PROVE  /\ pc' \in [Requests -> Steps] /\ outcome' \in [Requests -> Outcomes]
         /\ pc'[r] = to
         /\ outcome' = outcome
         /\ \A q \in Requests \ {r} : pc'[q] = pc[q]
  BY DEF TypeOK, Goto

(* The steps and answers that the actions name.                             *)
LEMMA StepsAndAnswers ==
  /\ {"idle", "name", "user", "revoke", "session", "stamp", "done"} \subseteq Steps
  /\ {"none", "ok", "admin", "error"} \subseteq Outcomes
BY DEF Steps, Outcomes

(* The invariant holds before the first request.                            *)
LEMMA Initially == Init => IInv
BY SessionsAssumption, Sets, StepsAndAnswers DEF Init, IInv, TypeOK, Order, InUse, Spent, Reasons,
     Claims, AccountsDistinct, Form

(* A request that ends in an error leaves everything else as it was.        *)
LEMMA Failing ==
  ASSUME IInv, NEW r \in Requests, pc[r] # "done", Finish(r, "error"),
         UNCHANGED <<database, signed, using>>, faults' \in 0..MaxFaults
  PROVE  IInv'
<1> USE Sets, StepsAndAnswers DEF IInv, database, signed
<1>1. /\ pc' \in [Requests -> Steps] /\ outcome' \in [Requests -> Outcomes]
      /\ pc'[r] = "done" /\ outcome'[r] = "error"
      /\ \A q \in Requests \ {r} : pc'[q] = pc[q] /\ outcome'[q] = outcome[q]
  BY FinishEffect
<1>2. TypeOK'
  BY <1>1 DEF TypeOK
<1>3. Order'
  BY <1>1 DEF Order
<1>4. InUse'
  BY <1>1 DEF InUse
<1>5. Spent'
  BY <1>1 DEF Spent
<1>6. Reasons'
  BY <1>1 DEF Reasons
<1>7. Claims'
  BY <1>1 DEF Claims
<1>8. AccountsDistinct'
  BY DEF AccountsDistinct
<1> QED
  BY <1>2, <1>3, <1>4, <1>5, <1>6, <1>7, <1>8

(* So does a registration that goes on to its next query.                   *)
LEMMA Checking ==
  ASSUME IInv, NEW r \in Registers, pc[r] \in {"idle", "name"}, NEW to \in {"name", "user"},
         Goto(r, to), UNCHANGED <<database, signed, using, faults>>
  PROVE  IInv'
<1> USE Sets, StepsAndAnswers DEF IInv, database, signed
<1>1. /\ pc' \in [Requests -> Steps] /\ outcome' = outcome
      /\ pc'[r] = to
      /\ \A q \in Requests \ {r} : pc'[q] = pc[q]
  BY GotoEffect
<1>2. TypeOK'
  BY <1>1 DEF TypeOK
<1>3. Order'
  BY <1>1 DEF Order
<1>4. InUse'
  BY <1>1 DEF InUse
<1>5. Spent'
  BY <1>1 DEF Spent
<1>6. Reasons'
  BY <1>1 DEF Reasons
<1>7. Claims'
  BY <1>1 DEF Claims
<1>8. AccountsDistinct'
  BY DEF AccountsDistinct
<1> QED
  BY <1>2, <1>3, <1>4, <1>5, <1>6, <1>7, <1>8

(* Every action keeps the invariant.                                        *)
LEMMA InvStep == IInv /\ [Next]_vars => IInv'
<1> SUFFICES ASSUME IInv, [Next]_vars PROVE IInv'
  OBVIOUS
<1> USE Sets, StepsAndAnswers DEF IInv, database, signed, requests, vars
<1>0. (\A r \in Requests : pc[r] \in Steps) /\ faults \in 0..MaxFaults
  BY DEF TypeOK
<1>1. ASSUME NEW r \in Registers, CheckEmail(r) PROVE IInv'
  BY <1>1, <1>0, Failing, Checking DEF CheckEmail
<1>2. ASSUME NEW r \in Registers, CheckName(r) PROVE IInv'
  BY <1>2, <1>0, Failing, Checking DEF CheckName
<1>3. ASSUME NEW r \in Registers, CreateUser(r) PROVE IInv'
  <2>a. CASE Conflicts(r)
    BY <1>3, <1>0, <2>a, Failing DEF CreateUser
  <2>b. CASE ~Conflicts(r)
    <3>1. /\ pc[r] = "user" /\ Goto(r, "session")
          /\ users' = users \cup {r}
          /\ owner' = [owner EXCEPT ![r] = r]
          /\ UNCHANGED <<admin, session, form, claim, using, faults>>
          /\ \A u \in users : form[u].email # form[r].email /\ form[u].name # form[r].name
      BY <1>3, <2>b DEF CreateUser, Conflicts, EmailTaken, NameTaken
    <3>2. /\ pc' \in [Requests -> Steps] /\ outcome' = outcome
          /\ pc'[r] = "session"
          /\ \A q \in Requests \ {r} : pc'[q] = pc[q]
      BY <3>1, GotoEffect
    <3>3. TypeOK'
      BY <3>1, <3>2 DEF TypeOK
    <3>4. Order'
      BY <3>1, <3>2 DEF Order, TypeOK
    <3>5. InUse'
      BY <3>1, <3>2 DEF InUse
    <3>6. Spent'
      BY <3>1, <3>2 DEF Spent
    <3>7. Reasons'
      BY <3>1, <3>2 DEF Reasons
    <3>8. Claims'
      BY <3>1, <3>2 DEF Claims, TypeOK, Order
    <3>9. AccountsDistinct'
      BY <3>1, <3>2 DEF AccountsDistinct
    <3> QED
      BY <3>3, <3>4, <3>5, <3>6, <3>7, <3>8, <3>9
  <2> QED
    BY <2>a, <2>b
<1>4. ASSUME NEW l \in Logins, NEW e \in Emails, NEW ok \in BOOLEAN, FindUser(l, e, ok) PROVE IInv'
  <2>a. CASE Finish(l, "error") /\ UNCHANGED <<owner, claim>>
    BY <1>4, <1>0, <2>a, Failing DEF FindUser
  <2>b. ASSUME NEW u \in users,
               owner' = [owner EXCEPT ![l] = u], claim' = [claim EXCEPT ![l] = u \in admin],
               Goto(l, "session")
        PROVE IInv'
    <3>1. pc[l] = "idle" /\ UNCHANGED <<database, form, using, faults>>
      BY <1>4 DEF FindUser
    <3>2. /\ pc' \in [Requests -> Steps] /\ outcome' = outcome
          /\ pc'[l] = "session"
          /\ \A q \in Requests \ {l} : pc'[q] = pc[q]
      BY <2>b, GotoEffect
    <3>3. u \in Registers /\ (u \in admin) \in BOOLEAN
      BY DEF TypeOK
    <3>4. TypeOK'
      BY <2>b, <3>1, <3>2, <3>3 DEF TypeOK
    <3>5. Order'
      BY <2>b, <3>1, <3>2, <3>3 DEF Order, TypeOK
    <3>6. InUse'
      BY <2>b, <3>1, <3>2, <3>3 DEF InUse
    <3>7. Spent'
      BY <2>b, <3>1, <3>2, <3>3 DEF Spent
    <3>8. Reasons'
      BY <2>b, <3>1, <3>2, <3>3 DEF Reasons
    <3>9. Claims'
      <4>1. \A t \in Issuers : claim'[t] => owner'[t] \in admin
        BY <2>b, <3>1, <3>3 DEF TypeOK, Claims
      <4>2. \A t \in Issuers : session[t] # "none" => owner'[t] = owner[t]
        BY <2>b, <3>1 DEF TypeOK, Order
      <4>3. \A g \in Registers : ~claim'[g]
        BY <2>b, SessionsAssumption DEF TypeOK, Claims
      <4> QED
        BY <3>1, <3>2, <4>1, <4>2, <4>3 DEF Claims, TypeOK
    <3>10. AccountsDistinct'
      BY <2>b, <3>1, <3>2, <3>3 DEF AccountsDistinct
    <3> QED
      BY <3>4, <3>5, <3>6, <3>7, <3>8, <3>9, <3>10
  <2> QED
    BY <1>4, <2>a, <2>b DEF FindUser
<1>5. ASSUME NEW t \in Issuers, CreateSession(t) PROVE IInv'
  <2>1. /\ pc[t] = "session"
        /\ session' = [session EXCEPT ![t] = "live"]
        /\ UNCHANGED <<users, admin, signed, using, faults>>
    BY <1>5 DEF CreateSession, InsertSession
  <2>2. /\ pc' \in [Requests -> Steps] /\ outcome' \in [Requests -> Outcomes]
        /\ pc'[t] \in {"stamp", "done"}
        /\ t \in Refreshes => pc'[t] = "done"
        /\ outcome'[t] = "ok" => pc'[t] = "done"
        /\ pc'[t] # "done" => outcome'[t] = "none"
        /\ outcome'[t] \in {"none", "ok"}
        /\ \A q \in Requests \ {t} : pc'[q] = pc[q] /\ outcome'[q] = outcome[q]
    <3>1. CASE t \in Logins
      BY <1>5, <3>1, GotoEffect DEF CreateSession, TypeOK, Order
    <3>2. CASE t \notin Logins
      BY <1>5, <3>2, FinishEffect DEF CreateSession
    <3> QED
      BY <3>1, <3>2
  <2>3. session[t] = "none" /\ session'[t] = "live"
    BY <2>1 DEF TypeOK, Order
  <2>4. \A x \in Issuers \ {t} : session'[x] = session[x]
    BY <2>1 DEF TypeOK
  <2>5. TypeOK'
    BY <2>1, <2>2, <2>3, <2>4 DEF TypeOK, Order
  <2>6. Order'
    BY <2>1, <2>2, <2>3, <2>4 DEF Order
  <2>7. InUse'
    BY <2>1, <2>2, <2>3, <2>4 DEF InUse, TypeOK
  <2>8. Spent'
    BY <2>1, <2>2, <2>3, <2>4 DEF Spent, InUse, TypeOK
  <2>9. Reasons'
    BY <2>1, <2>2, <2>3, <2>4 DEF Reasons
  <2>10. Claims'
    BY <2>1, <2>2, <2>3, <2>4 DEF Claims, TypeOK
  <2>11. AccountsDistinct'
    BY <2>1, <2>2, <2>3, <2>4 DEF AccountsDistinct
  <2> QED
    BY <2>5, <2>6, <2>7, <2>8, <2>9, <2>10, <2>11
<1>6. ASSUME NEW l \in Logins, StampLogin(l) PROVE IInv'
  <2>1. pc[l] = "stamp" /\ Finish(l, "ok") /\ UNCHANGED <<database, signed, using, faults>>
    BY <1>6 DEF StampLogin
  <2>2. /\ pc' \in [Requests -> Steps] /\ outcome' \in [Requests -> Outcomes]
        /\ pc'[l] = "done" /\ outcome'[l] = "ok"
        /\ \A q \in Requests \ {l} : pc'[q] = pc[q] /\ outcome'[q] = outcome[q]
    BY <2>1, FinishEffect
  <2>3. TypeOK'
    BY <2>1, <2>2 DEF TypeOK
  <2>4. Order'
    BY <2>1, <2>2 DEF Order
  <2>5. InUse'
    BY <2>1, <2>2 DEF InUse
  <2>6. Spent'
    BY <2>1, <2>2 DEF Spent
  <2>7. Reasons'
    BY <2>1, <2>2 DEF Reasons
  <2>8. Claims'
    BY <2>1, <2>2 DEF Claims
  <2>9. AccountsDistinct'
    BY <2>1, <2>2 DEF AccountsDistinct
  <2> QED
    BY <2>3, <2>4, <2>5, <2>6, <2>7, <2>8, <2>9
<1>7. ASSUME NEW b \in Bearers, Unauthenticated(b) PROVE IInv'
  BY <1>7, <1>0, Failing DEF Unauthenticated
<1>8. ASSUME NEW b \in Bearers, NEW t \in Issuers, Refuse(b, t) PROVE IInv'
  BY <1>8, <1>0, Failing DEF Refuse
<1>9. ASSUME NEW c \in Calls, NEW t \in Issuers, NEW adminOnly \in BOOLEAN, Call(c, t, adminOnly)
      PROVE  IInv'
  <2>1. /\ pc[c] = "idle" /\ session[t] = "live"
        /\ using' = [using EXCEPT ![c] = t]
        /\ UNCHANGED <<database, signed, faults>>
    BY <1>9 DEF Call, Accept, Valid
  <2>2. PICK answer \in {"ok", "admin", "error"} : Finish(c, answer) /\ (answer = "admin" => claim[t])
    BY <1>9 DEF Call, IsAdmin
  <2>3. /\ pc' \in [Requests -> Steps] /\ outcome' \in [Requests -> Outcomes]
        /\ pc'[c] = "done" /\ outcome'[c] = answer
        /\ \A q \in Requests \ {c} : pc'[q] = pc[q] /\ outcome'[q] = outcome[q]
    BY <2>2, FinishEffect
  <2>4. c \notin Refreshes \cup Logouts \cup Issuers
    OBVIOUS
  <2>5. TypeOK'
    BY <2>1, <2>2, <2>3, <2>4 DEF TypeOK
  <2>6. Order'
    BY <2>1, <2>2, <2>3, <2>4 DEF Order, TypeOK
  <2>7. InUse'
    BY <2>1, <2>2, <2>3, <2>4 DEF InUse, TypeOK
  <2>8. Spent'
    BY <2>1, <2>2, <2>3, <2>4 DEF Spent, TypeOK
  <2>9. Reasons'
    BY <2>1, <2>2, <2>3, <2>4 DEF Reasons, TypeOK
  <2>10. Claims'
    BY <2>1, <2>2, <2>3, <2>4 DEF Claims, TypeOK
  <2>11. AccountsDistinct'
    BY <2>1, <2>2, <2>3, <2>4 DEF AccountsDistinct
  <2> QED
    BY <2>5, <2>6, <2>7, <2>8, <2>9, <2>10, <2>11
<1>10. ASSUME NEW o \in Logouts, NEW t \in Issuers, StartLogout(o, t) PROVE IInv'
  <2>1. /\ pc[o] = "idle" /\ session[t] = "live" /\ Goto(o, "revoke")
        /\ using' = [using EXCEPT ![o] = t]
        /\ UNCHANGED <<database, signed, faults>>
    BY <1>10 DEF StartLogout, Accept, Valid
  <2>2. /\ pc' \in [Requests -> Steps] /\ outcome' = outcome
        /\ pc'[o] = "revoke"
        /\ \A q \in Requests \ {o} : pc'[q] = pc[q]
    BY <2>1, GotoEffect
  <2>3. using[o] = NoToken /\ using'[o] = t /\ \A b \in Bearers \ {o} : using'[b] = using[b]
    BY <2>1 DEF TypeOK, Order
  <2>4. TypeOK'
    BY <2>1, <2>2, <2>3 DEF TypeOK
  <2>5. Order'
    BY <2>1, <2>2, <2>3 DEF Order, TypeOK
  <2>6. InUse'
    BY <2>1, <2>2, <2>3 DEF InUse
  <2>7. Spent'
    BY <2>1, <2>2, <2>3 DEF Spent, Order
  <2>8. Reasons'
    BY <2>1, <2>2, <2>3, SessionsAssumption DEF Reasons, TypeOK
  <2>9. Claims'
    BY <2>1, <2>2, <2>3 DEF Claims
  <2>10. AccountsDistinct'
    BY <2>1, <2>2, <2>3 DEF AccountsDistinct
  <2> QED
    BY <2>4, <2>5, <2>6, <2>7, <2>8, <2>9, <2>10
<1>11. ASSUME NEW r \in Refreshes, NEW t \in Issuers, StartRefresh(r, t) PROVE IInv'
  <2>1. /\ pc[r] = "idle" /\ session[t] = "live" /\ Goto(r, "revoke")
        /\ using' = [using EXCEPT ![r] = t]
        /\ owner' = [owner EXCEPT ![r] = owner[t]]
        /\ claim' = [claim EXCEPT ![r] = claim[t]]
        /\ UNCHANGED <<database, form, faults>>
    BY <1>11 DEF StartRefresh, Accept, Valid, UserOf, TypeOK
  <2>2. /\ pc' \in [Requests -> Steps] /\ outcome' = outcome
        /\ pc'[r] = "revoke"
        /\ \A q \in Requests \ {r} : pc'[q] = pc[q]
    BY <2>1, GotoEffect
  <2>3. using[r] = NoToken /\ using'[r] = t /\ \A b \in Bearers \ {r} : using'[b] = using[b]
    BY <2>1 DEF TypeOK, Order
  <2>4. session[r] = "none" /\ outcome[r] = "none"
    BY <2>1 DEF TypeOK, Order
  <2>5. TypeOK'
    BY <2>1, <2>2, <2>3, <2>4 DEF TypeOK
  <2>6. Order'
    BY <2>1, <2>2, <2>3, <2>4 DEF Order, TypeOK
  <2>7. InUse'
    BY <2>1, <2>2, <2>3, <2>4 DEF InUse
  <2>8. Spent'
    BY <2>1, <2>2, <2>3, <2>4 DEF Spent, Order
  <2>9. Reasons'
    BY <2>1, <2>2, <2>3, SessionsAssumption DEF Reasons, TypeOK
  <2>10. Claims'
    BY <2>1, <2>2, <2>3, <2>4 DEF Claims, TypeOK
  <2>11. AccountsDistinct'
    BY <2>1, <2>2, <2>3, <2>4 DEF AccountsDistinct
  <2> QED
    BY <2>5, <2>6, <2>7, <2>8, <2>9, <2>10, <2>11
<1>12. ASSUME NEW b \in Refreshes \cup Logouts, Revoke(b) PROVE IInv'
  <2>1. /\ pc[b] = "revoke"
        /\ session' = [session EXCEPT ![using[b]] = "revoked"]
        /\ UNCHANGED <<users, admin, signed, using, faults>>
    BY <1>12 DEF Revoke, SetRevoked
  <2>2. /\ pc' \in [Requests -> Steps] /\ outcome' \in [Requests -> Outcomes]
        /\ pc'[b] = IF b \in Refreshes THEN "session" ELSE "done"
        /\ outcome'[b] = IF b \in Refreshes THEN "none" ELSE "ok"
        /\ \A q \in Requests \ {b} : pc'[q] = pc[q] /\ outcome'[q] = outcome[q]
    <3>1. CASE b \in Refreshes
      BY <1>12, <3>1, <2>1, GotoEffect DEF Revoke, Order
    <3>2. CASE b \notin Refreshes
      BY <1>12, <3>2, FinishEffect DEF Revoke
    <3> QED
      BY <3>1, <3>2
  <2>3. using[b] \in Issuers /\ session[using[b]] # "none" /\ session'[using[b]] = "revoked"
    BY <2>1 DEF TypeOK, InUse
  <2>4. \A x \in Issuers \ {using[b]} : session'[x] = session[x]
    BY <2>1 DEF TypeOK
  <2>5. \A x \in Issuers :
          /\ session[x] = "revoked" => session'[x] = "revoked"
          /\ session'[x] = "none" <=> session[x] = "none"
    BY <2>3, <2>4
  <2>6. TypeOK'
    BY <2>1, <2>2, <2>3, <2>4, <2>5 DEF TypeOK
  <2>7. Order'
    BY <2>1, <2>2, <2>3, <2>4, <2>5 DEF Order
  <2>8. InUse'
    BY <2>1, <2>2, <2>3, <2>4, <2>5 DEF InUse
  <2>9. Spent'
    BY <2>1, <2>2, <2>3, <2>4, <2>5 DEF Spent
  <2>10. Reasons'
    BY <2>1, <2>2, <2>3, <2>4, <2>5 DEF Reasons
  <2>11. Claims'
    BY <2>1, <2>2, <2>3, <2>4, <2>5 DEF Claims
  <2>12. AccountsDistinct'
    BY <2>1, <2>2, <2>3, <2>4, <2>5 DEF AccountsDistinct
  <2> QED
    BY <2>6, <2>7, <2>8, <2>9, <2>10, <2>11, <2>12
<1>13. ASSUME NEW u \in Registers, Promote(u) PROVE IInv'
  BY <1>13 DEF Promote, TypeOK, Order, InUse, Spent, Reasons, Claims, AccountsDistinct
<1>14. ASSUME NEW r \in Requests, QueryFails(r) PROVE IInv'
  <2>1. faults' \in 0..MaxFaults
    BY <1>14, <1>0, SessionsAssumption DEF QueryFails, Fault
  <2> QED
    BY <1>14, <2>1, Failing DEF QueryFails, Active
<1>15. ASSUME Crash PROVE IInv'
  <2>1. /\ UNCHANGED <<database, signed, using>>
        /\ faults' \in 0..MaxFaults
    BY <1>15, <1>0, SessionsAssumption DEF Crash, Fault
  <2>2. /\ pc' \in [Requests -> Steps] /\ outcome' \in [Requests -> Outcomes]
        /\ \A q \in Requests :
             \/ pc'[q] = pc[q] /\ outcome'[q] = outcome[q]
             \/ pc[q] \notin {"idle", "done"} /\ pc'[q] = "done" /\ outcome'[q] = "error"
    BY <1>15 DEF Crash, Active, TypeOK
  <2>3. TypeOK'
    BY <2>1, <2>2 DEF TypeOK
  <2>4. Order'
    BY <2>1, <2>2 DEF Order
  <2>5. InUse'
    BY <2>1, <2>2 DEF InUse
  <2>6. Spent'
    BY <2>1, <2>2 DEF Spent
  <2>7. Reasons'
    BY <2>1, <2>2 DEF Reasons
  <2>8. Claims'
    BY <2>1, <2>2 DEF Claims
  <2>9. AccountsDistinct'
    BY <2>1, <2>2 DEF AccountsDistinct
  <2> QED
    BY <2>3, <2>4, <2>5, <2>6, <2>7, <2>8, <2>9
<1>16. ASSUME UNCHANGED vars PROVE IInv'
  BY <1>16 DEF TypeOK, Order, InUse, Spent, Reasons, Claims, AccountsDistinct
<1> QED
  BY <1>1, <1>2, <1>3, <1>4, <1>5, <1>6, <1>7, <1>8, <1>9, <1>10, <1>11, <1>12, <1>13, <1>14, <1>15,
     <1>16 DEF Next, Arrive, Step, Surroundings

(* The inductive invariant holds throughout.                                *)
THEOREM Invariance == Spec => []IInv
BY Initially, InvStep, PTL DEF Spec

----------------------------------------------------------------------------
(* The properties, from the invariant.                                      *)

(* Every variable keeps its type.                                           *)
THEOREM TypeCorrect == Spec => []TypeOK
BY Invariance, PTL DEF IInv

(* No two accounts share an address or a name.                              *)
THEOREM AccountsAreDistinct == Spec => []AccountsDistinct
BY Invariance, PTL DEF IInv

(* Nobody is logged out by anybody else's refresh or logout.                *)
THEOREM SessionsAreOnesOwn == Spec => []OnlyOwnTokensEndASession
<1>1. IInv => OnlyOwnTokensEndASession
  BY DEF IInv, TypeOK, Order, Reasons, OnlyOwnTokensEndASession, HandedOut
<1> QED
  BY <1>1, Invariance, PTL

(* When a refresh has created its session the old one is revoked.           *)
THEOREM RotationReplaces == Spec => []SuccessorReplaces
<1>1. IInv => SuccessorReplaces
  BY DEF IInv, Spent, SuccessorReplaces
<1> QED
  BY <1>1, Invariance, PTL

(* Only administrators get past adminMiddleware.                            *)
THEOREM OnlyAdminsPass == Spec => []AdminsOnly
<1>1. IInv => AdminsOnly
  BY DEF IInv, Claims, AdminsOnly
<1> QED
  BY <1>1, Invariance, PTL

(* Only three actions change what a bearer is accepted with, and each needs *)
(* a live session.                                                          *)
LEMMA AcceptedLive ==
  ASSUME IInv, [Next]_vars, NEW b \in Bearers, using'[b] # using[b]
  PROVE  using'[b] \in Issuers /\ session[using'[b]] = "live"
<1> USE DEF IInv, TypeOK, vars, requests
<1>1. ASSUME NEW c \in Bearers, NEW t \in Issuers, Accept(c, t)
      PROVE  using'[b] \in Issuers /\ session[using'[b]] = "live"
  BY <1>1 DEF Accept, Valid
<1>2. CASE UNCHANGED using
  BY <1>2
<1>3. CASE \E c \in Bearers, t \in Issuers : Accept(c, t)
  BY <1>1, <1>3
<1>4. UNCHANGED using \/ \E c \in Bearers, t \in Issuers : Accept(c, t)
  BY Sets DEF Next, Arrive, Step, Surroundings, CheckEmail, CheckName, CreateUser, FindUser,
     CreateSession, StampLogin, Unauthenticated, Refuse, Call, StartLogout, StartRefresh, Revoke,
     Promote, QueryFails, Crash
<1> QED
  BY <1>2, <1>3, <1>4

(* A token that a refresh or a logout has been answered for is refused.     *)
THEOREM NoReplay == Spec => ReplayRefused
<1>1. IInv /\ [Next]_vars =>
        [\A b \in Bearers, q \in Refreshes \cup Logouts :
           using'[b] # using[b] /\ outcome[q] = "ok" => using'[b] # using[q]]_vars
  <2>1. SUFFICES ASSUME IInv, [Next]_vars, NEW b \in Bearers, NEW q \in Refreshes \cup Logouts,
                        using'[b] # using[b], outcome[q] = "ok"
                 PROVE  using'[b] # using[q]
    OBVIOUS
  <2>2. session[using'[b]] = "live"
    BY <2>1, AcceptedLive
  <2>3. session[using[q]] = "revoked"
    BY <2>1 DEF IInv, Spent
  <2> QED
    BY <2>2, <2>3
<1> QED
  BY <1>1, Invariance, PTL DEF Spec, ReplayRefused

(* What a step may do to a session: a request inserts its own, or revokes   *)
(* the one that it was accepted with; tokens are signed before the insert.  *)
LEMMA SessionStep ==
  ASSUME IInv, [Next]_vars, NEW t \in Issuers
  PROVE  /\ session[t] = "revoked" => session'[t] = "revoked"
         /\ session[t] # "none" => owner'[t] = owner[t] /\ claim'[t] = claim[t]
<1> USE Sets DEF IInv, database, signed, requests, vars
<1>1. ASSUME NEW x \in Issuers, CreateSession(x)
      PROVE  session[t] = "revoked" => session'[t] = "revoked"
  BY <1>1 DEF CreateSession, InsertSession, TypeOK, Order
<1>2. ASSUME NEW b \in Refreshes \cup Logouts, Revoke(b)
      PROVE  session[t] = "revoked" => session'[t] = "revoked"
  BY <1>2 DEF Revoke, SetRevoked, TypeOK
<1>3. UNCHANGED session \/ (\E x \in Issuers : CreateSession(x))
        \/ (\E b \in Refreshes \cup Logouts : Revoke(b))
  BY DEF Next, Arrive, Step, Surroundings, CheckEmail, CheckName, CreateUser, FindUser,
     StampLogin, Unauthenticated, Refuse, Call, StartLogout, StartRefresh, Promote, QueryFails, Crash
<1>5. ASSUME NEW r \in Registers, CreateUser(r)
      PROVE  session[t] # "none" => owner'[t] = owner[t] /\ claim'[t] = claim[t]
  BY <1>5 DEF CreateUser, TypeOK, Order
<1>6. ASSUME NEW l \in Logins, NEW e \in Emails, NEW ok \in BOOLEAN, FindUser(l, e, ok)
      PROVE  session[t] # "none" => owner'[t] = owner[t] /\ claim'[t] = claim[t]
  BY <1>6 DEF FindUser, TypeOK, Order
<1>7. ASSUME NEW r \in Refreshes, NEW x \in Issuers, StartRefresh(r, x)
      PROVE  session[t] # "none" => owner'[t] = owner[t] /\ claim'[t] = claim[t]
  BY <1>7 DEF StartRefresh, Accept, TypeOK, Order
<1>8. \/ UNCHANGED <<owner, claim>>
      \/ \E r \in Registers : CreateUser(r)
      \/ \E l \in Logins, e \in Emails, ok \in BOOLEAN : FindUser(l, e, ok)
      \/ \E r \in Refreshes, x \in Issuers : StartRefresh(r, x)
  BY DEF Next, Arrive, Step, Surroundings, CheckEmail, CheckName, CreateSession, StampLogin,
     Unauthenticated, Refuse, Call, StartLogout, Revoke, Promote, QueryFails, Crash
<1> QED
  BY <1>1, <1>2, <1>3, <1>5, <1>6, <1>7, <1>8

(* A revoked session stays revoked and what was signed does not change.     *)
THEOREM NothingRestored == Spec => RevokedForGood
<1>1. IInv /\ [Next]_vars =>
        [\A t \in Issuers :
           /\ session[t] = "revoked" => session'[t] = "revoked"
           /\ session[t] # "none" => owner'[t] = owner[t] /\ claim'[t] = claim[t]]_vars
  BY SessionStep
<1> QED
  BY <1>1, Invariance, PTL DEF Spec, RevokedForGood

----------------------------------------------------------------------------
(* Overlapping refreshes.                                                   *)

(* The refreshes that hold t or have spent it: its session is to be revoked, *)
(* or has been and theirs is to be inserted, or has been.                   *)
Spending(r, t) == using[r] = t /\ (pc[r] = "session" \/ session[r] # "none")

Holders(t) == Exchanging(t) \cup {r \in Refreshes : Spending(r, t)}

(* What the history measures is finite.                                     *)
LEMMA HoldersFinite ==
  ASSUME NEW t \in Issuers
  PROVE  /\ IsFiniteSet(Holders(t)) /\ IsFiniteSet(Holders(t)')
         /\ IsFiniteSet(Exchanging(t)) /\ IsFiniteSet(Exchanging(t)')
<1>1. /\ Holders(t) \subseteq Refreshes /\ Holders(t)' \subseteq Refreshes
      /\ Exchanging(t) \subseteq Refreshes /\ Exchanging(t)' \subseteq Refreshes
  BY DEF Holders, Exchanging, Holding
<1> QED
  BY <1>1, RefreshOverlapAssumption, FS_Subset

(* Only Revoke brings a refresh to its insert, only StartRefresh to its     *)
(* update, and each of them leaves the others alone.                        *)
LEMMA RefreshStep ==
  ASSUME IInv, [Next]_vars, NEW r \in Refreshes, using'[r] = using[r]
  PROVE  /\ pc'[r] = "revoke" => pc[r] = "revoke"
         /\ pc'[r] = "session" => pc[r] \in {"revoke", "session"}
         /\ session'[r] # "none" => session[r] # "none" \/ pc[r] = "session"
<1> USE Sets DEF IInv, database, signed, requests, vars
<1>0. /\ pc \in [Requests -> Steps] /\ using \in [Bearers -> Issuers \cup {NoToken}]
      /\ session \in [Issuers -> {"none", "live", "revoked"}]
      /\ r \in Requests /\ r \in Bearers /\ r \in Issuers
      /\ r \notin Registers /\ r \notin Logins /\ r \notin Calls /\ r \notin Logouts
  BY SessionsAssumption DEF TypeOK
<1>1. ASSUME NEW b \in Refreshes, NEW t \in Issuers, StartRefresh(b, t), b = r PROVE FALSE
  BY <1>0, <1>1, SessionsAssumption DEF StartRefresh, Accept, Order
<1>2. ASSUME NEW b \in Refreshes \cup Logouts, Revoke(b)
      PROVE  session'[r] # "none" => session[r] # "none"
  BY <1>0, <1>2 DEF Revoke, SetRevoked, InUse
<1>3. ASSUME NEW b \in Issuers, CreateSession(b)
      PROVE  session'[r] # "none" => session[r] # "none" \/ pc[r] = "session"
  BY <1>0, <1>3 DEF CreateSession, InsertSession
<1>4. session'[r] # "none" => session[r] # "none" \/ pc[r] = "session"
  BY <1>2, <1>3 DEF Next, Arrive, Step, Surroundings, CheckEmail, CheckName, CreateUser, FindUser,
     StampLogin, Unauthenticated, Refuse, Call, StartLogout, StartRefresh, Promote, QueryFails, Crash
<1>5. /\ pc'[r] = "revoke" => pc[r] = "revoke"
      /\ pc'[r] = "session" => pc[r] \in {"revoke", "session"}
  BY <1>0, <1>1 DEF Next, Arrive, Step, Surroundings, CheckEmail, CheckName, CreateUser, FindUser,
     CreateSession, StampLogin, Unauthenticated, Refuse, Call, StartLogout, StartRefresh, Revoke,
     Promote, QueryFails, Crash, Accept, Goto, Finish
<1> QED
  BY <1>4, <1>5

(* A refresh gets hold of t only while t is live, and t stays so.           *)
LEMMA HoldersStep ==
  ASSUME IInv, [Next]_vars, NEW t \in Issuers
  PROVE  Holders(t)' \subseteq Holders(t) \/ session'[t] # "revoked"
<1>1. SUFFICES ASSUME NEW r \in Refreshes, r \in Holders(t)', r \notin Holders(t)
               PROVE  session'[t] # "revoked"
  BY DEF Holders, Exchanging, Holding
<1>2. using'[r] = t /\ (pc'[r] \in {"revoke", "session"} \/ session'[r] # "none")
  BY <1>1 DEF Holders, Exchanging, Holding, Spending
<1>3. using'[r] # using[r]
  BY <1>1, <1>2, RefreshStep DEF Holders, Exchanging, Holding, Spending
<1>4. session[t] = "live"
  BY <1>2, <1>3, AcceptedLive, Sets
<1>5. UNCHANGED session
  BY <1>3 DEF vars, requests, database, Next, Arrive, Step, Surroundings, CheckEmail, CheckName,
     CreateUser, FindUser, CreateSession, StampLogin, Unauthenticated, Refuse, Call, StartLogout,
     StartRefresh, Revoke, Promote, QueryFails, Crash
<1> QED
  BY <1>4, <1>5

(* As many refreshes have held t at once as hold it or have spent it.       *)
HoldersInv ==
  /\ contended \in [Issuers -> Nat]
  /\ \A t \in Issuers : Cardinality(Holders(t)) <= contended[t]

(* The history only grows, and takes in each new state.                     *)
LEMMA ContendedStep ==
  ASSUME HoldersInv, OverlapNext
  PROVE  /\ contended' \in [Issuers -> Nat]
         /\ \A t \in Issuers :
              contended'[t] >= contended[t] /\ Cardinality(Exchanging(t)') <= contended'[t]
<1>1. \A t \in Issuers : Cardinality(Exchanging(t)') \in Nat
  BY HoldersFinite, FS_CardinalityType
<1>2. \A t \in Issuers : contended'[t] = AtLeast(contended[t], Cardinality(Exchanging(t)'))
  BY DEF OverlapNext
<1>3. \A t \in Issuers :
        /\ contended'[t] \in Nat /\ contended'[t] >= contended[t]
        /\ Cardinality(Exchanging(t)') <= contended'[t]
  BY <1>1, <1>2 DEF HoldersInv, AtLeast
<1> QED
  BY <1>3 DEF OverlapNext

(* The bound survives every step.                                           *)
LEMMA HoldersInvStep ==
  ASSUME IInv, HoldersInv, OverlapNext
  PROVE  HoldersInv'
<1>1. IInv' /\ [Next]_vars
  BY InvStep DEF OverlapNext
<1>2. ASSUME NEW t \in Issuers PROVE Cardinality(Holders(t)') <= contended'[t]
  <2>1. CASE session'[t] # "revoked"  \* nobody has spent t yet
    <3>1. Holders(t)' = Exchanging(t)'
      BY <1>1, <2>1, Sets DEF IInv, Spent, Holders, Spending
    <3> QED
      BY <3>1, ContendedStep
  <2>2. CASE Holders(t)' \subseteq Holders(t)
    <3>1. /\ Cardinality(Holders(t)') <= Cardinality(Holders(t))
          /\ Cardinality(Holders(t)') \in Nat /\ Cardinality(Holders(t)) \in Nat
      BY <2>2, HoldersFinite, FS_Subset, FS_CardinalityType
    <3> QED
      BY <3>1, ContendedStep DEF HoldersInv
  <2> QED
    BY <1>1, <2>1, <2>2, HoldersStep
<1> QED
  BY <1>2, ContendedStep DEF HoldersInv

(* refreshTokens reads the session, and revokes it in a query of its own: a *)
(* refresh token is exchanged no more often than refreshes held it at once, *)
(* for any number of refreshes, logouts and failures in any order.          *)
THEOREM SuccessorsAreBounded == OverlapSpec => []SuccessorsBounded
<1>1. OverlapSpec => []IInv
  <2>1. OverlapInit => Init
    BY DEF OverlapInit
  <2>2. [OverlapNext]_<<vars, overlap>> => [Next]_vars
    BY DEF OverlapNext
  <2> QED
    BY <2>1, <2>2, Initially, InvStep, PTL DEF OverlapSpec
<1>2. OverlapInit => HoldersInv
  <2>1. OverlapInit => \A t \in Issuers : Holders(t) = {}
    BY Sets DEF OverlapInit, Init, Holders, Exchanging, Holding, Spending
  <2> QED
    BY <2>1, FS_EmptySet DEF OverlapInit, HoldersInv
<1>3. IInv /\ HoldersInv /\ [OverlapNext]_<<vars, overlap>> => HoldersInv'
  <2>1. IInv /\ HoldersInv /\ UNCHANGED <<vars, overlap>> => HoldersInv'
    BY DEF HoldersInv, Holders, Exchanging, Holding, Spending, vars, overlap, database, requests
  <2> QED
    BY <2>1, HoldersInvStep
<1>4. HoldersInv => SuccessorsBounded
  <2> SUFFICES ASSUME HoldersInv, NEW t \in Issuers
               PROVE  Cardinality(Successors(t)) <= contended[t]
    BY DEF SuccessorsBounded
  <2>1. Successors(t) \subseteq Holders(t)
    BY DEF Successors, Holders, Spending
  <2>2. /\ Cardinality(Successors(t)) <= Cardinality(Holders(t))
        /\ Cardinality(Successors(t)) \in Nat /\ Cardinality(Holders(t)) \in Nat
    BY <2>1, HoldersFinite, FS_Subset, FS_CardinalityType
  <2> QED
    BY <2>2 DEF HoldersInv
<1> QED
  BY <1>1, <1>2, <1>3, <1>4, PTL DEF OverlapSpec

----------------------------------------------------------------------------
(* The refinement of TokenServer.                                           *)

(* A step that gives nobody tokens, and brings no refresh to its exchange,  *)
(* is an End, a stutter included.                                           *)
LEMMA Ending ==
  ASSUME IInv,
         \A t \in Issuers :
           /\ session'[t] = "live" => session[t] = "live" \/ t \in Replacing
           /\ \/ pc'[t] = pc[t] /\ (t \in Refreshes => using'[t] = using[t])
              \/ pc'[t] \in {"stamp", "done"}
              \/ t \notin Refreshes /\ pc[t] \notin {"stamp", "done"}
  PROVE  Server!End
<1>1. Waiting' \subseteq Waiting
  BY DEF Waiting, Replacing
<1>2. Live' \subseteq Live
  BY Sets DEF Live, Replacing
<1>3. \A t \in Issuers : Promised(t)' = IF t \in Waiting' THEN Promised(t) ELSE NoToken
  BY DEF Promised, Waiting, Replacing
<1> QED
  BY <1>1, <1>2, <1>3 DEF Server!End

(* A failure, wherever the request was.                                     *)
LEMMA FailingEnds ==
  ASSUME IInv, NEW r \in Requests, Finish(r, "error"), UNCHANGED <<session, using>>
  PROVE  Server!End
<1>1. pc'[r] = "done" /\ \A q \in Requests \ {r} : pc'[q] = pc[q]
  BY FinishEffect, StepsAndAnswers DEF IInv
<1> QED
  BY <1>1, Ending, Sets

(* A step of a request that issues nothing ends nothing but a session.      *)
LEMMA BearerEnds ==
  ASSUME IInv, NEW b \in Logouts \cup Calls, NEW step \in Steps, NEW answer \in Outcomes,
         Goto(b, step) \/ Finish(b, answer),
         \A r \in Refreshes : using'[r] = using[r],
         \A t \in Issuers : session'[t] = "live" => session[t] = "live"
  PROVE  Server!End
<1>1. b \in Requests /\ b \notin Issuers
  BY Sets
<1>2. \A q \in Requests \ {b} : pc'[q] = pc[q]
  BY <1>1, FinishEffect, GotoEffect DEF IInv
<1> QED
  BY <1>1, <1>2, Ending, Sets

(* A registration or a login obtains its tokens when its row is inserted.   *)
LEMMA InsertingGrants ==
  ASSUME IInv, NEW t \in Issuers \ Refreshes, CreateSession(t)
  PROVE  Server!Grant(t)
<1>1. /\ pc[t] = "session" /\ pc'[t] \in {"stamp", "done"}
      /\ \A q \in Requests \ {t} : pc'[q] = pc[q]
      /\ UNCHANGED using
  BY FinishEffect, GotoEffect, StepsAndAnswers, Sets DEF IInv, CreateSession
<1>2. session'[t] = "live" /\ \A x \in Issuers \ {t} : session'[x] = session[x]
  BY DEF CreateSession, InsertSession, IInv, TypeOK
<1>3. t \in Waiting /\ Waiting' = Waiting \ {t}
  BY <1>1, Sets DEF Waiting, Replacing
<1>4. Live' = Live \cup {t}
  BY <1>1, <1>2, Sets DEF Live, Replacing
<1>5. Promised(t) = NoToken /\ \A x \in Issuers : Promised(x)' = Promised(x)
  BY <1>1, Sets DEF Promised
<1> QED
  BY <1>3, <1>4, <1>5 DEF Server!Grant

(* A refresh has obtained them before.                                      *)
LEMMA InsertingStutters ==
  ASSUME IInv, NEW r \in Refreshes, CreateSession(r)
  PROVE  Server!End
<1>1. pc[r] = "session" /\ pc'[r] = "done" /\ \A q \in Requests \ {r} : pc'[q] = pc[q]
  BY FinishEffect, StepsAndAnswers, Sets, SessionsAssumption DEF IInv, CreateSession, Bearers
<1>2. UNCHANGED using /\ \A x \in Issuers \ {r} : session'[x] = session[x]
  BY DEF CreateSession, InsertSession, IInv, TypeOK
<1> QED
  BY <1>1, <1>2, Ending, Sets DEF Replacing

(* A refresh is promised an exchange when it finds the session live.        *)
LEMMA StartingAccepts ==
  ASSUME IInv, NEW r \in Refreshes, NEW s \in Issuers, StartRefresh(r, s)
  PROVE  Server!Accept(r, s)
<1>1. /\ pc[r] = "idle" /\ pc'[r] = "revoke"
      /\ \A q \in Requests \ {r} : pc'[q] = pc[q]
  BY GotoEffect, StepsAndAnswers, Sets DEF IInv, StartRefresh, Accept
<1>2. /\ session[s] = "live" /\ UNCHANGED session
      /\ using'[r] = s /\ \A b \in Bearers \ {r} : using'[b] = using[b]
  BY Sets DEF StartRefresh, Accept, Valid, database, IInv, TypeOK
<1>3. r \in Waiting /\ Waiting' = Waiting
  BY <1>1, Sets DEF Waiting, Replacing
<1>4. s \in Live /\ Live' = Live
  BY <1>1, <1>2, Sets DEF Live, Replacing
<1>5. /\ Promised(r) = NoToken /\ Promised(r)' = s
      /\ \A t \in Issuers \ {r} : Promised(t)' = Promised(t)
  BY <1>1, <1>2, Sets DEF Promised
<1> QED
  BY <1>3, <1>4, <1>5, Sets DEF Server!Accept

(* It gets its tokens when it revokes the session.                          *)
LEMMA RevokingExchanges ==
  ASSUME IInv, NEW r \in Refreshes, Revoke(r)
  PROVE  Server!Exchange(r)
<1>1. /\ pc[r] = "revoke" /\ pc'[r] = "session" /\ UNCHANGED using
      /\ \A q \in Requests \ {r} : pc'[q] = pc[q]
  BY GotoEffect, StepsAndAnswers, Sets DEF IInv, Revoke
<1>2. /\ using[r] \in Issuers /\ using[r] # r
      /\ session'[using[r]] = "revoked"
      /\ \A x \in Issuers \ {using[r]} : session'[x] = session[x]
  BY <1>1, Sets DEF Revoke, SetRevoked, IInv, TypeOK, InUse, Order
<1>3. r \in Waiting /\ Waiting' = Waiting \ {r}
  BY <1>1, Sets DEF Waiting, Replacing
<1>4. using[r] \notin Replacing
  BY <1>1, Sets DEF Replacing, IInv, InUse, Order
<1>5. Live' = (Live \ {using[r]}) \cup {r}
  BY <1>1, <1>2, <1>4, Sets DEF Live, Replacing
<1>6. /\ Promised(r) = using[r] /\ Promised(r)' = NoToken
      /\ \A t \in Issuers \ {r} : Promised(t)' = Promised(t)
  BY <1>1, Sets DEF Promised
<1> QED
  BY <1>2, <1>3, <1>5, <1>6, Sets, SessionsAssumption DEF Server!Exchange

(* Every step keeps the promise.                                            *)
LEMMA TokenStep == IInv /\ [Next]_vars => [Server!Next]_Server!vars
<1> SUFFICES ASSUME IInv, [Next]_vars PROVE [Server!Next]_Server!vars
  OBVIOUS
<1> USE Sets, StepsAndAnswers DEF Server!Next, database, signed, requests
<1>1. ASSUME NEW r \in Registers, CheckEmail(r) \/ CheckName(r) \/ CreateUser(r) PROVE Server!End
  <2>1. CASE Finish(r, "error")
    BY <1>1, <2>1, FailingEnds DEF CheckEmail, CheckName, CreateUser
  <2>2. ASSUME NEW step \in {"name", "user", "session"}, Goto(r, step) PROVE Server!End
    <3>1. /\ pc[r] \in {"idle", "name", "user"} /\ UNCHANGED <<session, using>>
          /\ \A q \in Requests \ {r} : pc'[q] = pc[q]
      BY <1>1, <2>2, GotoEffect DEF IInv, CheckEmail, CheckName, CreateUser
    <3> QED
      BY <3>1, Ending, SessionsAssumption
  <2> QED
    BY <1>1, <2>1, <2>2 DEF CheckEmail, CheckName, CreateUser
<1>2. ASSUME NEW l \in Logins, NEW e \in Emails, NEW ok \in BOOLEAN, FindUser(l, e, ok)
      PROVE  Server!End
  <2>1. CASE Finish(l, "error")
    BY <1>2, <2>1, FailingEnds DEF FindUser
  <2>2. CASE Goto(l, "session")
    <3>1. /\ pc[l] = "idle" /\ UNCHANGED <<session, using>>
          /\ \A q \in Requests \ {l} : pc'[q] = pc[q]
      BY <1>2, <2>2, GotoEffect DEF IInv, FindUser
    <3> QED
      BY <3>1, Ending, SessionsAssumption
  <2> QED
    BY <1>2, <2>1, <2>2 DEF FindUser
<1>3. ASSUME NEW t \in Issuers, CreateSession(t) PROVE Server!Next
  BY <1>3, InsertingGrants, InsertingStutters
<1>4. ASSUME NEW l \in Logins, StampLogin(l) PROVE Server!End
  <2>1. pc'[l] = "done" /\ UNCHANGED <<session, using>> /\ \A q \in Requests \ {l} : pc'[q] = pc[q]
    BY <1>4, FinishEffect DEF IInv, StampLogin
  <2> QED
    BY <2>1, Ending
<1>5. ASSUME NEW b \in Bearers, Unauthenticated(b) \/ \E t \in Issuers : Refuse(b, t)
      PROVE  Server!End
  BY <1>5, FailingEnds DEF Unauthenticated, Refuse
<1>6. ASSUME NEW c \in Calls, NEW t \in Issuers, NEW adminOnly \in BOOLEAN, Call(c, t, adminOnly)
      PROVE  Server!End
  <2>1. \A r \in Refreshes : using'[r] = using[r]
    BY <1>6 DEF Call, Accept, IInv, TypeOK
  <2> QED
    BY <1>6, <2>1, BearerEnds DEF Call
<1>7. ASSUME NEW o \in Logouts, NEW t \in Issuers, StartLogout(o, t) PROVE Server!End
  <2>1. \A r \in Refreshes : using'[r] = using[r]
    BY <1>7, SessionsAssumption DEF StartLogout, Accept, IInv, TypeOK
  <2> QED
    BY <1>7, <2>1, BearerEnds DEF StartLogout
<1>8. ASSUME NEW r \in Refreshes, NEW t \in Issuers, StartRefresh(r, t) PROVE Server!Next
  BY <1>8, StartingAccepts
<1>9. ASSUME NEW b \in Refreshes \cup Logouts, Revoke(b) PROVE Server!Next
  <2>1. CASE b \in Refreshes
    BY <1>9, <2>1, RevokingExchanges
  <2>2. CASE b \notin Refreshes
    <3>1. \A t \in Issuers : session'[t] = "live" => session[t] = "live"
      BY <1>9 DEF Revoke, SetRevoked, IInv, TypeOK
    <3> QED
      BY <1>9, <2>2, <3>1, BearerEnds DEF Revoke
  <2> QED
    BY <2>1, <2>2
<1>10. ASSUME NEW u \in Registers, Promote(u) PROVE Server!End
  BY <1>10, Ending DEF Promote
<1>11. ASSUME NEW r \in Requests, QueryFails(r) PROVE Server!End
  BY <1>11, FailingEnds DEF QueryFails
<1>12. ASSUME Crash PROVE Server!End
  <2>1. /\ \A q \in Requests : pc'[q] = pc[q] \/ pc'[q] = "done"
        /\ UNCHANGED <<session, using>>
    BY <1>12 DEF Crash, IInv, TypeOK
  <2> QED
    BY <2>1, Ending
<1>13. CASE UNCHANGED vars
  BY <1>13, Ending DEF vars
<1> QED
  BY <1>1, <1>2, <1>3, <1>4, <1>5, <1>6, <1>7, <1>8, <1>9, <1>10, <1>11, <1>12, <1>13
     DEF Next, Arrive, Step, Surroundings

(* A rotation takes a query to revoke the old session and a query to store  *)
(* the new one, other requests come between, and either may fail: for those *)
(* who hold tokens it is a single exchange, for any number of requests.     *)
THEOREM TokenPromiseKept == Spec => KeepsTokenPromise
<1>1. Init => Server!Init
  <2> SUFFICES ASSUME Init PROVE Server!Init
    OBVIOUS
  <2>1. Waiting \subseteq Issuers /\ Live = {}
    BY Sets DEF Init, Waiting, Live, Replacing
  <2>2. \A t \in Issuers : Promised(t) = NoToken
    BY Sets DEF Init, Promised
  <2> QED
    BY <2>1, <2>2 DEF Server!Init
<1> QED
  BY <1>1, TokenStep, Invariance, PTL DEF Spec, KeepsTokenPromise, Server!Spec

----------------------------------------------------------------------------
(* Logins whose tokens do not overlap.                                      *)

(* Tokens go back to a registration or a login that has a session; those    *)
(* that were held have one, too.                                            *)
Origins ==
  /\ origin \in [Issuers -> Issuers]
  /\ \A t \in Issuers \ Refreshes : origin[t] = t
  /\ \A r \in Refreshes : pc[r] = "revoke" => origin[r] = origin[using[r]]
  /\ \A t \in Issuers :
       session[t] # "none" \/ (t \in Refreshes /\ pc[t] \in {"revoke", "session"}) =>
         origin[t] \in Issuers \ Refreshes /\ session[origin[t]] # "none"
  /\ \A t \in overlapped : t \in Issuers /\ session[t] # "none"

(* A refresh takes hold of a token only when it starts.                     *)
LEMMA UsingStep ==
  ASSUME IInv, [Next]_vars, NEW r \in Refreshes, using'[r] # using[r]
  PROVE  \E t \in Issuers : StartRefresh(r, t)
<1>1. r \in Bearers /\ r \notin Calls /\ r \notin Logouts /\ using \in [Bearers -> Issuers \cup {NoToken}]
  BY SessionsAssumption, Sets DEF IInv, TypeOK
<1> QED
  BY <1>1 DEF Next, Arrive, Step, Surroundings, CheckEmail, CheckName, CreateUser, FindUser,
     CreateSession, StampLogin, Unauthenticated, Refuse, Call, StartLogout, StartRefresh, Revoke,
     Promote, QueryFails, Crash, Accept, vars, requests

(* What a refresh leaves behind when it starts, and what it finds.          *)
LEMMA Starting ==
  ASSUME IInv, NEW b \in Refreshes \cup Logouts, NEW t \in Issuers,
         StartRefresh(b, t) \/ StartLogout(b, t)
  PROVE  /\ pc[b] = "idle" /\ pc'[b] = "revoke" /\ using'[b] = t
         /\ session[t] = "live" /\ UNCHANGED <<session, outcome>>
         /\ \A q \in Requests \ {b} : pc'[q] = pc[q]
         /\ \A c \in Bearers \ {b} : using'[c] = using[c]
         /\ b \in Refreshes => session[b] = "none" /\ using[b] = NoToken
<1>1. b \in Bearers /\ b \in Requests /\ Goto(b, "revoke") /\ Accept(b, t) /\ UNCHANGED session
  BY Sets DEF StartRefresh, StartLogout, database
<1>2. using'[b] = t /\ \A c \in Bearers \ {b} : using'[c] = using[c]
  BY <1>1 DEF Accept, IInv, TypeOK
<1>3. pc[b] = "idle" /\ session[t] = "live"
  BY <1>1 DEF Accept, Valid
<1>4. b \in Refreshes => session[b] = "none" /\ using[b] = NoToken
  BY <1>1, <1>3, Sets DEF IInv, Order
<1> QED
  BY <1>1, <1>2, <1>3, <1>4, GotoEffect, StepsAndAnswers DEF IInv

(* Nothing else changes what is remembered of a token.                      *)
LEMMA OriginStep ==
  ASSUME IInv, Origins, OverlapNext
  PROVE  /\ origin' \in [Issuers -> Issuers]
         /\ \A t \in Issuers :
              \/ origin'[t] = origin[t]
              \/ t \in Refreshes /\ \E s \in Issuers : StartRefresh(t, s) /\ origin'[t] = origin[s]
<1>1. [Next]_vars
  BY DEF OverlapNext
<1>2. ASSUME NEW t \in Issuers
      PROVE  /\ origin'[t] \in Issuers
             /\ \/ origin'[t] = origin[t]
                \/ t \in Refreshes /\ \E s \in Issuers : StartRefresh(t, s) /\ origin'[t] = origin[s]
  <2>1. CASE t \in Refreshes /\ using'[t] # using[t]
    <3>1. PICK s \in Issuers : StartRefresh(t, s)
      BY <1>1, <2>1, UsingStep
    <3>2. using'[t] = s
      BY <2>1, <3>1, Starting
    <3> QED
      BY <2>1, <3>1, <3>2 DEF OverlapNext, Origins
  <2>2. CASE ~(t \in Refreshes /\ using'[t] # using[t])
    BY <2>2 DEF OverlapNext, Origins
  <2> QED
    BY <2>1, <2>2
<1> QED
  BY <1>2 DEF OverlapNext

(* Held tokens have sessions.                                               *)
LEMMA HeldExists ==
  ASSUME IInv, NEW t \in Issuers, Holding(t) # {}
  PROVE  session[t] # "none"
BY DEF IInv, InUse, Holding

(* A session that exists is not lost.                                       *)
LEMMA RowsStay ==
  ASSUME IInv, [Next]_vars, NEW t \in Issuers, session[t] # "none"
  PROVE  session'[t] # "none"
<1>1. ASSUME NEW x \in Issuers, CreateSession(x) PROVE session'[t] # "none"
  BY <1>1 DEF CreateSession, InsertSession, IInv, TypeOK
<1>2. ASSUME NEW b \in Refreshes \cup Logouts, Revoke(b) PROVE session'[t] # "none"
  BY <1>2 DEF Revoke, SetRevoked, IInv, TypeOK
<1> QED
  BY <1>1, <1>2 DEF vars, database, Next, Arrive, Step, Surroundings, CheckEmail, CheckName,
     CreateUser, FindUser, StampLogin, Unauthenticated, Refuse, Call, StartLogout, StartRefresh,
     Promote, QueryFails, Crash

(* The origins survive every step.                                          *)
LEMMA OriginsStep ==
  ASSUME IInv, Origins, OverlapNext
  PROVE  Origins'
<1>0. IInv' /\ [Next]_vars
  BY InvStep DEF OverlapNext
<1>1. \A t \in Issuers :
        session[t] # "none" \/ pc[t] \in {"revoke", "session"} => origin'[t] = origin[t]
  BY OriginStep, Starting
<1>2. \A t \in Issuers \ Refreshes : origin'[t] = t
  BY OriginStep DEF Origins
<1>3. ASSUME NEW r \in Refreshes, pc'[r] = "revoke" PROVE origin'[r] = origin'[using'[r]]
  <2>1. CASE using'[r] = using[r]
    <3>1. pc[r] = "revoke"
      BY <1>0, <1>3, <2>1, RefreshStep
    <3>2. using[r] \in Issuers /\ session[using[r]] # "none"
      BY <3>1 DEF IInv, InUse
    <3> QED
      BY <1>1, <2>1, <3>1, <3>2, Sets DEF Origins
  <2>2. CASE using'[r] # using[r]
    <3>1. PICK s \in Issuers : StartRefresh(r, s)
      BY <1>0, <2>2, UsingStep
    <3>2. using'[r] = s /\ session[s] = "live"
      BY <3>1, Starting
    <3> QED
      BY <1>1, <2>2, <3>2, Sets DEF OverlapNext
  <2> QED
    BY <2>1, <2>2
<1>4. ASSUME NEW t \in Issuers,
             session'[t] # "none" \/ (t \in Refreshes /\ pc'[t] \in {"revoke", "session"})
      PROVE  origin'[t] \in Issuers \ Refreshes /\ session'[origin'[t]] # "none"
  <2>1. CASE t \notin Refreshes
    BY <1>2, <1>4, <2>1
  <2>2. CASE t \in Refreshes /\ using'[t] = using[t]
    <3>1. session[t] # "none" \/ pc[t] \in {"revoke", "session"}
      BY <1>0, <1>4, <2>2, RefreshStep
    <3>2. origin[t] \in Issuers \ Refreshes /\ session[origin[t]] # "none"
      BY <2>2, <3>1 DEF Origins
    <3> QED
      BY <1>0, <1>1, <3>1, <3>2, RowsStay
  <2>3. CASE t \in Refreshes /\ using'[t] # using[t]
    <3>1. PICK s \in Issuers : StartRefresh(t, s)
      BY <1>0, <2>3, UsingStep
    <3>2. using'[t] = s /\ session[s] = "live"
      BY <2>3, <3>1, Starting
    <3>3. origin'[t] = origin[s]
      BY <2>3, <3>2 DEF OverlapNext
    <3> QED
      BY <1>0, <3>2, <3>3, RowsStay DEF Origins
  <2> QED
    BY <2>1, <2>2, <2>3
<1>5. ASSUME NEW t \in overlapped' PROVE t \in Issuers /\ session'[t] # "none"
  <2>1. CASE t \in overlapped
    BY <1>0, <2>1, RowsStay DEF Origins
  <2>2. CASE t \in Issuers /\ Holding(t)' # {}
    BY <1>0, <2>2 DEF IInv, InUse, Holding
  <2> QED
    BY <2>1, <2>2 DEF OverlapNext
<1> QED
  BY <1>2, <1>3, <1>4, <1>5, OriginStep DEF Origins

(* A login whose tokens have not overlapped so far did not before.          *)
LEMMA OrderlyBefore ==
  ASSUME IInv, Origins, OverlapNext, NEW g, Orderly(g)'
  PROVE  Orderly(g)
<1>1. \A t \in overlapped : t \in overlapped' /\ origin'[t] = origin[t]
  BY OriginStep, Starting DEF Origins, OverlapNext
<1> QED
  BY <1>1 DEF Orderly

(* Of an orderly login one session at most is live (Live counts the one     *)
(* that a refresh is about to insert) and one request at most is about to   *)
(* revoke one, which is that one; after a logout there is neither.          *)
SingleSession ==
  \A s, t \in Live : origin[s] = origin[t] /\ Orderly(origin[t]) => s = t

HolderMeansLive ==
  \A s \in Live, t \in Issuers :
    origin[s] = origin[t] /\ Orderly(origin[t]) /\ Holding(t) # {} => s = t

SingleHolder ==
  \A s, t \in Issuers : \A b \in Holding(s), c \in Holding(t) :
    origin[s] = origin[t] /\ Orderly(origin[t]) => b = c

LoggedOut ==
  \A o \in Logouts, t \in Issuers :
    outcome[o] = "ok" /\ origin[t] = origin[using[o]] /\ Orderly(origin[t]) =>
      t \notin Live /\ Holding(t) = {}

OrderlyInv == SingleSession /\ HolderMeansLive /\ SingleHolder /\ LoggedOut

(* A logout that was answered named a session that exists.                  *)
LEMMA LogoutNames ==
  ASSUME IInv, NEW o \in Logouts, outcome[o] = "ok"
  PROVE  using[o] \in Issuers /\ session[using[o]] # "none"
BY DEF IInv, Spent

(* A step by which nobody is given tokens, starts or is answered a logout.  *)
Quiet ==
  /\ Live' \subseteq Live
  /\ \A r \in Refreshes : using'[r] = using[r]
  /\ \A b \in Refreshes \cup Logouts :
       pc'[b] = "revoke" => pc[b] = "revoke" /\ using'[b] = using[b]
  /\ \A o \in Logouts : outcome'[o] = "ok" => outcome[o] = "ok" /\ using'[o] = using[o]

LEMMA QuietKeeps ==
  ASSUME IInv, Origins, OrderlyInv, OverlapNext, Quiet
  PROVE  OrderlyInv'
<1>1. origin' = origin
  BY DEF OverlapNext, Origins, Quiet
<1>2. \A g : Orderly(g)' => Orderly(g)
  BY OrderlyBefore
<1>3. \A t : Holding(t)' \subseteq Holding(t)
  BY DEF Quiet, Holding
<1>4. SingleSession'
  BY <1>1, <1>2 DEF OrderlyInv, SingleSession, Quiet
<1>5. HolderMeansLive'
  BY <1>1, <1>2, <1>3 DEF OrderlyInv, HolderMeansLive, Quiet
<1>6. SingleHolder'
  BY <1>1, <1>2, <1>3 DEF OrderlyInv, SingleHolder
<1>7. LoggedOut'
  BY <1>1, <1>2, <1>3 DEF OrderlyInv, LoggedOut, Quiet
<1> QED
  BY <1>4, <1>5, <1>6, <1>7 DEF OrderlyInv

(* A registration or a login begins a line of tokens of its own.            *)
LEMMA InsertingKeeps ==
  ASSUME IInv, Origins, OrderlyInv, OverlapNext, NEW x \in Issuers \ Refreshes, CreateSession(x)
  PROVE  OrderlyInv'
<1>1. Server!Grant(x)
  BY InsertingGrants
<1>2. /\ Live' = Live \cup {x}
      /\ pc[x] = "session" /\ pc'[x] \in {"stamp", "done"} /\ UNCHANGED using
      /\ \A q \in Requests \ {x} : pc'[q] = pc[q] /\ outcome'[q] = outcome[q]
  BY <1>1, FinishEffect, GotoEffect, StepsAndAnswers, Sets
     DEF IInv, CreateSession, Server!Grant
<1>3. origin' = origin
  BY <1>2 DEF OverlapNext, Origins
<1>4. \A g : Orderly(g)' => Orderly(g)
  BY OrderlyBefore
<1>5. \A t : Holding(t)' = Holding(t)
  BY <1>2, Sets DEF Holding
<1>6. session[x] = "none"
  BY <1>2 DEF IInv, TypeOK, Order
<1>7. \A t \in Issuers : session[t] # "none" \/ t \in Replacing => origin[t] # x
  BY <1>6 DEF Origins, Replacing
<1>8. origin[x] = x /\ \A t \in Live : t \in Issuers /\ origin[t] # x
  BY <1>7, Sets DEF Origins, Live, Replacing
<1>9. \A t \in Issuers : Holding(t) # {} => origin[t] # x
  BY <1>7, HeldExists
<1>10. \A o \in Logouts : outcome'[o] = outcome[o]
                       /\ (outcome[o] = "ok" => using[o] \in Issuers /\ origin[using[o]] # x)
  BY <1>2, <1>7, LogoutNames, Sets
<1>11. SingleSession'
  BY <1>2, <1>3, <1>4, <1>8 DEF OrderlyInv, SingleSession
<1>12. HolderMeansLive'
  BY <1>2, <1>3, <1>4, <1>5, <1>8, <1>9 DEF OrderlyInv, HolderMeansLive
<1>13. SingleHolder'
  BY <1>3, <1>4, <1>5 DEF OrderlyInv, SingleHolder
<1>14. LoggedOut'
  BY <1>2, <1>3, <1>4, <1>5, <1>8, <1>10 DEF OrderlyInv, LoggedOut
<1> QED
  BY <1>11, <1>12, <1>13, <1>14 DEF OrderlyInv

(* A refresh or a logout takes hold of the live session of its login, and   *)
(* of an orderly one nobody else holds it.                                  *)
LEMMA StartingKeeps ==
  ASSUME IInv, Origins, OrderlyInv, OverlapNext, NEW b \in Refreshes \cup Logouts, NEW x \in Issuers,
         StartRefresh(b, x) \/ StartLogout(b, x)
  PROVE  OrderlyInv'
<1>1. /\ pc[b] = "idle" /\ pc'[b] = "revoke" /\ using'[b] = x
      /\ session[x] = "live" /\ UNCHANGED <<session, outcome>>
      /\ \A q \in Requests \ {b} : pc'[q] = pc[q]
      /\ \A c \in Bearers \ {b} : using'[c] = using[c]
      /\ b \in Refreshes => session[b] = "none" /\ using[b] = NoToken
  BY Starting
<1>2. \A g : Orderly(g)' => Orderly(g)
  BY OrderlyBefore
<1>3. Live' = Live /\ x \in Live
  BY <1>1, Sets DEF Live, Replacing
<1>4. \A t \in Issuers : session[t] # "none" \/ t \in Replacing => origin'[t] = origin[t]
  BY OriginStep, Starting DEF Replacing
<1>5. \A t \in Live : t \in Issuers /\ origin'[t] = origin[t]
  BY <1>4, Sets DEF Live, Replacing
<1>6. \A t : t # x => Holding(t)' = Holding(t)
  BY <1>1, Sets DEF Holding
<1>7. Holding(x)' = Holding(x) \cup {b} /\ b \notin Holding(x)
  BY <1>1, Sets DEF Holding
<1>8. \A t \in Issuers : Holding(t)' # {} => origin'[t] = origin[t]
  BY <1>1, <1>4, <1>6, HeldExists
<1>9. Orderly(origin[x])' => Holding(x) = {}
  <2>1. Holding(x) # {} => x \in overlapped'
    BY <1>7 DEF OverlapNext
  <2> QED
    BY <1>3, <1>5, <2>1 DEF Orderly
<1>10. \A t \in Issuers :
         origin[t] = origin[x] /\ Orderly(origin[x])' /\ Holding(t) # {} => FALSE
  BY <1>2, <1>3, <1>5, <1>9 DEF OrderlyInv, HolderMeansLive
<1>11. SingleSession'
  BY <1>2, <1>3, <1>5 DEF OrderlyInv, SingleSession
<1>12. HolderMeansLive'
  <2> SUFFICES ASSUME NEW s \in Live', NEW t \in Issuers,
                      origin'[s] = origin'[t], Orderly(origin[t])', Holding(t)' # {}
               PROVE  s = t
    BY DEF HolderMeansLive
  <2>1. s \in Live /\ origin[s] = origin[t] /\ origin'[t] = origin[t]
    BY <1>3, <1>5, <1>8
  <2>2. Orderly(origin[t])
    BY <1>2, <2>1
  <2>3. CASE t = x
    BY <1>3, <2>1, <2>2, <2>3 DEF OrderlyInv, SingleSession
  <2>4. CASE t # x
    BY <1>6, <2>1, <2>2, <2>4 DEF OrderlyInv, HolderMeansLive
  <2> QED
    BY <2>3, <2>4
<1>13. SingleHolder'
  <2> SUFFICES ASSUME NEW s \in Issuers, NEW t \in Issuers, NEW c \in Holding(s)', NEW d \in Holding(t)',
                      origin'[s] = origin'[t], Orderly(origin[t])'
               PROVE  c = d
    BY DEF SingleHolder
  <2>1. origin[s] = origin[t] /\ origin'[s] = origin[s] /\ origin'[t] = origin[t]
    BY <1>8
  <2>2. CASE c \in Holding(s) /\ d \in Holding(t)
    BY <1>2, <2>1, <2>2 DEF OrderlyInv, SingleHolder
  <2>3. CASE s = x /\ t = x
    BY <1>7, <1>9, <2>1, <2>3
  <2>4. CASE s = x /\ t # x
    BY <1>6, <1>10, <2>1, <2>4
  <2>5. CASE s # x /\ t = x
    BY <1>6, <1>10, <2>1, <2>5
  <2> QED
    BY <1>6, <2>2, <2>3, <2>4, <2>5
<1>14. LoggedOut'
  <2> SUFFICES ASSUME NEW o \in Logouts, NEW t \in Issuers, outcome'[o] = "ok",
                      origin'[t] = origin'[using'[o]], Orderly(origin[t])'
               PROVE  t \notin Live' /\ Holding(t)' = {}
    BY DEF LoggedOut
  <2>1. outcome[o] = "ok" /\ using'[o] = using[o] /\ using[o] \in Issuers
        /\ origin'[using[o]] = origin[using[o]]
    <3>1. outcome[o] = "ok" /\ o # b
      BY <1>1, Sets DEF IInv, Order
    <3> QED
      BY <1>1, <1>4, <3>1, LogoutNames, Sets
  <2>2. CASE t \in Live' \/ Holding(t)' # {}
    <3>1. origin'[t] = origin[t]
      BY <1>3, <1>5, <1>8, <2>2
    <3>2. t \notin Live /\ Holding(t) = {}
      BY <1>2, <2>1, <3>1 DEF OrderlyInv, LoggedOut
    <3> QED
      BY <1>3, <1>6, <2>2, <3>2
  <2> QED
    BY <2>2
<1> QED
  BY <1>11, <1>12, <1>13, <1>14 DEF OrderlyInv

(* Whoever revokes the live session of an orderly login is the only one to  *)
(* hold it, so a refresh puts its own in the place of the only one, and a   *)
(* logout nothing.                                                          *)
LEMMA RevokingKeeps ==
  ASSUME IInv, Origins, OrderlyInv, OverlapNext, NEW b \in Refreshes \cup Logouts, Revoke(b)
  PROVE  OrderlyInv'
<1> DEFINE x == using[b]
<1>1. /\ pc[b] = "revoke" /\ x \in Issuers /\ session[x] # "none" /\ UNCHANGED using
      /\ pc'[b] # "revoke"
      /\ \A q \in Requests \ {b} : pc'[q] = pc[q] /\ outcome'[q] = outcome[q]
      /\ b \in Refreshes => outcome' = outcome
  BY FinishEffect, GotoEffect, StepsAndAnswers, Sets DEF IInv, Revoke, InUse
<1>2. origin' = origin
  BY <1>1 DEF OverlapNext, Origins
<1>3. \A g : Orderly(g)' => Orderly(g)
  BY OrderlyBefore
<1>4. \A t : Holding(t)' = Holding(t) \ {b}
  BY <1>1, Sets DEF Holding
<1>5. b \in Holding(x)
  BY <1>1 DEF Holding
<1>6. CASE b \in Refreshes
  <2>1. Live' = (Live \ {x}) \cup {b} /\ origin[b] = origin[x] /\ b \in Issuers
    <3>1. Promised(b) = x
      BY <1>1, <1>6 DEF Promised
    <3> QED
      BY <1>1, <1>6, <3>1, RevokingExchanges, Sets DEF Server!Exchange, Origins
  <2>2. SingleSession'
    BY <1>2, <1>3, <1>5, <2>1, <1>1 DEF OrderlyInv, SingleSession, HolderMeansLive
  <2>3. HolderMeansLive'
    BY <1>1, <1>2, <1>3, <1>4, <1>5, <2>1 DEF OrderlyInv, HolderMeansLive, SingleHolder
  <2>4. LoggedOut'
    BY <1>1, <1>2, <1>3, <1>4, <1>5, <1>6, <2>1 DEF OrderlyInv, LoggedOut
  <2>5. SingleHolder'
    BY <1>2, <1>3, <1>4 DEF OrderlyInv, SingleHolder
  <2> QED
    BY <2>2, <2>3, <2>4, <2>5 DEF OrderlyInv
<1>7. CASE b \notin Refreshes
  <2>1. Live' = Live \ {x}
    BY <1>1, <1>7, Sets DEF Revoke, SetRevoked, Live, Replacing, IInv, TypeOK, InUse, Order
  <2>2. SingleSession'
    BY <1>2, <1>3, <2>1 DEF OrderlyInv, SingleSession
  <2>3. HolderMeansLive'
    BY <1>2, <1>3, <1>4, <2>1 DEF OrderlyInv, HolderMeansLive
  <2>4. SingleHolder'
    BY <1>2, <1>3, <1>4 DEF OrderlyInv, SingleHolder
  <2>5. LoggedOut'
    <3> SUFFICES ASSUME NEW o \in Logouts, NEW t \in Issuers, outcome'[o] = "ok",
                        origin[t] = origin[using[o]], Orderly(origin[t])
                 PROVE  t \notin Live' /\ Holding(t)' = {}
      BY <1>1, <1>2, <1>3 DEF LoggedOut
    <3>1. CASE o = b
      <4>1. \A s \in Live : origin[s] = origin[t] => s = x
        BY <1>1, <1>5, <3>1 DEF OrderlyInv, HolderMeansLive
      <4>2. \A c \in Holding(t) : c = b
        BY <1>1, <1>5, <3>1 DEF OrderlyInv, SingleHolder
      <4> QED
        BY <1>4, <2>1, <4>1, <4>2
    <3>2. CASE o # b
      BY <1>1, <1>4, <2>1, <3>2, Sets DEF OrderlyInv, LoggedOut
    <3> QED
      BY <3>1, <3>2
  <2> QED
    BY <2>2, <2>3, <2>4, <2>5 DEF OrderlyInv
<1> QED
  BY <1>6, <1>7

(* All other steps are quiet.                                               *)
LEMMA OtherwiseQuiet ==
  ASSUME IInv, [Next]_vars,
         \A t \in Issuers \ Refreshes : ~CreateSession(t),
         \A b \in Refreshes \cup Logouts : ~Revoke(b),
         \A r \in Refreshes, t \in Issuers : ~StartRefresh(r, t),
         \A o \in Logouts, t \in Issuers : ~StartLogout(o, t)
  PROVE  Quiet
<1> USE Sets, StepsAndAnswers DEF IInv, TypeOK
<1>1. \A b \in Refreshes \cup Logouts :
        b \in Requests /\ b \in Bearers /\ b \notin Registers \cup Logins \cup Calls
  BY SessionsAssumption
<1>2. \A t \in Issuers : session'[t] = "live" => session[t] = "live" \/ t \in Replacing
  <2>1. ASSUME NEW x \in Refreshes, CreateSession(x), NEW t \in Issuers, session'[t] = "live"
        PROVE  session[t] = "live" \/ t \in Replacing
    BY <2>1 DEF CreateSession, InsertSession, Replacing
  <2> QED
    BY <2>1 DEF vars, database, Next, Arrive, Step, Surroundings, CheckEmail, CheckName, CreateUser,
       FindUser, StampLogin, Unauthenticated, Refuse, Call, Promote, QueryFails, Crash
<1>3. \A b \in Refreshes \cup Logouts : using'[b] = using[b]
  <2>1. ASSUME NEW c \in Calls, NEW t \in Issuers, Accept(c, t)
        PROVE  \A b \in Refreshes \cup Logouts : using'[b] = using[b]
    BY <1>1, <2>1 DEF Accept
  <2> QED
    BY <2>1 DEF vars, requests, Next, Arrive, Step, Surroundings, CheckEmail, CheckName, CreateUser,
       FindUser, CreateSession, StampLogin, Unauthenticated, Refuse, Call, Promote, QueryFails, Crash
<1>4. \A b \in Refreshes \cup Logouts :
        \/ pc'[b] = pc[b] /\ outcome'[b] = outcome[b]
        \/ pc'[b] = "done" /\ (b \in Logouts => outcome'[b] # "ok")
  <2> SUFFICES ASSUME NEW b \in Refreshes \cup Logouts
               PROVE  \/ pc'[b] = pc[b] /\ outcome'[b] = outcome[b]
                      \/ pc'[b] = "done" /\ (b \in Logouts => outcome'[b] # "ok")
    OBVIOUS
  <2>1. ASSUME NEW r \in Requests, Finish(r, "error")
        PROVE  \/ pc'[b] = pc[b] /\ outcome'[b] = outcome[b]
               \/ pc'[b] = "done" /\ outcome'[b] # "ok"
    BY <1>1, <2>1 DEF Finish
  <2>2. ASSUME NEW r \in Registers \cup Logins \cup Calls,
               (\E answer : Finish(r, answer)) \/ (\E to : Goto(r, to))
        PROVE  pc'[b] = pc[b] /\ outcome'[b] = outcome[b]
    BY <1>1, <2>2 DEF Finish, Goto
  <2>3. ASSUME NEW r \in Refreshes, Finish(r, "ok")
        PROVE  \/ pc'[b] = pc[b] /\ outcome'[b] = outcome[b]
               \/ pc'[b] = "done" /\ (b \in Logouts => outcome'[b] # "ok")
    BY <1>1, <2>3, SessionsAssumption DEF Finish
  <2>4. ASSUME Crash
        PROVE  \/ pc'[b] = pc[b] /\ outcome'[b] = outcome[b]
               \/ pc'[b] = "done" /\ outcome'[b] # "ok"
    BY <1>1, <2>4 DEF Crash
  <2>5. CASE UNCHANGED vars
    BY <2>5 DEF vars, requests
  <2>6. CASE \E u \in Registers : Promote(u)
    BY <2>6 DEF Promote, requests
  <2>7. CASE Arrive
    BY <2>1, <2>2, <2>7 DEF Arrive, CheckEmail, FindUser, Unauthenticated, Refuse, Call
  <2>8. ASSUME NEW r \in Requests, Step(r)
        PROVE  \/ pc'[b] = pc[b] /\ outcome'[b] = outcome[b]
               \/ pc'[b] = "done" /\ (b \in Logouts => outcome'[b] # "ok")
    BY <2>2, <2>3, <2>8 DEF Step, CheckName, CreateUser, CreateSession, StampLogin, Issuers
  <2> QED
    BY <2>1, <2>4, <2>5, <2>6, <2>7, <2>8 DEF Next, Surroundings, QueryFails
<1>5. Live' \subseteq Live
  BY <1>2, <1>4 DEF Live, Replacing
<1> QED
  BY <1>3, <1>4, <1>5 DEF Quiet

(* Every step keeps it.                                                     *)
LEMMA OrderlyStep ==
  ASSUME IInv, Origins, OrderlyInv, OverlapNext
  PROVE  OrderlyInv'
<1>1. [Next]_vars
  BY DEF OverlapNext
<1> QED
  BY <1>1, OtherwiseQuiet, QuietKeeps, InsertingKeeps, StartingKeeps, RevokingKeeps

(* What is known of a reachable state, its history included.                *)
LEMMA OverlapInvariance == OverlapSpec => [](IInv /\ Origins /\ OrderlyInv)
<1>1. OverlapInit => IInv /\ Origins /\ OrderlyInv
  <2> SUFFICES ASSUME OverlapInit PROVE IInv /\ Origins /\ OrderlyInv
    OBVIOUS
  <2>1. Init /\ IInv
    BY Initially DEF OverlapInit
  <2>2. Live = {} /\ \A t : Holding(t) = {}
    BY <2>1, Sets DEF Init, Live, Replacing, Holding
  <2>3. Origins
    BY <2>1, Sets DEF OverlapInit, Init, Origins
  <2>4. \A o \in Logouts : outcome[o] # "ok"
    BY <2>1, Sets DEF Init
  <2> QED
    BY <2>1, <2>2, <2>3, <2>4 DEF OrderlyInv, SingleSession, HolderMeansLive, SingleHolder, LoggedOut
<1>2. ASSUME IInv, Origins, OrderlyInv, UNCHANGED <<vars, overlap>>
      PROVE  (IInv /\ Origins /\ OrderlyInv)'
  <2>1. IInv'
    BY <1>2, InvStep DEF vars
  <2>2. Live' = Live /\ \A t : Holding(t)' = Holding(t)
    BY <1>2 DEF vars, database, requests, Live, Replacing, Holding
  <2>3. Origins'
    BY <1>2 DEF vars, overlap, database, requests, Origins
  <2> QED
    BY <1>2, <2>1, <2>2, <2>3 DEF vars, overlap, requests, OrderlyInv, SingleSession,
       HolderMeansLive, SingleHolder, LoggedOut, Orderly
<1>3. ASSUME IInv, Origins, OrderlyInv, OverlapNext
      PROVE  (IInv /\ Origins /\ OrderlyInv)'
  BY <1>3, InvStep, OriginsStep, OrderlyStep DEF OverlapNext
<1> QED
  BY <1>1, <1>2, <1>3, PTL DEF OverlapSpec

(* A token and its successors: while no two requests bring one at the same  *)
(* time, a login has one live session at most, for any number of rotations  *)
(* and failures, wherever they strike.                                      *)
THEOREM OneSession == OverlapSpec => []OneSessionPerLogin
<1>1. IInv /\ OrderlyInv => OneSessionPerLogin
  BY DEF OrderlyInv, SingleSession, Live, OneSessionPerLogin
<1> QED
  BY <1>1, OverlapInvariance, PTL

(* And a logout with any of its tokens ends it for good: what descends from *)
(* the same login is not live when the logout is answered, nor ever after.  *)
THEOREM LogoutIsFinal == OverlapSpec => []LogoutEndsTheLogin
<1>1. IInv /\ OrderlyInv => LogoutEndsTheLogin
  BY DEF OrderlyInv, LoggedOut, Live, LogoutEndsTheLogin
<1> QED
  BY <1>1, OverlapInvariance, PTL
=============================================================================
