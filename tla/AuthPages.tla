----------------------------- MODULE AuthPages ------------------------------
(***************************************************************************)
(* Who the tab believes its user to be, and where that sends him:          *)
(* contexts/AuthContext.tsx, the guards of components/auth, the login,     *)
(* register and settings pages and the Navbar.                             *)
(*                                                                         *)
(* A guard's effect runs right after the render that calls for it, and is  *)
(* part of the action that caused the render; the navigation it starts     *)
(* ends in an action of its own, and a later one takes its place.          *)
(***************************************************************************)
EXTENDS Browser

VARIABLES
  session,    \* the cookies belong to a live session
  role,       \* the user's: "user" or "admin"
  me,         \* the query ["auth", "me"]; null is "nobody"
  path,
  going,      \* where the router is on its way to, or Nothing
  timedOut,   \* of the ProtectedRoute on display
  remembered, \* sessionStorage's redirectAfterLogin, or Nothing
  submitting, \* of the form on display
  logins,     \* the requests of the login and register forms
  logout,     \* the logout on its way
  hook,       \* the state of hooks/useAuth, which the settings page has of its own
  hung,       \* the tab waits for a refresh that nothing settles (module ApiClient)
  loggedOut,  \* a logout was confirmed, and no session has begun since
  faults

where == <<path, going, timedOut, remembered, hook>>

requests == <<submitting, logins, logout>>

vars == <<session, role, me, where, requests, hung, loggedOut, faults>>

(* The dashboard stands for the upload and audit pages too.                 *)
Protected == {"dashboard", "admin"}

Public == {"login", "register"}

Paths == Protected \cup Public \cup {"home", "settings"}

Submissions == 1..MaxLogins

Phases == {"sent", "ok", "failed", "stuck", "over"}

TypeOK ==
  /\ session \in BOOLEAN
  /\ role \in {"user", "admin"}
  /\ me \in Queries({"user", "admin", "nobody"})
  /\ path \in Paths /\ going \in Paths \cup {Nothing}
  /\ timedOut \in BOOLEAN /\ submitting \in BOOLEAN
  /\ hung \in BOOLEAN /\ loggedOut \in BOOLEAN
  /\ remembered \in Protected \cup {Nothing}
  /\ logins \in [Submissions -> [kind : Public, phase : Phases] \cup {Nothing}]
  /\ logout \in Phases
  /\ hook \in {"off", "loading", "stuck", "in", "out"}
  /\ faults \in 0..MaxFaults

Fault == faults < MaxFaults /\ faults' = faults + 1

HookOf(p) == IF p = "settings" THEN "loading" ELSE "off"

Init ==
  /\ session \in BOOLEAN
  /\ role \in {"user", "admin"}
  /\ me = Fetch(NoQuery)
  /\ path \in Paths /\ going = Nothing
  /\ timedOut = FALSE /\ submitting = FALSE
  /\ hung = FALSE /\ loggedOut = FALSE
  /\ remembered = Nothing
  /\ logins = [i \in Submissions |-> Nothing]
  /\ logout = "over"
  /\ hook = HookOf(path)
  /\ faults = 0

----------------------------------------------------------------------------
(* What a render shows, and what its effects do.                            *)

User(q) == q.data \in {"user", "admin"}

(* The guard of page p shows its spinner.                                   *)
Waits(p, q, out) == p \in Protected /\ IsLoading(q) /\ ~out

(* Mutant of Target: PublicRoute does not redirect.                         *)
TargetOfProtected(p, q, out) ==
  CASE p \in Protected /\ ~Waits(p, q, out) /\ ~User(q) -> "login"
    [] p = "admin" /\ ~Waits(p, q, out) /\ q.data = "user" -> "dashboard"
    [] OTHER -> p

(* Where the guard of page p sends the user, p itself if nowhere.           *)
Target(p, q, out) ==
  CASE p \in Protected /\ ~Waits(p, q, out) /\ ~User(q) -> "login"
    [] p = "admin" /\ ~Waits(p, q, out) /\ q.data = "user" -> "dashboard"
    [] p \in Public /\ ~IsLoading(q) /\ User(q) -> "dashboard"
    [] OTHER -> p

(* The effects of the guard of page p, g being the navigation under way.    *)
Effects(p, q, out, g) ==
  LET to == Target(p, q, out)
  IN  /\ going' = IF to = p THEN g ELSE to
      /\ remembered' = IF p \in Protected /\ to = "login" THEN p ELSE remembered

ShowsForm(kind) == path = kind /\ ~(User(me) /\ ~IsLoading(me))

(* The Navbar's links and its logout button.                                *)
Links ==
  {"home"} \cup
  (IF ~User(me) THEN Public
   ELSE {"dashboard"} \cup IF me.data = "admin" THEN {"admin"} ELSE {})

OffersLogout == User(me)

----------------------------------------------------------------------------
(* The query of the user.                                                   *)

(* A request that needs the session is answered, after a refresh if its     *)
(* access token has expired.                                                *)
Works == session /\ UNCHANGED <<hung, faults>>

(* It never settles: there is no session, so that the refresh its 401 leads *)
(* to is refused; or the access token has expired and the refresh that the  *)
(* 401 waits for is one that hangs.                                         *)
Hangs ==
  /\ hung' = TRUE
  /\ \/ ~session /\ UNCHANGED faults
     \/ session /\ hung /\ Fault

(* GET /auth/me                                                             *)
AnswerMe ==
  /\ me.fetch = "sent"
  /\ \/ Works /\ me' = Read(me, role)
     \/ Hangs /\ me' = Stick(me)
  /\ UNCHANGED <<session, role, where, requests, loggedOut>>

(* The answer reaches the cache, and the guard on display acts upon it.     *)
Learn(q) ==
  /\ me' = Take(q)
  /\ IF me'.data = me.data THEN UNCHANGED <<going, remembered>>
     ELSE Effects(path, me', timedOut, going)
  /\ UNCHANGED <<session, role, hung, path, timedOut, hook, requests, loggedOut>>

ReceiveMe == me.fetch = "read" /\ Learn(me) /\ UNCHANGED faults

(* Any error, the timeout of 5 s among them, makes it null.                 *)
LoseMe == Fault /\ me.fetch \in {"sent", "read"} /\ Learn(Read(me, "nobody"))

(* The network comes back after staleTime.                                  *)
Reconnect ==
  /\ Fault
  /\ me.fetch = "idle"
  /\ me' = Fetch(me)
  /\ UNCHANGED <<session, role, hung, where, requests, loggedOut>>

(* The session is revoked elsewhere, or expires.                            *)
SessionEnds ==
  /\ Fault
  /\ session
  /\ session' = FALSE
  /\ UNCHANGED <<role, hung, me, where, requests, loggedOut>>

----------------------------------------------------------------------------
(* Moving about.                                                            *)

(* Page p mounts.                                                           *)
Enter(p) ==
  /\ path' = p
  /\ timedOut' = FALSE
  /\ submitting' = FALSE
  /\ hook' = HookOf(p)

Navigate ==
  /\ going # Nothing
  /\ IF going = path
     THEN going' = Nothing /\ UNCHANGED <<path, timedOut, remembered, submitting, hook>>
     ELSE Enter(going) /\ Effects(going, me, FALSE, Nothing)
  /\ UNCHANGED <<session, role, hung, me, logins, logout, loggedOut, faults>>

Follow(p) ==
  /\ p \in Links \ {path}
  /\ going' = p
  /\ UNCHANGED <<session, role, hung, me, path, timedOut, remembered, hook, requests,
                 loggedOut, faults>>

(* The page is loaded anew: by its address, or by the API client, which     *)
(* goes to /login when a refresh fails on the network.                      *)
Load(p) ==
  /\ Fault
  /\ Enter(p)
  /\ going' = Nothing
  /\ me' = Fetch(NoQuery)
  /\ logins' = [i \in Submissions |->
                  IF logins[i] = Nothing THEN Nothing ELSE [logins[i] EXCEPT !.phase = "over"]]
  /\ logout' = "over"
  /\ hung' = FALSE
  /\ UNCHANGED <<session, role, remembered, loggedOut>>

(* Mutant of TimerFires: the timer of 10 s is cleared by every render.      *)
TimerNeverFires ==
  /\ FALSE
  /\ UNCHANGED vars

(* The 10 s of ProtectedRoute.                                              *)
TimerFires ==
  /\ Waits(path, me, timedOut)
  /\ timedOut' = TRUE
  /\ Effects(path, me, TRUE, going)
  /\ UNCHANGED <<session, role, hung, me, path, hook, requests, loggedOut, faults>>

(* fetchUser of hooks/useAuth, and the settings page's own guard, which has *)
(* no timer.                                                                *)
AnswerHook ==
  /\ hook = "loading"
  /\ \/ Works /\ hook' = "in"
     \/ Hangs /\ hook' = "stuck"
  /\ UNCHANGED <<session, role, me, path, going, timedOut, remembered, requests,
                 loggedOut>>

LoseHook ==
  /\ Fault
  /\ hook = "loading"
  /\ hook' = "out"
  /\ going' = "login"
  /\ UNCHANGED <<session, role, hung, me, path, timedOut, remembered, requests, loggedOut>>

----------------------------------------------------------------------------
(* Logging in and out.                                                      *)

Submit(i, kind) ==
  /\ ShowsForm(kind)
  /\ ~submitting
  /\ \A j \in Submissions : logins[j] = Nothing <=> j >= i
  /\ logins' = [logins EXCEPT ![i] = [kind |-> kind, phase |-> "sent"]]
  /\ submitting' = TRUE
  /\ UNCHANGED <<session, role, hung, me, where, logout, loggedOut, faults>>

InPhase(i, phase) == logins[i] # Nothing /\ logins[i].phase = phase

Turn(i, phase) == logins' = [logins EXCEPT ![i].phase = phase]

(* A session begins, or the form is refused.  A wrong password is a 401,    *)
(* which never settles unless the refresh it leads to finds a session.      *)
AnswerSubmit(i) ==
  /\ InPhase(i, "sent")
  /\ \/ session' = TRUE /\ loggedOut' = FALSE /\ Turn(i, "ok") /\ UNCHANGED hung
     \/ /\ LET hangs == logins[i].kind = "login" /\ (hung \/ ~session)
           IN  Turn(i, IF hangs THEN "stuck" ELSE "failed") /\ hung' = (hung \/ hangs)
        /\ UNCHANGED <<session, loggedOut>>
  /\ UNCHANGED <<role, me, where, submitting, logout, faults>>

LoseSubmit(i) ==
  /\ Fault
  /\ InPhase(i, "sent") \/ InPhase(i, "ok")
  /\ Turn(i, "failed")
  /\ UNCHANGED <<session, role, hung, me, where, submitting, logout, loggedOut>>

(* Mutant of AskAgain: login does not invalidate the query.                 *)
LeaveAlone == me

AskAgain == Invalidate(me, TRUE)

(* onSuccess of the mutation, then the rest of onSubmit, also when the form *)
(* is gone.                                                                 *)
Succeed(i) ==
  /\ InPhase(i, "ok")
  /\ Turn(i, "over")
  /\ me' = AskAgain
  /\ IF logins[i].kind = "login" /\ remembered # Nothing
     THEN going' = remembered /\ remembered' = Nothing
     ELSE going' = "dashboard" /\ UNCHANGED remembered
  /\ submitting' = (submitting /\ path # logins[i].kind)
  /\ UNCHANGED <<session, role, hung, path, timedOut, hook, logout, loggedOut, faults>>

ShowError(i) ==
  /\ InPhase(i, "failed")
  /\ Turn(i, "over")
  /\ submitting' = (submitting /\ path # logins[i].kind)
  /\ UNCHANGED <<session, role, hung, me, where, logout, loggedOut, faults>>

(* handleLogout of the Navbar.                                              *)
Logout ==
  /\ OffersLogout
  /\ logout = "over"
  /\ logout' = "sent"
  /\ UNCHANGED <<session, role, hung, me, where, submitting, logins, loggedOut, faults>>

AnswerLogout ==
  /\ logout = "sent"
  /\ \/ Works /\ logout' = "ok" /\ session' = FALSE
     \/ Hangs /\ logout' = "stuck" /\ UNCHANGED session
  /\ UNCHANGED <<role, me, where, submitting, logins, loggedOut>>

LoseLogout ==
  /\ Fault
  /\ logout \in {"sent", "ok"}
  /\ logout' = "failed"
  /\ UNCHANGED <<session, role, hung, me, where, submitting, logins, loggedOut>>

(* Mutant of Forgotten: the query is only overwritten.                      *)
Overwritten == SetData(me, "nobody")

(* onSettled: the user is null, and is asked for again.                     *)
Forgotten == Invalidate(SetData(me, "nobody"), TRUE)

(* onSettled, whatever the outcome, and the push to /login.                 *)
EndLogout ==
  /\ logout \in {"ok", "failed"}
  /\ logout' = "over"
  /\ loggedOut' = ((loggedOut \/ logout = "ok") /\ ~session)
  /\ me' = Forgotten
  /\ Effects(path, me', timedOut, "login")
  /\ UNCHANGED <<session, role, hung, path, timedOut, hook, submitting, logins, faults>>

----------------------------------------------------------------------------
(* What the browser and the server owe the user.                            *)
Progress ==
  \/ AnswerMe \/ ReceiveMe \/ AnswerHook \/ Navigate
  \/ \E i \in Submissions : AnswerSubmit(i) \/ Succeed(i) \/ ShowError(i)
  \/ AnswerLogout \/ EndLogout

Next ==
  \/ Progress
  \/ TimerFires
  \/ LoseMe \/ Reconnect \/ SessionEnds \/ LoseHook \/ LoseLogout
  \/ Logout
  \/ \E p \in Paths : Follow(p) \/ Load(p)
  \/ \E i \in Submissions : LoseSubmit(i) \/ \E kind \in Public : Submit(i, kind)

Spec == Init /\ [][Next]_vars

(* Requests are answered, navigations end, and the timer fires.             *)
FairSpec ==
  /\ Spec
  /\ WF_vars(AnswerMe) /\ WF_vars(ReceiveMe)
  /\ WF_vars(Navigate) /\ WF_vars(TimerFires)
  /\ \A i \in Submissions : WF_vars(Succeed(i))

----------------------------------------------------------------------------
(* Properties.                                                              *)

(* After a confirmed logout no answer that was on its way brings the user   *)
(* back, until a session begins again.                                      *)
LogoutSticks == loggedOut => ~User(me)

(* requirements.md 4.3: when the router is at rest, a user the tab knows is *)
(* not left at a form he has no use for, whatever order the answer about    *)
(* him, pushes and redirects came in: no guard has missed its turn.         *)
NoFormForUser == going = Nothing /\ User(me) => path \notin Public

(* requirements.md 4.2: a guard decides, even if the server never answers.  *)
GuardDecides == Waits(path, me, timedOut) ~> ~Waits(path, me, timedOut)

(* requirements.md 2.4: after a successful login the tab comes to know its  *)
(* user, unless the session ends or a message is lost.  The code does not   *)
(* keep this in a tab that was opened without a session: its first question *)
(* about the user hangs for ever, and invalidating it does not ask again.   *)
LoginTakesEffect ==
  \A i \in Submissions, n \in 0..MaxFaults :
    InPhase(i, "ok") /\ faults = n ~> User(me) \/ ~session \/ faults > n

(* What is left of it: a tab that has had an answer about its user, a user  *)
(* that has logged out among them, comes to know who has logged in,         *)
(* whatever it asks the server meanwhile and however much of it hangs.      *)
KnownTabLogsIn ==
  \A i \in Submissions, n \in 0..MaxFaults :
    InPhase(i, "ok") /\ faults = n /\ me.data # Nothing
      ~> User(me) \/ ~session \/ faults > n
=============================================================================
