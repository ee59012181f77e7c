----------------------------- MODULE ApiClient ------------------------------
(***************************************************************************)
(* The axios instance every page talks through (frontend/src/lib/api.ts):  *)
(* its response interceptor meets a 401 with a refresh of the cookies, and *)
(* lets the requests that fail meanwhile wait in failedQueue.              *)
(*                                                                         *)
(* Each browser tab loads a copy of the module of its own; the tabs share  *)
(* the cookies.  A handler runs from one await to the next in one turn of  *)
(* the event loop, and is one action.  The server is what it answers: an   *)
(* access token works while it is fresh and its session is live, and a     *)
(* refresh reads the session, then replaces it (module Sessions).  Tokens  *)
(* are named after the request whose refresh or login obtained them.  The  *)
(* browser, not the module, keeps the cookies: it attaches what it has     *)
(* when it sends a request (withCredentials), and takes those of an answer *)
(* before the page hears of it, while other tabs do the same.              *)
(* failedQueue is a set: the requests in it resume in the same turn.       *)
(***************************************************************************)
EXTENDS Naturals

CONSTANTS
  Calls,    \* requests to routes behind authenticate
  Logins,   \* requests POST /auth/login, which answers a wrong password with 401
  Tabs,
  Tab,      \* the tab that makes each request
  First,    \* the tokens the browser may start with
  NoToken,  \* the cookies have expired, or there never were any
  MaxFaults \* bound on faults: messages lost, sessions ended, pages reloaded

Requests == Calls \cup Logins

Tokens == Requests \cup {First}

ASSUME ApiClientAssumption ==
  /\ Calls \cap Logins = {}
  /\ Tab \in [Requests -> Tabs]
  /\ First \notin Requests
  /\ NoToken \notin Tokens
  /\ MaxFaults \in Nat

(* A "ready" request has been made and not been sent; "ok", "unauthorized"  *)
(* (a 401) and "failed" (any other error) are answers on their way; a       *)
(* "gone" request belonged to a page since unloaded.                        *)
Phases == {"idle", "ready", "sent", "ok", "unauthorized", "failed", "queued",
           "refreshing", "resolved", "rejected", "gone"}

(* "read" is a refresh whose session the server has found valid; "taken" is *)
(* one whose answer has set the cookies; "queued" one whose own 401 the     *)
(* interceptor has put into failedQueue.                                    *)
CallPhases == {"none", "ready", "sent", "read", "ok", "taken", "refused", "failed", "queued"}

VARIABLES
  \* the server and the cookies
  live,          \* the tokens whose session is not revoked
  fresh,         \* the live ones whose access token has not expired
  jar,           \* the tokens in the cookies
  \* the requests
  at,            \* where each request stands
  carried,       \* the tokens that a request on its way to the server, or its refresh, carries
  retry,         \* the requests marked _retry
  call,          \* where the POST /auth/refresh made for each request stands
  \* the module's state in each tab
  isRefreshing,  \* the tabs where isRefreshing holds
  failedQueue,   \* the requests in their tab's failedQueue
  leaving,       \* the tabs on their way to /login
  faults         \* how many faults have struck

server == <<live, fresh>>

sending == <<at, carried, retry, call>>

page == <<isRefreshing, failedQueue, leaving>>

vars == <<server, jar, sending, page, faults>>

TypeOK ==
  /\ live \subseteq Tokens
  /\ fresh \subseteq live
  /\ jar \in Tokens \cup {NoToken}
  /\ at \in [Requests -> Phases]
  /\ carried \in [Requests -> Tokens \cup {NoToken}]
  /\ retry \subseteq Requests
  /\ call \in [Requests -> CallPhases]
  /\ isRefreshing \subseteq Tabs
  /\ failedQueue \subseteq Requests
  /\ leaving \subseteq Tabs
  /\ faults \in 0..MaxFaults

Init ==
  /\ \/ live = {First} /\ fresh \in SUBSET {First} /\ jar = First
     \/ live = {} /\ fresh = {} /\ jar = NoToken
  /\ at = [p \in Requests |-> "idle"]
  /\ carried = [p \in Requests |-> NoToken]
  /\ retry = {}
  /\ call = [p \in Requests |-> "none"]
  /\ isRefreshing = {}
  /\ failedQueue = {}
  /\ leaving = {}
  /\ faults = 0

----------------------------------------------------------------------------
(* The server, and the network.                                             *)

Fault == faults < MaxFaults /\ faults' = faults + 1

(* What has been answered or lost is no longer on its way to the server.    *)
Received(p) == carried' = [carried EXCEPT ![p] = NoToken]

(* A call may also fail for reasons of its own (a 404, a 429, a 500).  A    *)
(* login may be refused, and is again when it is made again after a refresh. *)
Answer(p) ==
  /\ at[p] = "sent"
  /\ \/ /\ p \in Calls
        /\ \E answer \in IF carried[p] \in fresh THEN {"ok", "failed"}
                                                 ELSE {"unauthorized"} :
             at' = [at EXCEPT ![p] = answer]
        /\ UNCHANGED server
     \/ /\ p \in Logins
        /\ at' = [at EXCEPT ![p] = "unauthorized"]
        /\ UNCHANGED server
     \/ /\ p \in Logins \ retry
        /\ at' = [at EXCEPT ![p] = "ok"]
        /\ live' = live \cup {p}
        /\ fresh' = fresh \cup {p}
  /\ Received(p)
  /\ UNCHANGED <<jar, retry, call, page, faults>>

(* refreshTokens, up to its reading of the session row.                     *)
ReadSession(p) ==
  /\ call[p] = "sent"
  /\ \/ /\ carried[p] \in live
        /\ call' = [call EXCEPT ![p] = "read"]
        /\ UNCHANGED carried
     \/ /\ carried[p] \notin live
        /\ call' = [call EXCEPT ![p] = "refused"]
        /\ Received(p)
  /\ UNCHANGED <<server, jar, at, retry, page, faults>>

(* Mutant of Rotate: the old session is not revoked.                        *)
RotateBeside(p) ==
  /\ call[p] = "read"
  /\ call' = [call EXCEPT ![p] = "ok"]
  /\ live' = live \cup {p}
  /\ fresh' = fresh \cup {p}
  /\ Received(p)
  /\ UNCHANGED <<jar, at, retry, page, faults>>

(* The rest of refreshTokens.  It does not look at the row again, so two    *)
(* tabs that overlap here are both given tokens.                            *)
Rotate(p) ==
  /\ call[p] = "read"
  /\ call' = [call EXCEPT ![p] = "ok"]
  /\ live' = (live \ {carried[p]}) \cup {p}
  /\ fresh' = (fresh \ {carried[p]}) \cup {p}
  /\ Received(p)
  /\ UNCHANGED <<jar, at, retry, page, faults>>

(* A request or its answer is lost, or times out: a network error.          *)
Lose(p) ==
  /\ Fault
  /\ \/ /\ at[p] \in {"sent", "ok", "unauthorized"}
        /\ at' = [at EXCEPT ![p] = "failed"]
        /\ UNCHANGED call
     \/ /\ call[p] \in {"sent", "read", "ok", "taken", "refused"}
        /\ call' = [call EXCEPT ![p] = "failed"]
        /\ UNCHANGED at
  /\ Received(p)
  /\ UNCHANGED <<server, jar, retry, page>>

(* A request, or the refresh made for it, goes out with whatever the        *)
(* cookies then are: another tab may have changed them since it was made.   *)
Send(p) ==
  /\ \/ /\ at[p] = "ready"
        /\ at' = [at EXCEPT ![p] = "sent"]
        /\ UNCHANGED call
     \/ /\ call[p] = "ready"
        /\ call' = [call EXCEPT ![p] = "sent"]
        /\ UNCHANGED at
  /\ carried' = [carried EXCEPT ![p] = jar]
  /\ UNCHANGED <<server, jar, retry, page, faults>>

(* The headers of a refresh's answer reach the browser.                     *)
TakeCookies(p) ==
  /\ at[p] = "refreshing"
  /\ call[p] = "ok"
  /\ call' = [call EXCEPT ![p] = "taken"]
  /\ jar' = p
  /\ UNCHANGED <<server, at, carried, retry, page, faults>>

(* An access token lasts for 15 minutes.                                    *)
Expire(t) ==
  /\ t \in fresh
  /\ fresh' = fresh \ {t}
  /\ UNCHANGED <<live, jar, sending, page, faults>>

(* A session is revoked by a logout elsewhere, or reaches its 7 days.       *)
EndSession(t) ==
  /\ Fault
  /\ t \in live
  /\ live' = live \ {t}
  /\ fresh' = fresh \ {t}
  /\ UNCHANGED <<jar, sending, page>>

----------------------------------------------------------------------------
(* The client.                                                              *)

(* The requests of S move on.                                               *)
Move(S, phase) == at' = [q \in Requests |-> IF q \in S THEN phase ELSE at[q]]

Request(p) ==
  /\ at[p] = "idle"
  /\ Move({p}, "ready")
  /\ UNCHANGED <<server, jar, carried, retry, call, page, faults>>

(* Anything but a 401 goes to the caller; a login's answer sets the cookies. *)
Settle(p) ==
  /\ \/ /\ at[p] = "ok"
        /\ Move({p}, "resolved")
        /\ jar' = IF p \in Logins THEN p ELSE jar
     \/ /\ at[p] = "failed"
        /\ Move({p}, "rejected")
        /\ UNCHANGED jar
  /\ UNCHANGED <<server, carried, retry, call, page, faults>>

(* A 401, and the request has been marked _retry before.                    *)
GiveUp(p) ==
  /\ at[p] = "unauthorized"
  /\ p \in retry
  /\ Move({p}, "rejected")
  /\ UNCHANGED <<server, jar, carried, retry, call, page, faults>>

(* A 401 while the tab refreshes: the request waits, without being marked.  *)
Enqueue(p) ==
  /\ at[p] = "unauthorized"
  /\ p \notin retry
  /\ Tab[p] \in isRefreshing
  /\ Move({p}, "queued")
  /\ failedQueue' = failedQueue \cup {p}
  /\ UNCHANGED <<server, jar, carried, retry, call, isRefreshing, leaving, faults>>

(* Mutant of Idle: every 401 refreshes.                                     *)
Always(t) == TRUE

Idle(t) == t \notin isRefreshing

(* Mutant of Mark: _retry is not set.                                       *)
NoMark(p) == retry

Mark(p) == retry \cup {p}

(* A 401, and nobody refreshes: the request starts the refresh.             *)
Lead(p) ==
  /\ at[p] = "unauthorized"
  /\ p \notin retry
  /\ Idle(Tab[p])
  /\ Move({p}, "refreshing")
  /\ retry' = Mark(p)
  /\ isRefreshing' = isRefreshing \cup {Tab[p]}
  /\ call' = [call EXCEPT ![p] = "ready"]
  /\ UNCHANGED <<server, jar, carried, failedQueue, leaving, faults>>

(* Mutant of StopRefreshing: no finally block.                              *)
KeepRefreshing(t) == isRefreshing

(* The finally block.                                                       *)
StopRefreshing(t) == isRefreshing \ {t}

Waiting(t) == {q \in failedQueue : Tab[q] = t}

(* Mutant of Answered: nobody waits for the refresh's answer.               *)
NotAwaited(p) == call[p] # "none"

(* The promise of the refresh is fulfilled.                                 *)
Answered(p) == call[p] = "taken"

(* The refresh is over, either way: processQueue empties the queue.         *)
EndRefresh(p) ==
  /\ call' = [call EXCEPT ![p] = "none"]
  /\ failedQueue' = failedQueue \ Waiting(Tab[p])
  /\ isRefreshing' = StopRefreshing(Tab[p])
  /\ UNCHANGED <<server, carried, retry, faults>>

(* The refresh has succeeded: the queue resumes, and with it the request    *)
(* itself is made again.                                                    *)
RefreshSucceeds(p) ==
  /\ at[p] = "refreshing"
  /\ Answered(p)
  /\ Move(Waiting(Tab[p]) \cup {p}, "ready")
  /\ EndRefresh(p)
  /\ UNCHANGED <<jar, leaving>>

(* Mutant of RefreshFails: processQueue is not told of the error.           *)
ResumeOnFailure(p) ==
  /\ at[p] = "refreshing"
  /\ call[p] = "failed"
  /\ Move(Waiting(Tab[p]) \cup {p}, "ready")
  /\ EndRefresh(p)
  /\ leaving' = leaving \cup {Tab[p]}
  /\ UNCHANGED jar

(* The refresh fails, though not with a 401: the queue and the request are  *)
(* rejected, and the browser is sent to /login.                             *)
RefreshFails(p) ==
  /\ at[p] = "refreshing"
  /\ call[p] = "failed"
  /\ Move(Waiting(Tab[p]) \cup {p}, "rejected")
  /\ EndRefresh(p)
  /\ leaving' = leaving \cup {Tab[p]}
  /\ UNCHANGED jar

(* The refresh is answered with a 401: it was made through api itself, is   *)
(* not marked _retry, and isRefreshing holds, so the interceptor queues it  *)
(* until the refresh completes.                                             *)
RefreshRefused(p) ==
  /\ at[p] = "refreshing"
  /\ call[p] = "refused"
  /\ call' = [call EXCEPT ![p] = "queued"]
  /\ UNCHANGED <<server, jar, at, carried, retry, page, faults>>

Ended == {"idle", "resolved", "rejected", "gone"}

(* The page goes away, to /login or because the user reloads it; the next   *)
(* page loads the module afresh.  The server still works on what it got.    *)
Unload(t) ==
  LET mine == {p \in Requests : Tab[p] = t}
  IN  /\ (t \in leaving /\ UNCHANGED faults) \/ Fault
      /\ at' = [p \in Requests |->
                  IF p \in mine /\ at[p] \notin Ended THEN "gone" ELSE at[p]]
      /\ call' = [p \in Requests |->
                    IF p \in mine /\ call[p] \notin {"sent", "read"}
                    THEN "none" ELSE call[p]]
      /\ carried' = [p \in Requests |->
                       IF p \in mine /\ call[p] \notin {"sent", "read"}
                       THEN NoToken ELSE carried[p]]
      /\ failedQueue' = failedQueue \ mine
      /\ isRefreshing' = isRefreshing \ {t}
      /\ leaving' = leaving \ {t}
      /\ UNCHANGED <<server, jar, retry>>

(* The refresh of a page that is gone is answered; a browser may or may not *)
(* still take the cookies from the answer.                                  *)
Forget(p) ==
  /\ at[p] = "gone"
  /\ call[p] \in {"ok", "refused", "failed"}
  /\ call' = [call EXCEPT ![p] = "none"]
  /\ \/ UNCHANGED jar
     \/ call[p] = "ok" /\ jar' = p
  /\ UNCHANGED <<server, at, carried, retry, page, faults>>

----------------------------------------------------------------------------
Handle(p) ==
  \/ Settle(p) \/ GiveUp(p) \/ Enqueue(p) \/ Lead(p)
  \/ RefreshSucceeds(p) \/ RefreshFails(p) \/ RefreshRefused(p) \/ Forget(p)

Step(p) ==
  \/ Send(p) \/ TakeCookies(p) \/ Handle(p)
  \/ Answer(p) \/ ReadSession(p) \/ Rotate(p)

Next ==
  \/ \E p \in Requests : Request(p) \/ Step(p) \/ Lose(p)
  \/ \E t \in Tokens : Expire(t) \/ EndSession(t)
  \/ \E t \in Tabs : Unload(t)

Spec == Init /\ [][Next]_vars

(* Requests are answered, promises that are settled run their handlers, and *)
(* a tab that was sent to /login gets there.                                *)
Leave(t) == t \in leaving /\ Unload(t)

Fairness ==
  /\ \A p \in Requests : WF_vars(Step(p))
  /\ \A t \in Tabs : WF_vars(Leave(t))

FairSpec == Spec /\ Fairness

----------------------------------------------------------------------------
(* Properties.                                                              *)

Refreshing(q) == at[q] = "refreshing"

(* Whoever waits, waits for something: while a tab has isRefreshing set or a *)
(* request in failedQueue, one of its requests has a refresh under way, be  *)
(* it one that hangs since it was refused.  If not, every later 401 of the  *)
(* tab would join a queue although nobody even tries to empty it.           *)
WaitsForARefresh ==
  \A t \in isRefreshing \cup {Tab[p] : p \in failedQueue} :
    \E q \in Requests : Tab[q] = t /\ Refreshing(q) /\ call[q] # "none"

(* requirements.md 3.4: requests that fail together cause a single refresh. *)
OneRefreshPerTab ==
  \A p, q \in Requests :
    Refreshing(p) /\ Refreshing(q) /\ Tab[p] = Tab[q] => p = q

(* What can become of a request in failedQueue in one step.                 *)
Fate(p) ==
  \/ p \in failedQueue'
  \/ at'[p] = "gone"
  \/ \E q \in Requests :
       /\ Tab[q] = Tab[p]
       /\ Refreshing(q)
       /\ \/ call[q] = "taken" /\ at'[p] = "ready"
          \/ call[q] = "failed" /\ at'[p] = "rejected" /\ Tab[p] \in leaving'

(* A waiting request shares the fate of the refresh it waits for: it is made *)
(* again in the very step in which that succeeds, when the browser has the  *)
(* cookies of its answer, is rejected in the step in which that fails, and  *)
(* nothing else wakes it.                                                   *)
QueueSharesTheOutcome == [][\A p \in failedQueue : Fate(p)]_vars

(* The requests that may still obtain tokens, in a login or a refresh.      *)
Unserved ==
  {p \in Requests :
     \/ p \notin retry /\ at[p] \in {"idle", "ready", "sent", "unauthorized", "queued"}
     \/ call[p] \in {"ready", "sent", "read"}}

Promised(t) == IF t \in Requests /\ call[t] = "read" THEN carried[t] ELSE NoToken

Server == INSTANCE TokenServer WITH
  unused   <- Unserved,
  accepted <- [t \in Tokens |-> Promised(t)]

(* What the tabs are checked against is no more than AuthService promises,  *)
(* as the same specification: no request obtains tokens twice, by a login   *)
(* and a refresh or by two refreshes, however often it is made again, and   *)
(* an exchange always ends the session that it began with.                  *)
KeepsTokenPromise == Server!Spec

(* A refresh that is refused with a 401 hangs, and so does its tab.         *)
Hangs(t) == \E q \in Requests : Tab[q] = t /\ Refreshing(q) /\ call[q] = "queued"

(* Every request settles, whatever answers come in whatever order, unless   *)
(* the server has refused its tab's refresh: no wake-up is lost, and a      *)
(* request that is always refused does not refresh for ever.                *)
SettlesOrHangs ==
  \A p \in Requests : at[p] = "ready" ~> at[p] \in Ended \/ Hangs(Tab[p])

(* What api.ts:70 says, "Redirect to login if refresh fails", for the way a *)
(* refresh fails when the session has ended: the tab gets to /login, unless *)
(* its user reloads it first.                                               *)
RefusalLeadsToLogin ==
  \A p \in Requests :
    Refreshing(p) /\ call[p] = "refused" ~> Tab[p] \in leaving \/ at[p] \in Ended
=============================================================================
