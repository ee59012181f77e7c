-------------------------- MODULE ApiClient_proofs --------------------------
(***************************************************************************)
(* What the runs of MCApiClient show of a few requests, proved for any     *)
(* number of requests and tabs: the safety of the refresh and its queue,   *)
(* and how often a request is made.                                        *)
(***************************************************************************)
EXTENDS Resends, TLAPS, FiniteSetTheorems

----------------------------------------------------------------------------
(* The inductive invariant.                                                 *)

(* failedQueue holds the queued requests, which are unmarked, and only in a *)
(* tab that is refreshing.                                                  *)
Queue ==
  /\ \A p \in Requests : at[p] = "queued" <=> p \in failedQueue
  /\ \A p \in failedQueue : p \notin retry /\ Tab[p] \in isRefreshing

(* The refreshing requests are the marked leaders of the tabs' refreshes; a *)
(* refresh outlives its leader only when the page is gone.                  *)
Leaders ==
  /\ \A t \in isRefreshing : \E q \in Requests : Tab[q] = t /\ Refreshing(q)
  /\ \A q \in Requests :
       Refreshing(q) => Tab[q] \in isRefreshing /\ q \in retry /\ call[q] # "none"
  /\ \A q \in Requests : call[q] # "none" => at[q] \in {"refreshing", "gone"}

IInv ==
  /\ TypeOK
  /\ Queue
  /\ Leaders
  /\ OneRefreshPerTab

LEMMA InitIInv == ASSUME Init PROVE IInv
  BY ApiClientAssumption DEF Init, IInv, TypeOK, Queue, Leaders, OneRefreshPerTab,
     Refreshing, Phases, CallPhases, Tokens

LEMMA RequestKeeps ==
  ASSUME NEW p \in Requests, IInv, Request(p)
  PROVE  IInv'
<1>1. TypeOK'
  BY ApiClientAssumption DEF IInv, TypeOK, Request, Move, server, page, Tokens, Phases, CallPhases
<1>2. Queue'
  BY ApiClientAssumption DEF IInv, TypeOK, Queue, Leaders, Request, Move, server, page
<1>3. Leaders'
  BY ApiClientAssumption DEF IInv, TypeOK, Queue, Leaders, OneRefreshPerTab, Refreshing, Request, Move, server, page
<1>4. OneRefreshPerTab'
  BY ApiClientAssumption DEF IInv, TypeOK, Queue, Leaders, OneRefreshPerTab, Refreshing, Request, Move, server, page
<1>. QED BY <1>1, <1>2, <1>3, <1>4 DEF IInv

LEMMA AnswerKeeps ==
  ASSUME NEW p \in Requests, IInv, Answer(p)
  PROVE  IInv'
<1>1. TypeOK'
  BY ApiClientAssumption DEF IInv, TypeOK, Answer, Received, server, page, Tokens, Phases, CallPhases
<1>2. Queue'
  BY ApiClientAssumption DEF IInv, TypeOK, Queue, Leaders, Answer, Received, server, page
<1>3. Leaders'
  BY ApiClientAssumption DEF IInv, TypeOK, Queue, Leaders, OneRefreshPerTab, Refreshing, Answer, Received, server, page
<1>4. OneRefreshPerTab'
  BY ApiClientAssumption DEF IInv, TypeOK, Queue, Leaders, OneRefreshPerTab, Refreshing, Answer, Received, server, page
<1>. QED BY <1>1, <1>2, <1>3, <1>4 DEF IInv

LEMMA ReadSessionKeeps ==
  ASSUME NEW p \in Requests, IInv, ReadSession(p)
  PROVE  IInv'
<1>1. TypeOK'
  BY ApiClientAssumption DEF IInv, TypeOK, ReadSession, Received, server, page, Tokens, Phases, CallPhases
<1>2. Queue'
  BY ApiClientAssumption DEF IInv, TypeOK, Queue, Leaders, ReadSession, Received, server, page
<1>3. Leaders'
  BY ApiClientAssumption DEF IInv, TypeOK, Queue, Leaders, OneRefreshPerTab, Refreshing, ReadSession, Received, server, page
<1>4. OneRefreshPerTab'
  BY ApiClientAssumption DEF IInv, TypeOK, Queue, Leaders, OneRefreshPerTab, Refreshing, ReadSession, Received, server, page
<1>. QED BY <1>1, <1>2, <1>3, <1>4 DEF IInv

LEMMA RotateKeeps ==
  ASSUME NEW p \in Requests, IInv, Rotate(p)
  PROVE  IInv'
<1>1. TypeOK'
  BY ApiClientAssumption DEF IInv, TypeOK, Rotate, Received, page, Tokens, Phases, CallPhases
<1>2. Queue'
  BY ApiClientAssumption DEF IInv, TypeOK, Queue, Leaders, Rotate, Received, page
<1>3. Leaders'
  BY ApiClientAssumption DEF IInv, TypeOK, Queue, Leaders, OneRefreshPerTab, Refreshing, Rotate, Received, page
<1>4. OneRefreshPerTab'
  BY ApiClientAssumption DEF IInv, TypeOK, Queue, Leaders, OneRefreshPerTab, Refreshing, Rotate, Received, page
<1>. QED BY <1>1, <1>2, <1>3, <1>4 DEF IInv

LEMMA LoseKeeps ==
  ASSUME NEW p \in Requests, IInv, Lose(p)
  PROVE  IInv'
<1>1. TypeOK'
  BY ApiClientAssumption DEF IInv, TypeOK, Lose, Received, server, page, Fault, Tokens, Phases, CallPhases
<1>2. Queue'
  BY ApiClientAssumption DEF IInv, TypeOK, Queue, Leaders, Lose, Received, server, page, Fault
<1>3. Leaders'
  BY ApiClientAssumption DEF IInv, TypeOK, Queue, Leaders, OneRefreshPerTab, Refreshing, Lose, Received, server, page, Fault
<1>4. OneRefreshPerTab'
  BY ApiClientAssumption DEF IInv, TypeOK, Queue, Leaders, OneRefreshPerTab, Refreshing, Lose, Received, server, page, Fault
<1>. QED BY <1>1, <1>2, <1>3, <1>4 DEF IInv

LEMMA ExpireKeeps ==
  ASSUME NEW t \in Tokens, IInv, Expire(t)
  PROVE  IInv'
<1>1. TypeOK'
  BY ApiClientAssumption DEF IInv, TypeOK, Expire, sending, page, Tokens, Phases, CallPhases
<1>2. Queue'
  BY ApiClientAssumption DEF IInv, TypeOK, Queue, Leaders, Expire, sending, page
<1>3. Leaders'
  BY ApiClientAssumption DEF IInv, TypeOK, Queue, Leaders, OneRefreshPerTab, Refreshing, Expire, sending, page
<1>4. OneRefreshPerTab'
  BY ApiClientAssumption DEF IInv, TypeOK, Queue, Leaders, OneRefreshPerTab, Refreshing, Expire, sending, page
<1>. QED BY <1>1, <1>2, <1>3, <1>4 DEF IInv

LEMMA EndSessionKeeps ==
  ASSUME NEW t \in Tokens, IInv, EndSession(t)
  PROVE  IInv'
<1>1. TypeOK'
  BY ApiClientAssumption DEF IInv, TypeOK, EndSession, sending, page, Fault, Tokens, Phases, CallPhases
<1>2. Queue'
  BY ApiClientAssumption DEF IInv, TypeOK, Queue, Leaders, EndSession, sending, page, Fault
<1>3. Leaders'
  BY ApiClientAssumption DEF IInv, TypeOK, Queue, Leaders, OneRefreshPerTab, Refreshing, EndSession, sending, page, Fault
<1>4. OneRefreshPerTab'
  BY ApiClientAssumption DEF IInv, TypeOK, Queue, Leaders, OneRefreshPerTab, Refreshing, EndSession, sending, page, Fault
<1>. QED BY <1>1, <1>2, <1>3, <1>4 DEF IInv

LEMMA SendKeeps ==
  ASSUME NEW p \in Requests, IInv, Send(p)
  PROVE  IInv'
<1>1. TypeOK'
  BY ApiClientAssumption DEF IInv, TypeOK, Send, server, page, Tokens, Phases, CallPhases
<1>2. Queue'
  BY ApiClientAssumption DEF IInv, TypeOK, Queue, Leaders, Send, server, page
<1>3. Leaders'
  BY ApiClientAssumption DEF IInv, TypeOK, Queue, Leaders, OneRefreshPerTab, Refreshing, Send, server, page
<1>4. OneRefreshPerTab'
  BY ApiClientAssumption DEF IInv, TypeOK, Queue, Leaders, OneRefreshPerTab, Refreshing, Send, server, page
<1>. QED BY <1>1, <1>2, <1>3, <1>4 DEF IInv

LEMMA TakeCookiesKeeps ==
  ASSUME NEW p \in Requests, IInv, TakeCookies(p)
  PROVE  IInv'
<1>1. TypeOK'
  BY ApiClientAssumption DEF IInv, TypeOK, TakeCookies, server, page, Tokens, Phases, CallPhases
<1>2. Queue'
  BY ApiClientAssumption DEF IInv, TypeOK, Queue, Leaders, TakeCookies, server, page
<1>3. Leaders'
  BY ApiClientAssumption DEF IInv, TypeOK, Queue, Leaders, OneRefreshPerTab, Refreshing, TakeCookies, server, page
<1>4. OneRefreshPerTab'
  BY ApiClientAssumption DEF IInv, TypeOK, Queue, Leaders, OneRefreshPerTab, Refreshing, TakeCookies, server, page
<1>. QED BY <1>1, <1>2, <1>3, <1>4 DEF IInv

LEMMA SettleKeeps ==
  ASSUME NEW p \in Requests, IInv, Settle(p)
  PROVE  IInv'
<1>1. TypeOK'
  BY ApiClientAssumption DEF IInv, TypeOK, Settle, Move, server, page, Tokens, Phases, CallPhases
<1>2. Queue'
  BY ApiClientAssumption DEF IInv, TypeOK, Queue, Leaders, Settle, Move, server, page
<1>3. Leaders'
  BY ApiClientAssumption DEF IInv, TypeOK, Queue, Leaders, OneRefreshPerTab, Refreshing, Settle, Move, server, page
<1>4. OneRefreshPerTab'
  BY ApiClientAssumption DEF IInv, TypeOK, Queue, Leaders, OneRefreshPerTab, Refreshing, Settle, Move, server, page
<1>. QED BY <1>1, <1>2, <1>3, <1>4 DEF IInv

LEMMA GiveUpKeeps ==
  ASSUME NEW p \in Requests, IInv, GiveUp(p)
  PROVE  IInv'
<1>1. TypeOK'
  BY ApiClientAssumption DEF IInv, TypeOK, GiveUp, Move, server, page, Tokens, Phases, CallPhases
<1>2. Queue'
  BY ApiClientAssumption DEF IInv, TypeOK, Queue, Leaders, GiveUp, Move, server, page
<1>3. Leaders'
  BY ApiClientAssumption DEF IInv, TypeOK, Queue, Leaders, OneRefreshPerTab, Refreshing, GiveUp, Move, server, page
<1>4. OneRefreshPerTab'
  BY ApiClientAssumption DEF IInv, TypeOK, Queue, Leaders, OneRefreshPerTab, Refreshing, GiveUp, Move, server, page
<1>. QED BY <1>1, <1>2, <1>3, <1>4 DEF IInv

LEMMA EnqueueKeeps ==
  ASSUME NEW p \in Requests, IInv, Enqueue(p)
  PROVE  IInv'
<1>1. TypeOK'
  BY ApiClientAssumption DEF IInv, TypeOK, Enqueue, Move, server, Tokens, Phases, CallPhases
<1>2. Queue'
  BY ApiClientAssumption DEF IInv, TypeOK, Queue, Leaders, Enqueue, Move, server
<1>3. Leaders'
  BY ApiClientAssumption DEF IInv, TypeOK, Queue, Leaders, OneRefreshPerTab, Refreshing, Enqueue, Move, server
<1>4. OneRefreshPerTab'
  BY ApiClientAssumption DEF IInv, TypeOK, Queue, Leaders, OneRefreshPerTab, Refreshing, Enqueue, Move, server
<1>. QED BY <1>1, <1>2, <1>3, <1>4 DEF IInv

LEMMA LeadKeeps ==
  ASSUME NEW p \in Requests, IInv, Lead(p)
  PROVE  IInv'
<1>1. TypeOK'
  BY ApiClientAssumption DEF IInv, TypeOK, Lead, Move, Idle, Mark, server, Tokens, Phases, CallPhases
<1>2. Queue'
  BY ApiClientAssumption DEF IInv, TypeOK, Queue, Leaders, Lead, Move, Idle, Mark, server
<1>3. Leaders'
  BY ApiClientAssumption DEF IInv, TypeOK, Queue, Leaders, OneRefreshPerTab, Refreshing, Lead, Move, Idle, Mark, server
<1>4. OneRefreshPerTab'
  BY ApiClientAssumption DEF IInv, TypeOK, Queue, Leaders, OneRefreshPerTab, Refreshing, Lead, Move, Idle, Mark, server
<1>. QED BY <1>1, <1>2, <1>3, <1>4 DEF IInv

LEMMA RefreshSucceedsKeeps ==
  ASSUME NEW p \in Requests, IInv, RefreshSucceeds(p)
  PROVE  IInv'
<1>1. TypeOK'
  BY ApiClientAssumption DEF IInv, TypeOK, RefreshSucceeds, Move, EndRefresh, Answered, StopRefreshing, Waiting, server, Tokens, Phases, CallPhases
<1>2. Queue'
  BY ApiClientAssumption DEF IInv, TypeOK, Queue, Leaders, RefreshSucceeds, Move, EndRefresh, Answered, StopRefreshing, Waiting, server
<1>3. Leaders'
  BY ApiClientAssumption DEF IInv, TypeOK, Queue, Leaders, OneRefreshPerTab, Refreshing, RefreshSucceeds, Move, EndRefresh, Answered, StopRefreshing, Waiting, server
<1>4. OneRefreshPerTab'
  BY ApiClientAssumption DEF IInv, TypeOK, Queue, Leaders, OneRefreshPerTab, Refreshing, RefreshSucceeds, Move, EndRefresh, Answered, StopRefreshing, Waiting, server
<1>. QED BY <1>1, <1>2, <1>3, <1>4 DEF IInv

LEMMA RefreshFailsKeeps ==
  ASSUME NEW p \in Requests, IInv, RefreshFails(p)
  PROVE  IInv'
<1>1. TypeOK'
  BY ApiClientAssumption DEF IInv, TypeOK, RefreshFails, Move, EndRefresh, StopRefreshing, Waiting, server, Tokens, Phases, CallPhases
<1>2. Queue'
  BY ApiClientAssumption DEF IInv, TypeOK, Queue, Leaders, RefreshFails, Move, EndRefresh, StopRefreshing, Waiting, server
<1>3. Leaders'
  BY ApiClientAssumption DEF IInv, TypeOK, Queue, Leaders, OneRefreshPerTab, Refreshing, RefreshFails, Move, EndRefresh, StopRefreshing, Waiting, server
<1>4. OneRefreshPerTab'
  BY ApiClientAssumption DEF IInv, TypeOK, Queue, Leaders, OneRefreshPerTab, Refreshing, RefreshFails, Move, EndRefresh, StopRefreshing, Waiting, server
<1>. QED BY <1>1, <1>2, <1>3, <1>4 DEF IInv

LEMMA RefreshRefusedKeeps ==
  ASSUME NEW p \in Requests, IInv, RefreshRefused(p)
  PROVE  IInv'
<1>1. TypeOK'
  BY ApiClientAssumption DEF IInv, TypeOK, RefreshRefused, server, page, Tokens, Phases, CallPhases
<1>2. Queue'
  BY ApiClientAssumption DEF IInv, TypeOK, Queue, Leaders, RefreshRefused, server, page
<1>3. Leaders'
  BY ApiClientAssumption DEF IInv, TypeOK, Queue, Leaders, OneRefreshPerTab, Refreshing, RefreshRefused, server, page
<1>4. OneRefreshPerTab'
  BY ApiClientAssumption DEF IInv, TypeOK, Queue, Leaders, OneRefreshPerTab, Refreshing, RefreshRefused, server, page
<1>. QED BY <1>1, <1>2, <1>3, <1>4 DEF IInv

LEMMA UnloadKeeps ==
  ASSUME NEW t \in Tabs, IInv, Unload(t)
  PROVE  IInv'
<1>1. TypeOK'
  BY ApiClientAssumption DEF IInv, TypeOK, Unload, server, Fault, Ended, Tokens, Phases, CallPhases
<1>2. Queue'
  BY ApiClientAssumption DEF IInv, TypeOK, Queue, Leaders, Unload, server, Fault, Ended
<1>3. Leaders'
  BY ApiClientAssumption DEF IInv, TypeOK, Queue, Leaders, OneRefreshPerTab, Refreshing, Unload, server, Fault, Ended
<1>4. OneRefreshPerTab'
  BY ApiClientAssumption DEF IInv, TypeOK, Queue, Leaders, OneRefreshPerTab, Refreshing, Unload, server, Fault, Ended
<1>. QED BY <1>1, <1>2, <1>3, <1>4 DEF IInv

LEMMA ForgetKeeps ==
  ASSUME NEW p \in Requests, IInv, Forget(p)
  PROVE  IInv'
<1>1. TypeOK'
  BY ApiClientAssumption DEF IInv, TypeOK, Forget, server, page, Tokens, Phases, CallPhases
<1>2. Queue'
  BY ApiClientAssumption DEF IInv, TypeOK, Queue, Leaders, Forget, server, page
<1>3. Leaders'
  BY ApiClientAssumption DEF IInv, TypeOK, Queue, Leaders, OneRefreshPerTab, Refreshing, Forget, server, page
<1>4. OneRefreshPerTab'
  BY ApiClientAssumption DEF IInv, TypeOK, Queue, Leaders, OneRefreshPerTab, Refreshing, Forget, server, page
<1>. QED BY <1>1, <1>2, <1>3, <1>4 DEF IInv

LEMMA NextKeeps ==
  ASSUME IInv, [Next]_vars
  PROVE  IInv'
<1>1. CASE UNCHANGED vars
  BY <1>1 DEF IInv, TypeOK, Queue, Leaders, OneRefreshPerTab, Refreshing, vars, server, sending, page
<1>2. ASSUME NEW p \in Requests, Request(p) \/ Step(p) \/ Lose(p)
      PROVE  IInv'
  BY <1>2, RequestKeeps, AnswerKeeps, ReadSessionKeeps, RotateKeeps, LoseKeeps, SendKeeps,
     TakeCookiesKeeps, SettleKeeps, GiveUpKeeps, EnqueueKeeps, LeadKeeps, RefreshSucceedsKeeps, RefreshFailsKeeps,
     RefreshRefusedKeeps, ForgetKeeps DEF Step, Handle
<1>3. ASSUME NEW t \in Tokens, Expire(t) \/ EndSession(t)
      PROVE  IInv'
  BY <1>3, ExpireKeeps, EndSessionKeeps
<1>4. ASSUME NEW t \in Tabs, Unload(t)
      PROVE  IInv'
  BY <1>4, UnloadKeeps
<1>. QED BY <1>1, <1>2, <1>3, <1>4 DEF Next

LEMMA Invariant == Spec => []IInv
<1>1. Init => IInv
  BY InitIInv
<1>2. IInv /\ [Next]_vars => IInv'
  BY NextKeeps
<1>. QED BY <1>1, <1>2, PTL DEF Spec

----------------------------------------------------------------------------
(* The theorems.                                                            *)

(* Every variable keeps its type; in particular nothing is accepted by the  *)
(* server whose session it has revoked.                                     *)
THEOREM TypeCorrect == Spec => []TypeOK
<1>1. IInv => TypeOK
  BY DEF IInv
<1>. QED BY <1>1, Invariant, PTL

(* While a tab has isRefreshing set or requests in failedQueue, one of its  *)
(* requests has a refresh under way, be it one that hangs since it was      *)
(* refused: no 401 joins a queue that nobody even tries to empty.           *)
THEOREM QueuesAreServed == Spec => []WaitsForARefresh
<1>1. IInv => WaitsForARefresh
  <2>. SUFFICES ASSUME IInv,
                       NEW t \in isRefreshing \cup {Tab[p] : p \in failedQueue}
                PROVE  \E q \in Requests : Tab[q] = t /\ Refreshing(q) /\ call[q] # "none"
    BY DEF WaitsForARefresh
  <2>1. t \in isRefreshing
    BY DEF IInv, Queue
  <2>. QED BY <2>1 DEF IInv, Leaders
<1>. QED BY <1>1, Invariant, PTL

(* A tab never has two refreshes under way, however many requests fail.     *)
THEOREM SingleRefresh == Spec => []OneRefreshPerTab
<1>1. IInv => OneRefreshPerTab
  BY DEF IInv
<1>. QED BY <1>1, Invariant, PTL

LEMMA SucceedingWakes ==
  ASSUME IInv, NEW q \in Requests, RefreshSucceeds(q), NEW p \in failedQueue
  PROVE  Fate(p)
<1>1. CASE Tab[p] = Tab[q]
  BY <1>1 DEF IInv, TypeOK, Fate, RefreshSucceeds, Refreshing, Move, Answered, Waiting
<1>2. CASE Tab[p] # Tab[q]
  BY <1>2 DEF Fate, RefreshSucceeds, EndRefresh, Waiting
<1>. QED BY <1>1, <1>2

LEMMA FailingWakes ==
  ASSUME IInv, NEW q \in Requests, RefreshFails(q), NEW p \in failedQueue
  PROVE  Fate(p)
<1>1. CASE Tab[p] = Tab[q]
  BY <1>1 DEF IInv, TypeOK, Fate, RefreshFails, Refreshing, Move, Waiting
<1>2. CASE Tab[p] # Tab[q]
  BY <1>2 DEF Fate, RefreshFails, EndRefresh, Waiting
<1>. QED BY <1>1, <1>2

LEMMA UnloadingDrops ==
  ASSUME IInv, NEW t \in Tabs, Unload(t), NEW p \in failedQueue
  PROVE  Fate(p)
<1>1. at[p] = "queued" /\ p \in Requests
  BY DEF IInv, TypeOK, Queue
<1>2. CASE Tab[p] = t
  BY <1>1, <1>2 DEF Fate, Unload, Ended
<1>3. CASE Tab[p] # t
  BY <1>1, <1>3 DEF Fate, Unload
<1>. QED BY <1>2, <1>3

LEMMA OthersLeaveTheQueue ==
  ASSUME NEW q \in Requests, NEW p \in failedQueue,
         \/ Request(q) \/ Answer(q) \/ ReadSession(q) \/ Rotate(q) \/ Lose(q)
         \/ Send(q) \/ TakeCookies(q) \/ Settle(q) \/ GiveUp(q) \/ Enqueue(q) \/ Lead(q)
         \/ RefreshRefused(q) \/ Forget(q)
  PROVE  p \in failedQueue'
  BY DEF Request, Answer, ReadSession, Rotate, Lose, Send, TakeCookies, Settle, GiveUp, Enqueue,
     Lead, RefreshRefused, Forget, page

(* A request in failedQueue is woken only by the end of the refresh of its  *)
(* tab, and shares its outcome.                                             *)
THEOREM QueueFollowsTheRefresh == Spec => QueueSharesTheOutcome
<1>1. ASSUME IInv, [Next]_vars, NEW p \in failedQueue
      PROVE  Fate(p)
  <2>1. CASE UNCHANGED vars
    BY <2>1 DEF Fate, vars, page
  <2>2. ASSUME NEW q \in Requests, Request(q) \/ Step(q) \/ Lose(q)
        PROVE  Fate(p)
    BY <1>1, <2>2, SucceedingWakes, FailingWakes, OthersLeaveTheQueue DEF Step, Handle, Fate
  <2>3. ASSUME NEW t \in Tokens, Expire(t) \/ EndSession(t)
        PROVE  Fate(p)
    BY <2>3 DEF Expire, EndSession, Fate, page
  <2>4. ASSUME NEW t \in Tabs, Unload(t)
        PROVE  Fate(p)
    BY <1>1, <2>4, UnloadingDrops
  <2>. QED BY <1>1, <2>1, <2>2, <2>3, <2>4 DEF Next
<1>2. IInv /\ [Next]_vars => [\A p \in failedQueue : Fate(p)]_vars
  BY <1>1
<1>. QED BY <1>2, Invariant, PTL DEF Spec, QueueSharesTheOutcome

----------------------------------------------------------------------------
(* How often a request is made.                                             *)

(* The refreshes of a tab that are over: those that have given tokens.      *)
Done(t) == {q \in retry : Tab[q] = t /\ ~Refreshing(q)}

(* A request that was made is made again only when a refresh is over.       *)
SendsInv ==
  /\ sends \in [Requests -> Nat]
  /\ \A p \in Requests :
       /\ at[p] = "idle" => sends[p] = 0
       /\ at[p] # "idle" => sends[p] <= 1 + Cardinality(Done(Tab[p]))

(* A request is made by its page, or by the refresh of its tab.             *)
LEMMA SendStep ==
  ASSUME IInv, [Next]_vars, NEW p \in Requests, at[p] # "ready", at'[p] = "ready"
  PROVE  at[p] = "idle" \/ \E q \in Requests : RefreshSucceeds(q) /\ Tab[q] = Tab[p]
<1>0. at \in [Requests -> Phases] /\ failedQueue \subseteq Requests
  BY DEF IInv, TypeOK
<1>1. ASSUME NEW q \in Requests, Request(q)
      PROVE  at[p] = "idle"
  BY <1>0, <1>1 DEF Request, Move
<1>2. ASSUME NEW q \in Requests, Step(q) \/ Lose(q)
      PROVE  RefreshSucceeds(q) /\ Tab[q] = Tab[p]
  BY <1>0, <1>2 DEF Step, Handle, Answer, ReadSession, Rotate, Lose, Send,
     TakeCookies, Settle, GiveUp, Enqueue, Lead,
     RefreshSucceeds, RefreshFails, RefreshRefused, Forget, Move, Waiting
<1>3. ASSUME NEW t \in Tabs, Unload(t)
      PROVE  FALSE
  BY <1>0, <1>3 DEF Unload
<1> QED
  BY <1>1, <1>2, <1>3 DEF Next, Expire, EndSession, vars, sending

(* Nothing brings a request back to the state it had before it was made.    *)
LEMMA IdleStep ==
  ASSUME IInv, [Next]_vars, NEW p \in Requests, at'[p] = "idle"
  PROVE  at[p] = "idle"
<1>0. at \in [Requests -> Phases]
  BY DEF IInv, TypeOK
<1>1. ASSUME NEW q \in Requests, Request(q) \/ Step(q) \/ Lose(q)
      PROVE  at[p] = "idle"
  BY <1>0, <1>1 DEF Request, Step, Handle, Answer, ReadSession, Rotate, Lose, Send,
     TakeCookies, Settle, GiveUp, Enqueue,
     Lead, RefreshSucceeds, RefreshFails, RefreshRefused, Forget, Move
<1>2. ASSUME NEW t \in Tabs, Unload(t)
      PROVE  at[p] = "idle"
  BY <1>0, <1>2 DEF Unload
<1> QED
  BY <1>1, <1>2 DEF Next, Expire, EndSession, vars, sending

(* Only an unmarked request starts a refresh, and a mark stays.             *)
LEMMA DoneStep ==
  ASSUME IInv, [Next]_vars, NEW q \in retry
  PROVE  q \in retry' /\ (~Refreshing(q) => ~Refreshing(q)')
<1>0. at \in [Requests -> Phases] /\ retry \subseteq Requests
  BY DEF IInv, TypeOK
<1>1. ASSUME NEW p \in Requests, Lead(p)
      PROVE  q \in retry' /\ (~Refreshing(q) => ~Refreshing(q)')
  BY <1>0, <1>1 DEF Lead, Move, Mark, Refreshing
<1>2. ASSUME NEW p \in Requests, Request(p) \/ (Step(p) /\ ~Lead(p)) \/ Lose(p)
      PROVE  q \in retry' /\ (~Refreshing(q) => ~Refreshing(q)')
  BY <1>0, <1>2 DEF Request, Step, Handle, Answer, ReadSession, Rotate, Lose, Send,
     TakeCookies, Settle, GiveUp, Enqueue,
     RefreshSucceeds, RefreshFails, RefreshRefused, Forget, EndRefresh, Move, Refreshing
<1>3. ASSUME NEW t \in Tabs, Unload(t)
      PROVE  q \in retry' /\ (~Refreshing(q) => ~Refreshing(q)')
  BY <1>0, <1>3 DEF Unload, Refreshing
<1> QED
  BY <1>1, <1>2, <1>3 DEF Next, Expire, EndSession, vars, sending, Refreshing

(* The refreshes that are over are finitely many, and become more.          *)
LEMMA DoneGrows ==
  ASSUME IInv, IInv', [Next]_vars, NEW t \in Tabs
  PROVE  /\ IsFiniteSet(Done(t)')
         /\ Cardinality(Done(t)) \in Nat /\ Cardinality(Done(t)') \in Nat
         /\ Cardinality(Done(t)) <= Cardinality(Done(t)')
<1>1. Done(t) \subseteq Requests /\ Done(t)' \subseteq Requests
  BY DEF IInv, TypeOK, Done
<1>2. IsFiniteSet(Done(t)) /\ IsFiniteSet(Done(t)')
  BY <1>1, ResendsAssumption, FS_Subset
<1>3. Done(t) \subseteq Done(t)'
  BY DoneStep DEF Done
<1> QED
  BY <1>2, <1>3, FS_Subset, FS_CardinalityType

(* So does a refresh that succeeds, by one at least.                        *)
LEMMA SucceedingIsDone ==
  ASSUME IInv, IInv', [Next]_vars, NEW q \in Requests, RefreshSucceeds(q)
  PROVE  Cardinality(Done(Tab[q])) + 1 <= Cardinality(Done(Tab[q])')
<1>1. Tab[q] \in Tabs
  BY ApiClientAssumption
<1>2. q \in Done(Tab[q])'
  BY DEF IInv, TypeOK, Leaders, Done, Refreshing, RefreshSucceeds, EndRefresh, Move
<1>3. Done(Tab[q]) \subseteq Done(Tab[q])' \ {q}
  BY DoneStep DEF Done, Refreshing, RefreshSucceeds
<1>4. /\ IsFiniteSet(Done(Tab[q])' \ {q})
      /\ Cardinality(Done(Tab[q])' \ {q}) = Cardinality(Done(Tab[q])') - 1
  BY <1>1, <1>2, DoneGrows, FS_RemoveElement
<1> QED
  BY <1>1, <1>3, <1>4, DoneGrows, FS_Subset

(* The bound survives every step.                                           *)
LEMMA SendsStep ==
  ASSUME IInv, SendsInv, ResendsNext
  PROVE  SendsInv'
<1>1. IInv' /\ [Next]_vars
  BY NextKeeps DEF ResendsNext
<1>2. /\ sends' = [p \in Requests |->
                     IF at[p] # "ready" /\ at'[p] = "ready" THEN sends[p] + 1 ELSE sends[p]]
      /\ sends \in [Requests -> Nat]
  BY DEF ResendsNext, SendsInv
<1>3. ASSUME NEW p \in Requests, at'[p] = "idle" PROVE sends'[p] = 0
  BY <1>1, <1>2, <1>3, IdleStep DEF SendsInv
<1>4. ASSUME NEW p \in Requests, at'[p] # "idle"
      PROVE  sends'[p] <= 1 + Cardinality(Done(Tab[p])')
  <2>1. /\ Cardinality(Done(Tab[p])) \in Nat /\ Cardinality(Done(Tab[p])') \in Nat
        /\ Cardinality(Done(Tab[p])) <= Cardinality(Done(Tab[p])')
    BY <1>1, ApiClientAssumption, DoneGrows
  <2>2. CASE at[p] = "idle"
    BY <1>2, <2>1, <2>2 DEF SendsInv
  <2>3. CASE at[p] # "idle" /\ ~(at[p] # "ready" /\ at'[p] = "ready")
    BY <1>2, <2>1, <2>3 DEF SendsInv
  <2>4. CASE at[p] # "idle" /\ at[p] # "ready" /\ at'[p] = "ready"
    <3>1. PICK q \in Requests : RefreshSucceeds(q) /\ Tab[q] = Tab[p]
      BY <1>1, <2>4, SendStep
    <3>2. Cardinality(Done(Tab[p])) + 1 <= Cardinality(Done(Tab[p])')
      BY <1>1, <3>1, SucceedingIsDone
    <3> QED
      BY <1>2, <2>1, <2>4, <3>2 DEF SendsInv
  <2> QED
    BY <2>2, <2>3, <2>4
<1>5. sends' \in [Requests -> Nat]
  BY <1>2
<1> QED
  BY <1>3, <1>4, <1>5 DEF SendsInv

(* The history variables take no step away and add none.                    *)
LEMMA ResendsInvariant == ResendsSpec => []IInv
<1>1. ResendsInit => IInv
  BY InitIInv DEF ResendsInit
<1>2. IInv /\ [ResendsNext]_<<vars, sends, tried>> => IInv'
  BY NextKeeps DEF ResendsNext
<1> QED
  BY <1>1, <1>2, PTL DEF ResendsSpec

(* The interceptor does not count how often a request waits in failedQueue  *)
(* and is made again, and need not: a request is made once, and at most     *)
(* once more for each refresh of its tab, of which each request of the tab  *)
(* makes one, for any number of requests and tabs and any answers.          *)
THEOREM ResendsAreBounded == ResendsSpec => []ResendsBounded
<1>1. ResendsInit => SendsInv
  BY DEF ResendsInit, Init, SendsInv
<1>2. IInv /\ SendsInv /\ [ResendsNext]_<<vars, sends, tried>> => SendsInv'
  <2>1. SendsInv /\ UNCHANGED <<vars, sends, tried>> => SendsInv'
    BY DEF SendsInv, Done, Refreshing, vars, sending
  <2> QED
    BY <2>1, SendsStep
<1>3. IInv /\ SendsInv => ResendsBounded
  <2> SUFFICES ASSUME IInv, SendsInv, NEW p \in Requests
               PROVE  sends[p] <= 1 + Cardinality(Refreshes(Tab[p]))
    BY DEF ResendsBounded
  <2>1. Done(Tab[p]) \subseteq Refreshes(Tab[p]) /\ Refreshes(Tab[p]) \subseteq Requests
    BY DEF Done, Refreshes, IInv, TypeOK
  <2>2. IsFiniteSet(Refreshes(Tab[p])) /\ IsFiniteSet(Done(Tab[p]))
    BY <2>1, ResendsAssumption, FS_Subset
  <2>3. /\ Cardinality(Done(Tab[p])) <= Cardinality(Refreshes(Tab[p]))
        /\ Cardinality(Done(Tab[p])) \in Nat /\ Cardinality(Refreshes(Tab[p])) \in Nat
    BY <2>1, <2>2, FS_Subset, FS_CardinalityType
  <2> QED
    BY <2>3 DEF SendsInv
<1> QED
  BY <1>1, <1>2, <1>3, ResendsInvariant, PTL DEF ResendsSpec

----------------------------------------------------------------------------
(* With which cookies a request is made again.                              *)

(* The tokens that the browser has not been given yet, if it ever will be.  *)
Undelivered ==
  {t \in Requests :
     \/ t \notin retry /\ at[t] \in {"idle", "ready", "sent", "ok", "unauthorized", "queued"}
     \/ call[t] \in {"ready", "sent", "read", "ok"}}

TriedOK ==
  /\ tried \in [Requests -> SUBSET (Tokens \cup {NoToken})]
  /\ \A p \in Requests : at[p] \notin {"refreshing", "ready", "sent"} => tried[p] = {}

(* Nobody has seen tokens that are not delivered: no token gets into the    *)
(* cookies twice.                                                           *)
Unworn == \A t \in Undelivered : jar # t /\ \A q \in Requests : carried[q] # t /\ t \notin tried[q]

(* A login that was marked _retry is refused.                               *)
OkLogins == \A p \in Logins : at[p] = "ok" => p \notin retry

(* From the moment the refresh of a request has set them, the cookies are   *)
(* others than those the refresh was made with.                             *)
Replaced ==
  \A p \in retry :
    /\ call[p] = "taken" \/ at[p] = "ready" => jar \notin tried[p]
    /\ at[p] = "sent" => carried[p] \notin tried[p]

TriedInv == TriedOK /\ Unworn /\ OkLogins /\ Replaced

(* What cannot be delivered any more never will be.                         *)
LEMMA UndeliveredStep ==
  ASSUME IInv, [Next]_vars, NEW p \in Requests, p \in Undelivered'
  PROVE  p \in Undelivered
<1>0. /\ at \in [Requests -> Phases] /\ call \in [Requests -> CallPhases]
      /\ failedQueue \subseteq Requests
  BY DEF IInv, TypeOK
<1>1. p \notin retry' => p \notin retry
  BY DoneStep
<1>2. ASSUME NEW q \in Requests, RefreshSucceeds(q) \/ RefreshFails(q)
      PROVE  p \in Undelivered
  BY <1>0, <1>1, <1>2 DEF Undelivered, RefreshSucceeds, RefreshFails, EndRefresh, Move, Waiting, IInv,
     Queue, Leaders, Refreshing
<1>3. ASSUME NEW q \in Requests,
             Request(q) \/ (Step(q) /\ ~RefreshSucceeds(q) /\ ~RefreshFails(q)) \/ Lose(q)
      PROVE  p \in Undelivered
  BY <1>0, <1>1, <1>3 DEF Undelivered, Request, Step, Handle, Answer, ReadSession, Rotate, Lose, Send,
     TakeCookies, Settle, GiveUp, Enqueue, Lead, RefreshRefused, Forget, Move, page, IInv, Leaders
<1>4. ASSUME NEW t \in Tabs, Unload(t)
      PROVE  p \in Undelivered
  BY <1>0, <1>1, <1>4 DEF Undelivered, Unload
<1> QED
  BY <1>2, <1>3, <1>4 DEF Next, Expire, EndSession, vars, sending, Undelivered

(* The cookies change by the delivery of new tokens.                        *)
LEMMA JarStep ==
  ASSUME IInv, OkLogins, [Next]_vars
  PROVE  jar' = jar \/ (jar' \in Undelivered /\ jar' \notin Undelivered')
<1>0. /\ at \in [Requests -> Phases] /\ call \in [Requests -> CallPhases]
      /\ \A q \in Requests : call[q] # "none" => at[q] \in {"refreshing", "gone"}
      /\ \A q \in Requests : at[q] = "refreshing" => q \in retry
  BY DEF IInv, TypeOK, Leaders, Refreshing
<1>1. ASSUME NEW q \in Requests, Settle(q)
      PROVE  jar' = jar \/ (jar' \in Undelivered /\ jar' \notin Undelivered')
  BY <1>0, <1>1 DEF Settle, Move, Undelivered, OkLogins
<1>2. ASSUME NEW q \in Requests, TakeCookies(q)
      PROVE  jar' \in Undelivered /\ jar' \notin Undelivered'
  BY <1>0, <1>2 DEF TakeCookies, Undelivered
<1>3. ASSUME NEW q \in Requests, Forget(q)
      PROVE  jar' = jar \/ (jar' \in Undelivered /\ jar' \notin Undelivered')
  BY <1>0, <1>3 DEF Forget, Undelivered
<1>4. ASSUME NEW q \in Requests,
             Request(q) \/ (Step(q) /\ ~Settle(q) /\ ~TakeCookies(q) /\ ~Forget(q)) \/ Lose(q)
      PROVE  jar' = jar
  BY <1>4 DEF Request, Step, Handle, Answer, ReadSession, Rotate, Lose, Send, GiveUp, Enqueue, Lead,
     RefreshSucceeds, RefreshFails, RefreshRefused
<1> QED
  BY <1>1, <1>2, <1>3, <1>4 DEF Next, Expire, EndSession, Unload, vars

(* What is sent carries the cookies; nothing else is given anything.        *)
LEMMA CarriedStep ==
  ASSUME IInv, [Next]_vars, NEW p \in Requests
  PROVE  carried'[p] \in {carried[p], NoToken, jar}
<1>0. carried \in [Requests -> Tokens \cup {NoToken}]
  BY DEF IInv, TypeOK
<1>1. ASSUME NEW q \in Requests, Request(q) \/ Step(q) \/ Lose(q)
      PROVE  carried'[p] \in {carried[p], NoToken, jar}
  BY <1>0, <1>1 DEF Request, Step, Handle, Answer, ReadSession, Rotate, Lose, Send, TakeCookies, Settle,
     GiveUp, Enqueue, Lead, RefreshSucceeds, RefreshFails, RefreshRefused, Forget, EndRefresh, Received
<1>2. ASSUME NEW t \in Tabs, Unload(t)
      PROVE  carried'[p] \in {carried[p], NoToken, jar}
  BY <1>0, <1>2 DEF Unload
<1> QED
  BY <1>1, <1>2 DEF Next, Expire, EndSession, vars, sending

(* A login that is answered with tokens was not marked.                     *)
LEMMA OkStep ==
  ASSUME IInv, OkLogins, [Next]_vars
  PROVE  OkLogins'
<1>0. at \in [Requests -> Phases] /\ Logins \subseteq Requests
  BY DEF IInv, TypeOK, Requests
<1> SUFFICES ASSUME NEW p \in Logins, at'[p] = "ok" PROVE p \notin retry'
  BY DEF OkLogins
<1>1. ASSUME NEW q \in Requests, Answer(q)
      PROVE  p \notin retry'
  BY <1>0, <1>1, ApiClientAssumption DEF Answer, OkLogins
<1>2. ASSUME NEW q \in Requests, Request(q) \/ (Step(q) /\ ~Answer(q)) \/ Lose(q)
      PROVE  p \notin retry'
  BY <1>0, <1>2 DEF Request, Step, Handle, ReadSession, Rotate, Lose, Send, TakeCookies, Settle, GiveUp,
     Enqueue, Lead, Mark, RefreshSucceeds, RefreshFails, RefreshRefused, Forget, EndRefresh, Move, OkLogins
<1>3. ASSUME NEW t \in Tabs, Unload(t)
      PROVE  p \notin retry'
  BY <1>0, <1>3 DEF Unload, OkLogins
<1> QED
  BY <1>1, <1>2, <1>3 DEF Next, Expire, EndSession, vars, sending, OkLogins

(* How a marked request comes to have its refresh's cookies, or to be made. *)
LEMMA ReadyStep ==
  ASSUME IInv, [Next]_vars, NEW p \in retry', call'[p] = "taken" \/ at'[p] = "ready"
  PROVE  \/ p \in retry /\ (call[p] = "taken" \/ at[p] = "ready")
         \/ TakeCookies(p)
         \/ at[p] = "idle"
<1>0. /\ at \in [Requests -> Phases] /\ call \in [Requests -> CallPhases] /\ retry' \subseteq Requests
      /\ \A q \in failedQueue : q \notin retry
      /\ failedQueue \subseteq Requests
  BY NextKeeps DEF IInv, TypeOK, Queue
<1> DEFINE Known == \/ p \in retry /\ (call[p] = "taken" \/ at[p] = "ready")
                    \/ TakeCookies(p)
                    \/ at[p] = "idle"
<1>1. ASSUME NEW q \in Requests, RefreshSucceeds(q) \/ RefreshFails(q)
      PROVE  Known
  BY <1>0, <1>1 DEF RefreshSucceeds, RefreshFails, Answered, EndRefresh, Move, Waiting
<1>2. ASSUME NEW q \in Requests, TakeCookies(q)
      PROVE  Known
  BY <1>0, <1>2 DEF TakeCookies
<1>3. ASSUME NEW q \in Requests,
             \/ Request(q) \/ Lose(q)
             \/ Step(q) /\ ~RefreshSucceeds(q) /\ ~RefreshFails(q) /\ ~TakeCookies(q)
      PROVE  Known
  BY <1>0, <1>3 DEF Request, Step, Handle, Answer, ReadSession, Rotate, Lose, Send, Settle, GiveUp,
     Enqueue, Lead, Mark, RefreshRefused, Forget, Move, page
<1>4. ASSUME NEW t \in Tabs, Unload(t)
      PROVE  Known
  BY <1>0, <1>4 DEF Unload
<1> QED
  BY <1>1, <1>2, <1>3, <1>4 DEF Next, Expire, EndSession, vars, sending

(* A request gets on its way with the cookies of the moment.                *)
LEMMA SentStep ==
  ASSUME IInv, [Next]_vars, NEW p \in retry', at'[p] = "sent"
  PROVE  p \in retry /\ \/ at[p] = "sent" /\ carried'[p] = carried[p]
                        \/ at[p] = "ready" /\ carried'[p] = jar
<1>0. /\ at \in [Requests -> Phases] /\ call \in [Requests -> CallPhases] /\ retry' \subseteq Requests
      /\ carried \in [Requests -> Tokens \cup {NoToken}]
      /\ \A q \in Requests : call[q] # "none" => at[q] \in {"refreshing", "gone"}
  BY NextKeeps DEF IInv, TypeOK, Leaders
<1> DEFINE Known == p \in retry /\ \/ at[p] = "sent" /\ carried'[p] = carried[p]
                                   \/ at[p] = "ready" /\ carried'[p] = jar
<1>1. ASSUME NEW q \in Requests, Request(q) \/ Step(q) \/ Lose(q)
      PROVE  Known
  BY <1>0, <1>1 DEF Request, Step, Handle, Answer, ReadSession, Rotate, Lose, Send, TakeCookies, Settle,
     GiveUp, Enqueue, Lead, Mark, RefreshSucceeds, RefreshFails, RefreshRefused, Forget, EndRefresh,
     Move, Received
<1>2. ASSUME NEW t \in Tabs, Unload(t)
      PROVE  Known
  BY <1>0, <1>2 DEF Unload, Ended
<1> QED
  BY <1>1, <1>2 DEF Next, Expire, EndSession, vars, sending

LEMMA TriedStep ==
  ASSUME IInv, TriedInv, ResendsNext
  PROVE  TriedInv'
<1>1. [Next]_vars /\ IInv'
  BY NextKeeps DEF ResendsNext
<1>2. tried' = [p \in Requests |->
                  IF at'[p] \notin {"refreshing", "ready", "sent"} THEN {}
                  ELSE IF call'[p] = "sent" THEN {carried'[p]} ELSE tried[p]]
  BY DEF ResendsNext
<1>3. TriedOK'
  BY <1>1, <1>2 DEF TriedInv, TriedOK, IInv, TypeOK
<1>4. ASSUME NEW t \in Undelivered'
      PROVE  jar' # t /\ \A q \in Requests : carried'[q] # t /\ t \notin tried'[q]
  <2>1. t \in Requests /\ t \in Undelivered
    BY <1>1, <1>4, UndeliveredStep DEF Undelivered
  <2>2. jar' # t
    BY <1>1, <1>4, <2>1, JarStep DEF TriedInv, Unworn
  <2>3. ASSUME NEW q \in Requests PROVE carried'[q] # t
    BY <1>1, <2>1, CarriedStep, ApiClientAssumption DEF TriedInv, Unworn, Tokens
  <2>4. ASSUME NEW q \in Requests PROVE t \notin tried'[q]
    BY <1>2, <2>1, <2>3 DEF TriedInv, Unworn
  <2> QED
    BY <2>2, <2>3, <2>4
<1>5. ASSUME NEW p \in retry', call'[p] = "taken" \/ at'[p] = "ready"
      PROVE  jar' \notin tried'[p]
  <2>1. p \in Requests /\ call'[p] # "sent"
    BY <1>1, <1>5 DEF IInv, TypeOK, Leaders
  <2>2. tried'[p] \subseteq tried[p]
    BY <1>2, <2>1
  <2>3. jar' = jar \/ jar' \notin tried[p]
    BY <1>1, <2>1, JarStep DEF TriedInv, Unworn
  <2>4. CASE TakeCookies(p)
    BY <2>1, <2>2, <2>4 DEF TakeCookies, TriedInv, Unworn, Undelivered
  <2>5. CASE at[p] = "idle"
    BY <2>1, <2>2, <2>5 DEF TriedInv, TriedOK
  <2>6. CASE p \in retry /\ (call[p] = "taken" \/ at[p] = "ready")
    BY <2>2, <2>3, <2>6 DEF TriedInv, Replaced
  <2> QED
    BY <1>1, <1>5, <2>4, <2>5, <2>6, ReadyStep
<1>6. ASSUME NEW p \in retry', at'[p] = "sent"
      PROVE  carried'[p] \notin tried'[p]
  <2>1. p \in Requests /\ call'[p] # "sent"
    BY <1>1, <1>6 DEF IInv, TypeOK, Leaders
  <2>2. tried'[p] \subseteq tried[p]
    BY <1>2, <2>1
  <2> QED
    BY <1>1, <1>6, <2>2, SentStep DEF TriedInv, Replaced
<1> QED
  BY <1>1, <1>3, <1>4, <1>5, <1>6, OkStep DEF TriedInv, Unworn, Replaced

(* A request that is made again goes out with other cookies than its        *)
(* refresh, whatever the requests of its tab and of others do to the        *)
(* cookies before the browser sends it: the tokens of a refresh or a login  *)
(* get into the cookies once at most, so that none ever come back.          *)
THEOREM NewTokensAreTried == ResendsSpec => []RetriedWithNewTokens
<1>1. ResendsInit => TriedInv
  BY ApiClientAssumption DEF ResendsInit, Init, TriedInv, TriedOK, Unworn, OkLogins, Replaced,
     Undelivered, Tokens
<1>2. IInv /\ TriedInv /\ [ResendsNext]_<<vars, sends, tried>> => TriedInv'
  <2>1. TriedInv /\ UNCHANGED <<vars, sends, tried>> => TriedInv'
    BY DEF TriedInv, TriedOK, Unworn, OkLogins, Replaced, Undelivered, vars, sending
  <2> QED
    BY <2>1, TriedStep
<1>3. TriedInv => RetriedWithNewTokens
  BY DEF TriedInv, Replaced, RetriedWithNewTokens
<1> QED
  BY <1>1, <1>2, <1>3, ResendsInvariant, PTL DEF ResendsSpec

----------------------------------------------------------------------------
(* The refinement of TokenServer.                                           *)

(* A refresh that the server has found good carries tokens.                 *)
Carries == \A p \in Requests : call[p] = "read" => carried[p] \in Tokens

(* A login that is answered with new tokens.                                *)
LogsIn(p) == p \in Logins \ retry /\ Answer(p) /\ at'[p] = "ok"

(* A refresh whose session is found good.                                   *)
IsPromised(p) == ReadSession(p) /\ carried[p] \in live

(* Who may not obtain tokens any more never will.                           *)
LEMMA UnservedStep ==
  ASSUME IInv, [Next]_vars, NEW p \in Requests, p \in Unserved'
  PROVE  p \in Unserved
<1>0. /\ at \in [Requests -> Phases] /\ call \in [Requests -> CallPhases]
      /\ failedQueue \subseteq Requests
  BY DEF IInv, TypeOK
<1>1. p \notin retry' => p \notin retry
  BY DoneStep
<1>2. ASSUME NEW q \in Requests, RefreshSucceeds(q) \/ RefreshFails(q)
      PROVE  p \in Unserved
  BY <1>0, <1>1, <1>2 DEF Unserved, RefreshSucceeds, RefreshFails, EndRefresh, Move, Waiting, IInv,
     Queue, Leaders, Refreshing
<1>3. ASSUME NEW q \in Requests,
             Request(q) \/ (Step(q) /\ ~RefreshSucceeds(q) /\ ~RefreshFails(q)) \/ Lose(q)
      PROVE  p \in Unserved
  BY <1>0, <1>1, <1>3 DEF Unserved, Request, Step, Handle, Answer, ReadSession, Rotate, Lose, Send,
     TakeCookies, Settle,
     GiveUp, Enqueue, Lead, RefreshRefused, Forget, Move, page
<1>4. ASSUME NEW t \in Tabs, Unload(t)
      PROVE  p \in Unserved
  BY <1>0, <1>1, <1>4 DEF Unserved, Unload
<1> QED
  BY <1>2, <1>3, <1>4 DEF Next, Expire, EndSession, vars, sending, Unserved

(* The server promises an exchange only when it finds the session good, and *)
(* a promise ends with the request's chance of obtaining tokens.            *)
LEMMA PromiseStep ==
  ASSUME IInv, [Next]_vars, NEW p \in Requests
  PROVE  /\ call'[p] = "read" =>
              IsPromised(p) \/ (call[p] = "read" /\ carried'[p] = carried[p])
         /\ call[p] = "read" /\ call'[p] # "read" => p \notin Unserved'
<1>0. /\ at \in [Requests -> Phases] /\ call \in [Requests -> CallPhases]
      /\ carried \in [Requests -> Tokens \cup {NoToken}]
      /\ failedQueue \subseteq Requests
      /\ call[p] = "read" => at[p] \in {"refreshing", "gone"}
      /\ \A q \in failedQueue : at[q] = "queued"
  BY DEF IInv, TypeOK, Queue, Leaders
<1> DEFINE Kept == /\ call'[p] = "read" =>
                        IsPromised(p) \/ (call[p] = "read" /\ carried'[p] = carried[p])
                   /\ call[p] = "read" /\ call'[p] # "read" => p \notin Unserved'
<1>1. ASSUME NEW q \in Requests, RefreshSucceeds(q) \/ RefreshFails(q)
      PROVE  Kept
  BY <1>0, <1>1 DEF Unserved, RefreshSucceeds, RefreshFails, EndRefresh, Move, Waiting, Answered
<1>2. ASSUME NEW q \in Requests,
             Request(q) \/ (Step(q) /\ ~RefreshSucceeds(q) /\ ~RefreshFails(q)) \/ Lose(q)
      PROVE  Kept
  BY <1>0, <1>2 DEF Unserved, Request, Step, Handle, Answer, ReadSession, Rotate, Lose, Send,
     TakeCookies, Settle, GiveUp,
     Enqueue, Lead, RefreshRefused, Forget, Move, Received, page, IsPromised
<1>3. ASSUME NEW t \in Tabs, Unload(t)
      PROVE  Kept
  BY <1>0, <1>3 DEF Unserved, Unload
<1>4. ASSUME UNCHANGED <<call, carried>>
      PROVE  Kept
  BY <1>4
<1> QED
  BY <1>1, <1>2, <1>3, <1>4 DEF Next, Expire, EndSession, vars, sending

(* Sessions begin with a login or an exchange.                              *)
LEMMA LiveStep ==
  ASSUME IInv, [Next]_vars
  PROVE  live' \subseteq live \/ \E p \in Requests : LogsIn(p) \/ Rotate(p)
<1>0. at \in [Requests -> Phases]
  BY DEF IInv, TypeOK
<1>1. ASSUME NEW q \in Requests, Answer(q) PROVE live' \subseteq live \/ LogsIn(q)
  BY <1>0, <1>1 DEF Answer, LogsIn, server
<1>2. ASSUME NEW q \in Requests,
             Request(q) \/ Lose(q) \/ Send(q) \/ TakeCookies(q) \/ ReadSession(q) \/ Handle(q)
      PROVE  live' \subseteq live
  BY <1>2 DEF Request, Lose, Send, TakeCookies, ReadSession, Handle, Settle, GiveUp, Enqueue, Lead, RefreshSucceeds,
     RefreshFails, RefreshRefused, Forget, EndRefresh, server
<1> QED
  BY <1>1, <1>2 DEF Next, Step, Expire, EndSession, Unload, vars, server

(* A refresh that is promised an exchange is known by its tokens.           *)
LEMMA CarriesStep ==
  ASSUME IInv, Carries, [Next]_vars
  PROVE  Carries'
<1> SUFFICES ASSUME NEW p \in Requests, call'[p] = "read" PROVE carried'[p] \in Tokens
  BY DEF Carries
<1>1. IsPromised(p) => carried'[p] \in Tokens
  BY DEF IsPromised, ReadSession, IInv, TypeOK
<1> QED
  BY <1>1, PromiseStep DEF Carries

LEMMA LogsInGrants ==
  ASSUME IInv, [Next]_vars, NEW p \in Requests, LogsIn(p)
  PROVE  Server!Grant(p)
<1>1. /\ at[p] = "sent" /\ call[p] = "none" /\ p \notin retry
      /\ at' = [at EXCEPT ![p] = "ok"] /\ live' = live \cup {p}
      /\ carried' = [carried EXCEPT ![p] = NoToken]
      /\ UNCHANGED <<retry, call>>
  BY ApiClientAssumption DEF LogsIn, Answer, Received, IInv, TypeOK, Leaders
<1>2. p \in Unserved /\ p \notin Unserved' /\ p \in Tokens
  BY <1>1 DEF Unserved, IInv, TypeOK, Tokens
<1>3. Unserved' = Unserved \ {p}
  BY <1>1, <1>2 DEF Unserved, IInv, TypeOK
<1>4. Promised(p) = NoToken /\ \A t \in Tokens : Promised(t)' = Promised(t)
  BY <1>1 DEF Promised, IInv, TypeOK
<1> QED
  BY <1>1, <1>2, <1>3, <1>4 DEF Server!Grant

LEMMA PromisedAccepts ==
  ASSUME IInv, NEW p \in Requests, IsPromised(p)
  PROVE  p \in Tokens /\ carried[p] \in Tokens /\ Server!Accept(p, carried[p])
<1>1. /\ call[p] = "sent" /\ call' = [call EXCEPT ![p] = "read"]
      /\ carried[p] \in live /\ p \in Tokens
      /\ UNCHANGED <<live, at, retry, carried>>
  BY DEF IsPromised, ReadSession, server, Tokens
<1>2. carried[p] \in Tokens
  BY <1>1 DEF IInv, TypeOK
<1>3. p \in Unserved /\ Unserved' = Unserved
  BY <1>1 DEF Unserved, IInv, TypeOK
<1>4. /\ Promised(p) = NoToken /\ Promised(p)' = carried[p]
      /\ \A t \in Tokens \ {p} : Promised(t)' = Promised(t)
  BY <1>1 DEF Promised, IInv, TypeOK
<1> QED
  BY <1>1, <1>2, <1>3, <1>4 DEF Server!Accept

LEMMA RotatingExchanges ==
  ASSUME IInv, Carries, NEW p \in Requests, Rotate(p)
  PROVE  p \in Tokens /\ Server!Exchange(p)
<1>1. /\ call[p] = "read" /\ call' = [call EXCEPT ![p] = "ok"]
      /\ live' = (live \ {carried[p]}) \cup {p}
      /\ at[p] \in {"refreshing", "gone"} /\ p \in Tokens
      /\ carried' = [carried EXCEPT ![p] = NoToken]
      /\ UNCHANGED <<at, retry>>
  BY DEF Rotate, Received, IInv, Leaders, Tokens
<1>2. p \in Unserved /\ Unserved' = Unserved \ {p}
  BY <1>1 DEF Unserved, IInv, TypeOK
<1>3. /\ Promised(p) = carried[p] /\ Promised(p)' = NoToken
      /\ \A t \in Tokens \ {p} : Promised(t)' = Promised(t)
  BY <1>1 DEF Promised, IInv, TypeOK
<1>4. carried[p] # NoToken
  BY <1>1, ApiClientAssumption DEF Carries
<1> QED
  BY <1>1, <1>2, <1>3, <1>4 DEF Server!Exchange

(* Every step of a tab and of what it takes the server for is one of the    *)
(* server's.                                                                *)
LEMMA TokenStep == IInv /\ Carries /\ [Next]_vars => [Server!Next]_Server!vars
<1> SUFFICES ASSUME IInv, Carries, [Next]_vars PROVE Server!Next
  OBVIOUS
<1>1. CASE \E p \in Requests : LogsIn(p)
  BY <1>1, LogsInGrants DEF Server!Next, Tokens
<1>2. CASE \E p \in Requests : IsPromised(p)
  BY <1>2, PromisedAccepts DEF Server!Next
<1>3. CASE \E p \in Requests : Rotate(p)
  BY <1>3, RotatingExchanges DEF Server!Next
<1>4. CASE ~ \E p \in Requests : LogsIn(p) \/ IsPromised(p) \/ Rotate(p)
  <2>1. live' \subseteq live
    BY <1>4, LiveStep
  <2>2. Unserved' \subseteq Unserved
    BY UnservedStep DEF Unserved
  <2>3. \A t \in Tokens : Promised(t)' = IF t \in Unserved' THEN Promised(t) ELSE NoToken
    <3>1. ASSUME NEW t \in Requests
          PROVE  Promised(t)' = IF t \in Unserved' THEN Promised(t) ELSE NoToken
      BY <1>4, PromiseStep DEF Promised, Unserved
    <3>2. ASSUME NEW t, t \notin Requests
          PROVE  Promised(t)' = NoToken /\ t \notin Unserved'
      BY <3>2 DEF Promised, Unserved
    <3> QED
      BY <3>1, <3>2
  <2> QED
    BY <2>1, <2>2, <2>3 DEF Server!Next, Server!End
<1> QED
  BY <1>1, <1>2, <1>3, <1>4

(* The server that the tabs are checked against does what AuthService is    *)
(* proved to do, and no tab asks for more, for any number of requests and   *)
(* tabs, lost messages and reloads.                                         *)
THEOREM TokenPromiseKept == Spec => KeepsTokenPromise
<1>1. Init => Server!Init
  <2> SUFFICES ASSUME Init PROVE Server!Init
    OBVIOUS
  <2>1. Unserved = Requests /\ Requests \subseteq Tokens
    BY DEF Init, Unserved, Tokens
  <2>2. live \subseteq Tokens \ Requests
    BY ApiClientAssumption DEF Init, Tokens
  <2>3. \A t \in Tokens : Promised(t) = NoToken
    BY DEF Init, Promised
  <2> QED
    BY <2>1, <2>2, <2>3 DEF Server!Init
<1>2. Init => Carries
  BY DEF Init, Carries
<1>3. IInv /\ Carries /\ [Next]_vars => Carries'
  BY CarriesStep
<1> QED
  BY <1>1, <1>2, <1>3, TokenStep, Invariant, PTL DEF Spec, KeepsTokenPromise, Server!Spec

(* It follows that a browser's tokens, once their session has ended by a    *)
(* refresh, in this tab or another, or otherwise, are never good again.     *)
THEOREM NoTokenComesBack == Spec => []Server!TypeOK /\ Server!NeverGoodAgain
<1>1. Server!Init => Server!TypeOK
  BY DEF Server!Init, Server!TypeOK
<1>2. Server!TypeOK /\ [Server!Next]_Server!vars => Server!TypeOK'
  <2> USE DEF Server!TypeOK
  <2>1. ASSUME Server!TypeOK, NEW t \in Tokens, Server!Grant(t) PROVE Server!TypeOK'
    BY <2>1 DEF Server!Grant
  <2>2. ASSUME Server!TypeOK, NEW t \in Tokens, NEW s \in Tokens, Server!Accept(t, s)
        PROVE  Server!TypeOK'
    BY <2>2 DEF Server!Accept
  <2>3. ASSUME Server!TypeOK, NEW t \in Tokens, Server!Exchange(t) PROVE Server!TypeOK'
    BY <2>3 DEF Server!Exchange
  <2>4. ASSUME Server!TypeOK, Server!End PROVE Server!TypeOK'
    BY <2>4 DEF Server!End
  <2>5. ASSUME Server!TypeOK, UNCHANGED Server!vars PROVE Server!TypeOK'
    BY <2>5 DEF Server!vars
  <2> QED
    BY <2>1, <2>2, <2>3, <2>4, <2>5 DEF Server!Next
<1>3. [Server!Next]_Server!vars =>
        [\A t \in Tokens \ Unserved : t \notin live => t \notin Unserved' \cup live']_Server!vars
  BY DEF Server!Next, Server!Grant, Server!Accept, Server!Exchange, Server!End
<1> QED
  BY <1>1, <1>2, <1>3, TokenPromiseKept, PTL
     DEF KeepsTokenPromise, Server!Spec, Server!NeverGoodAgain
=============================================================================
