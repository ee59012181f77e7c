-------------------------- MODULE AuthPages_proofs --------------------------
(***************************************************************************)
(* The inductive invariant of the login pages and their guards, for any    *)
(* number of logins and faults; MCPages_proofs has the theorems that rest  *)
(* on it.                                                                  *)
(***************************************************************************)
EXTENDS MCPages, TLAPS

People == {"user", "admin", "nobody"}

LEMMA AccountBounds ==
  /\ MaxFaults \in Nat
  /\ Nothing \notin {"user", "admin", "nobody", "home", "settings", "dashboard",
                  "login", "register"}
  BY BrowserAssumption

----------------------------------------------------------------------------
(* What the operations of the query cache keep.                             *)

LEMMA FetchKeeps ==
  ASSUME NEW q \in Account!Queries(People)
  PROVE  Account!Fetch(q) \in Account!Queries(People)
  BY DEF Account!Queries, Account!Fetch, Account!Fetches

LEMMA TakeKeeps ==
  ASSUME NEW q \in Account!Queries(People)
  PROVE  Account!Take(q) \in Account!Queries(People)
  BY DEF Account!Queries, Account!Take, Account!Fetches, Account!NoQuery

LEMMA ReadKeeps ==
  ASSUME NEW q \in Account!Queries(People), NEW d \in People
  PROVE  Account!Read(q, d) \in Account!Queries(People)
  BY DEF Account!Queries, Account!Read, Account!Fetches

LEMMA SetDataKeeps ==
  ASSUME NEW q \in Account!Queries(People), NEW d \in People
  PROVE  Account!SetData(q, d) \in Account!Queries(People)
  BY DEF Account!Queries, Account!SetData

LEMMA InvalidateKeeps ==
  ASSUME NEW q \in Account!Queries(People)
  PROVE  Account!Invalidate(q, TRUE) \in Account!Queries(People)
  BY DEF Account!Queries, Account!Invalidate, Account!Fetch, Account!Fetches

LEMMA NoQueryTyped == Account!NoQuery \in Account!Queries(People)
  BY DEF Account!Queries, Account!NoQuery, Account!Fetches

LEMMA StickKeeps ==
  ASSUME NEW q \in Account!Queries(People)
  PROVE  Account!Stick(q) \in Account!Queries(People)
  BY DEF Account!Queries, Account!Stick, Account!Fetches

----------------------------------------------------------------------------
(* The inductive invariant.                                                 *)

(* After a confirmed logout there is no session, and no answer on its way   *)
(* that names a user: one that was read before it was dropped with it.      *)
NoUserOnTheWay ==
  loggedOut => /\ ~session /\ ~Account!User(me)
               /\ me.fetch = "read" => me.answer \notin {"user", "admin"}

(* A guard that has found a known user at a form has sent him on.           *)
SentOn == Account!User(me) /\ path \in Account!Public => going # Nothing /\ going # path

(* The hook of the settings page runs on that page only.                    *)
HookAtSettings == hook # "off" => path = "settings"

AccountInv ==
  /\ Account!TypeOK
  /\ NoUserOnTheWay
  /\ SentOn
  /\ HookAtSettings

LEMMA AccountInit == ASSUME Account!Init PROVE AccountInv
<1>1. me \in Account!Queries(People) /\ me.data = Nothing /\ me.fetch = "sent"
  BY NoQueryTyped, FetchKeeps DEF Account!Init, Account!Fetch, Account!NoQuery
<1>2. faults \in 0..MaxFaults
  BY AccountBounds DEF Account!Init
<1>3. Account!TypeOK
  BY <1>1, <1>2 DEF Account!Init, Account!TypeOK, People, Account!HookOf,
     Account!Phases, Account!Submissions
<1>4. ~Account!User(me)
  BY <1>1, AccountBounds DEF Account!User
<1>. QED BY <1>1, <1>3, <1>4 DEF Account!Init, AccountInv, NoUserOnTheWay, SentOn,
   HookAtSettings, Account!HookOf

(* Where a guard may send the user.                                         *)
LEMMA EffectsTyped ==
  ASSUME Account!TypeOK, NEW p \in Account!Paths, NEW q \in Account!Queries(People),
         NEW out \in BOOLEAN,
         NEW g \in Account!Paths \cup {Nothing}, Account!Effects(p, q, out, g)
  PROVE  /\ going' \in Account!Paths \cup {Nothing}
         /\ remembered' \in Account!Protected \cup {Nothing}
<1>1. Account!Target(p, q, out) \in Account!Paths
  BY DEF Account!Target, Account!Paths, Account!Public, Account!Protected
<1>. QED BY <1>1 DEF Account!Effects, Account!TypeOK

LEMMA FormsAreLeft ==
  ASSUME NEW p \in Account!Public, NEW q, NEW out, NEW g, Account!User(q),
         Account!Effects(p, q, out, g)
  PROVE  going' = "dashboard"
<1>1. p \notin Account!Protected /\ p # "admin" /\ p # "dashboard"
  BY DEF Account!Public, Account!Protected
<1>2. ~Account!IsLoading(q)
  BY AccountBounds DEF Account!User, Account!IsLoading
<1>3. Account!Target(p, q, out) = "dashboard"
  BY <1>1, <1>2 DEF Account!Target
<1>. QED BY <1>1, <1>3 DEF Account!Effects

(* Whether a request works or hangs, what the tab keeps of it is typed.      *)
LEMMA OutcomeTyped ==
  ASSUME Account!TypeOK, Account!Works \/ Account!Hangs
  PROVE  hung' \in BOOLEAN /\ faults' \in 0..MaxFaults
<1>1. hung' = TRUE \/ hung' = hung
  BY DEF Account!Works, Account!Hangs
<1>2. hung' \in BOOLEAN
  BY <1>1 DEF Account!TypeOK
<1>3. faults' = faults \/ (faults < MaxFaults /\ faults' = faults + 1)
  BY DEF Account!Works, Account!Hangs, Account!Fault
<1>4. faults' \in 0..MaxFaults
  BY <1>3, AccountBounds DEF Account!TypeOK
<1>. QED BY <1>2, <1>4

LEMMA AnswerMeKeeps ==
  ASSUME AccountInv, Account!AnswerMe
  PROVE  AccountInv'
<1>0. hung' \in BOOLEAN /\ faults' \in 0..MaxFaults
  BY OutcomeTyped DEF AccountInv, Account!AnswerMe
<1>1. me' \in Account!Queries(People)
  BY ReadKeeps, StickKeeps DEF AccountInv, Account!TypeOK, Account!AnswerMe, People
<1>2. Account!TypeOK'
  BY <1>0, <1>1 DEF AccountInv, Account!TypeOK, Account!AnswerMe, People, Account!where,
     Account!requests
<1>3. me'.data = me.data /\ (~session => me'.fetch = "stuck")
  BY DEF AccountInv, Account!TypeOK, Account!Queries, Account!AnswerMe, Account!Read,
     Account!Stick, Account!Works
<1>4. NoUserOnTheWay'
  BY <1>3 DEF AccountInv, NoUserOnTheWay, Account!AnswerMe, Account!User
<1>. QED BY <1>2, <1>3, <1>4 DEF AccountInv, SentOn, HookAtSettings, Account!User,
   Account!AnswerMe, Account!where

LEMMA ReceiveMeKeeps ==
  ASSUME AccountInv, Account!ReceiveMe
  PROVE  AccountInv'
<1>1. me' \in Account!Queries(People) /\ me'.fetch = "idle"
  BY ReadKeeps, TakeKeeps DEF AccountInv, Account!TypeOK, Account!ReceiveMe,
     Account!Learn, Account!Take, Account!NoQuery, People
<1>2. me'.data = me.answer
  BY DEF AccountInv, Account!TypeOK, Account!Queries, Account!ReceiveMe,
     Account!Learn, Account!Take, Account!Read, Account!NoQuery
<1>3. /\ going' \in Account!Paths \cup {Nothing}
      /\ remembered' \in Account!Protected \cup {Nothing}
  BY <1>1, EffectsTyped DEF AccountInv, Account!TypeOK, Account!ReceiveMe, Account!Learn
<1>4. Account!TypeOK'
  BY <1>1, <1>3 DEF AccountInv, Account!TypeOK, Account!ReceiveMe, Account!Learn,
     People, Account!requests
<1>5. NoUserOnTheWay'
  BY <1>1, <1>2 DEF AccountInv, NoUserOnTheWay, Account!ReceiveMe, Account!Learn,
     Account!User
<1>6. SentOn'
  <2>1. CASE me'.data = me.data
    BY <2>1 DEF AccountInv, SentOn, Account!ReceiveMe, Account!Learn, Account!User
  <2>2. CASE me'.data # me.data
    BY <2>2, FormsAreLeft, AccountBounds DEF SentOn, Account!ReceiveMe, Account!Learn,
       Account!Public
  <2>. QED BY <2>1, <2>2
<1>. QED BY <1>4, <1>5, <1>6 DEF AccountInv, HookAtSettings, Account!ReceiveMe,
   Account!Learn

LEMMA LoseMeKeeps ==
  ASSUME AccountInv, Account!LoseMe
  PROVE  AccountInv'
<1>0. faults' \in 0..MaxFaults
  BY AccountBounds DEF AccountInv, Account!TypeOK, Account!LoseMe, Account!Fault
<1>1. me' \in Account!Queries(People) /\ me'.fetch = "idle"
  BY ReadKeeps, TakeKeeps DEF AccountInv, Account!TypeOK, Account!LoseMe,
     Account!Learn, Account!Take, Account!NoQuery, People
<1>2. me'.data = "nobody"
  BY DEF AccountInv, Account!TypeOK, Account!Queries, Account!LoseMe, Account!Learn,
     Account!Take, Account!Read, Account!NoQuery
<1>3. /\ going' \in Account!Paths \cup {Nothing}
      /\ remembered' \in Account!Protected \cup {Nothing}
  BY <1>1, EffectsTyped DEF AccountInv, Account!TypeOK, Account!LoseMe, Account!Learn
<1>4. Account!TypeOK'
  BY <1>1, <1>3, <1>0 DEF AccountInv, Account!TypeOK, Account!LoseMe, Account!Learn,
     People, Account!requests
<1>5. NoUserOnTheWay'
  BY <1>1, <1>2 DEF AccountInv, NoUserOnTheWay, Account!LoseMe, Account!Learn,
     Account!User
<1>6. SentOn'
  <2>1. CASE me'.data = me.data
    BY <2>1 DEF AccountInv, SentOn, Account!LoseMe, Account!Learn, Account!User
  <2>2. CASE me'.data # me.data
    BY <2>2, FormsAreLeft, AccountBounds DEF SentOn, Account!LoseMe, Account!Learn,
       Account!Public
  <2>. QED BY <2>1, <2>2
<1>. QED BY <1>4, <1>5, <1>6 DEF AccountInv, HookAtSettings, Account!LoseMe,
   Account!Learn

LEMMA ReconnectKeeps ==
  ASSUME AccountInv, Account!Reconnect
  PROVE  AccountInv'
<1>0. faults' \in 0..MaxFaults
  BY AccountBounds DEF AccountInv, Account!TypeOK, Account!Reconnect, Account!Fault
<1>1. me' \in Account!Queries(People) /\ me'.data = me.data /\ me'.fetch = "sent"
  BY FetchKeeps DEF AccountInv, Account!TypeOK, Account!Queries, Account!Reconnect,
     Account!Fetch, People
<1>2. Account!TypeOK'
  BY <1>0, <1>1 DEF AccountInv, Account!TypeOK, Account!Reconnect, People,
     Account!where, Account!requests
<1>. QED BY <1>1, <1>2 DEF AccountInv, NoUserOnTheWay, SentOn, HookAtSettings,
   Account!User, Account!Reconnect, Account!where

LEMMA SessionEndsKeeps ==
  ASSUME AccountInv, Account!SessionEnds
  PROVE  AccountInv'
<1>0. faults' \in 0..MaxFaults
  BY AccountBounds DEF AccountInv, Account!TypeOK, Account!SessionEnds, Account!Fault
<1>. QED BY <1>0 DEF AccountInv, Account!TypeOK, NoUserOnTheWay, SentOn,
   HookAtSettings, Account!User, Account!SessionEnds, Account!where, Account!requests

LEMMA NavigateKeeps ==
  ASSUME AccountInv, Account!Navigate
  PROVE  AccountInv'
<1>1. CASE going = path
  BY <1>1 DEF AccountInv, Account!TypeOK, Account!Navigate, NoUserOnTheWay, SentOn,
     HookAtSettings, Account!User
<1>2. CASE going # path
  <2>1. path' = going /\ going \in Account!Paths
    BY <1>2 DEF AccountInv, Account!TypeOK, Account!Navigate, Account!Enter
  <2>2. Account!Effects(path', me, FALSE, Nothing)
    BY <1>2, <2>1 DEF Account!Navigate
  <2>3. /\ going' \in Account!Paths \cup {Nothing}
        /\ remembered' \in Account!Protected \cup {Nothing}
    BY <2>1, <2>2, EffectsTyped DEF AccountInv, Account!TypeOK, People
  <2>4. Account!TypeOK'
    BY <1>2, <2>1, <2>3 DEF AccountInv, Account!TypeOK, Account!Navigate,
       Account!Enter, Account!HookOf
  <2>5. SentOn'
    <3>1. me' = me
      BY DEF Account!Navigate
    <3>2. CASE Account!User(me) /\ path' \in Account!Public
      <4>1. going' = "dashboard"
        BY <2>2, <3>2, FormsAreLeft
      <4>. QED BY <3>2, <4>1, AccountBounds DEF SentOn, Account!Public
    <3>. QED BY <3>1, <3>2 DEF SentOn
  <2>. QED BY <1>2, <2>4, <2>5 DEF AccountInv, NoUserOnTheWay, HookAtSettings,
     Account!HookOf, Account!Navigate, Account!Enter, Account!User
<1>. QED BY <1>1, <1>2

LEMMA FollowKeeps ==
  ASSUME NEW p \in Account!Paths, AccountInv, Account!Follow(p)
  PROVE  AccountInv'
<1>1. Account!TypeOK'
  BY DEF AccountInv, Account!TypeOK, Account!Follow, Account!requests, Account!Phases,
     Account!Submissions, Account!InPhase, Account!Public, Account!Paths,
     Account!Protected
<1>2. NoUserOnTheWay'
  BY AccountBounds DEF AccountInv, Account!TypeOK, Account!Follow, NoUserOnTheWay,
     Account!User, Account!where, Account!requests
<1>3. SentOn'
  BY AccountBounds DEF AccountInv, Account!TypeOK, Account!Follow, SentOn,
     HookAtSettings, Account!User, Account!where, Account!requests, Account!Public,
     Account!Protected, Account!Paths
<1>4. HookAtSettings'
  BY DEF AccountInv, Account!Follow, HookAtSettings, Account!requests
<1>. QED BY <1>1, <1>2, <1>3, <1>4 DEF AccountInv

LEMMA LoadKeeps ==
  ASSUME NEW p \in Account!Paths, AccountInv, Account!Load(p)
  PROVE  AccountInv'
<1>0. faults' \in 0..MaxFaults
  BY AccountBounds DEF AccountInv, Account!TypeOK, Account!Load, Account!Fault
<1>1. me' \in Account!Queries(People) /\ me'.data = Nothing /\ me'.fetch = "sent"
  BY NoQueryTyped, FetchKeeps DEF Account!Load, Account!Fetch, Account!NoQuery
<1>2. logins' \in [Account!Submissions -> [kind : Account!Public,
   phase : Account!Phases] \cup {Nothing}]
  BY DEF AccountInv, Account!TypeOK, Account!Load, Account!Phases
<1>3. Account!TypeOK'
  BY <1>0, <1>1, <1>2 DEF AccountInv, Account!TypeOK, Account!Load, Account!Enter,
     Account!HookOf, People, Account!Phases
<1>4. ~Account!User(me)'
  BY <1>1, AccountBounds DEF Account!User
<1>. QED BY <1>1, <1>3, <1>4 DEF AccountInv, NoUserOnTheWay, SentOn, HookAtSettings,
   Account!HookOf, Account!Load, Account!Enter

LEMMA TimerFiresKeeps ==
  ASSUME AccountInv, Account!TimerFires
  PROVE  AccountInv'
<1>1. /\ going' \in Account!Paths \cup {Nothing}
      /\ remembered' \in Account!Protected \cup {Nothing}
  BY EffectsTyped DEF AccountInv, Account!TypeOK, Account!TimerFires, People
<1>2. path \notin Account!Public
  BY DEF Account!TimerFires, Account!Waits, Account!Public, Account!Protected
<1>. QED BY <1>1, <1>2 DEF AccountInv, Account!TypeOK, NoUserOnTheWay, SentOn,
   HookAtSettings, Account!User, Account!TimerFires, Account!requests

LEMMA AnswerHookKeeps ==
  ASSUME AccountInv, Account!AnswerHook
  PROVE  AccountInv'
<1>0. hung' \in BOOLEAN /\ faults' \in 0..MaxFaults
  BY OutcomeTyped DEF AccountInv, Account!AnswerHook
<1>1. Account!TypeOK'
  BY <1>0 DEF AccountInv, Account!TypeOK, Account!AnswerHook, Account!requests,
     Account!Phases, Account!Submissions, Account!InPhase, Account!Public,
     Account!Paths, Account!Protected
<1>2. NoUserOnTheWay'
  BY AccountBounds DEF AccountInv, Account!TypeOK, Account!AnswerHook, NoUserOnTheWay,
     Account!User, Account!where, Account!requests
<1>3. SentOn'
  BY AccountBounds DEF AccountInv, Account!TypeOK, Account!AnswerHook, SentOn,
     HookAtSettings, Account!User, Account!where, Account!requests, Account!Public,
     Account!Protected, Account!Paths
<1>4. HookAtSettings'
  BY DEF AccountInv, Account!AnswerHook, HookAtSettings, Account!requests
<1>. QED BY <1>1, <1>2, <1>3, <1>4 DEF AccountInv

LEMMA LoseHookKeeps ==
  ASSUME AccountInv, Account!LoseHook
  PROVE  AccountInv'
<1>0. faults' \in 0..MaxFaults
  BY AccountBounds DEF AccountInv, Account!TypeOK, Account!LoseHook, Account!Fault
<1>1. Account!TypeOK'
  BY <1>0 DEF AccountInv, Account!TypeOK, Account!LoseHook, Account!where,
     Account!requests, Account!Phases, Account!Submissions, Account!InPhase,
     Account!Public, Account!Paths, Account!Protected
<1>2. NoUserOnTheWay'
  BY DEF AccountInv, Account!LoseHook, NoUserOnTheWay, Account!User, Account!where,
     Account!requests
<1>3. SentOn'
  BY DEF AccountInv, Account!LoseHook, SentOn, HookAtSettings, Account!User,
     Account!where, Account!requests, Account!Public, Account!Protected, Account!Paths
<1>4. HookAtSettings'
  BY DEF AccountInv, Account!TypeOK, Account!LoseHook, Account!Fault, HookAtSettings,
     Account!where, Account!requests
<1>. QED BY <1>1, <1>2, <1>3, <1>4 DEF AccountInv

LEMMA SubmitKeeps ==
  ASSUME NEW i \in Account!Submissions, NEW kind \in Account!Public, AccountInv,
         Account!Submit(i, kind)
  PROVE  AccountInv'
<1>1. Account!TypeOK'
  BY AccountBounds DEF AccountInv, Account!TypeOK, Account!Submit, Account!where,
     Account!requests, Account!Phases, Account!Submissions, Account!InPhase,
     Account!Public, Account!Paths, Account!Protected
<1>2. NoUserOnTheWay'
  BY AccountBounds DEF AccountInv, Account!TypeOK, Account!Submit, NoUserOnTheWay,
     Account!User, Account!where, Account!requests
<1>3. SentOn'
  BY AccountBounds DEF AccountInv, Account!TypeOK, Account!Submit, SentOn,
     HookAtSettings, Account!User, Account!where, Account!requests, Account!Public,
     Account!Protected, Account!Paths
<1>4. HookAtSettings'
  BY DEF AccountInv, Account!TypeOK, Account!Submit, HookAtSettings, Account!where,
     Account!requests
<1>. QED BY <1>1, <1>2, <1>3, <1>4 DEF AccountInv

LEMMA AnswerSubmitKeeps ==
  ASSUME NEW i \in Account!Submissions, AccountInv, Account!AnswerSubmit(i)
  PROVE  AccountInv'
<1>1. logins' \in [Account!Submissions -> [kind : Account!Public,
   phase : Account!Phases] \cup {Nothing}]
  BY DEF AccountInv, Account!TypeOK, Account!AnswerSubmit, Account!InPhase,
     Account!Turn, Account!Phases
<1>2. session' \in BOOLEAN /\ hung' \in BOOLEAN /\ loggedOut' \in BOOLEAN
  BY DEF AccountInv, Account!TypeOK, Account!AnswerSubmit
<1>3. loggedOut' => loggedOut /\ session' = session
  BY DEF Account!AnswerSubmit
<1>4. Account!TypeOK'
  BY <1>1, <1>2 DEF AccountInv, Account!TypeOK, Account!AnswerSubmit, Account!where
<1>. QED BY <1>3, <1>4 DEF AccountInv, NoUserOnTheWay, SentOn, HookAtSettings,
   Account!AnswerSubmit, Account!where

LEMMA LoseSubmitKeeps ==
  ASSUME NEW i \in Account!Submissions, AccountInv, Account!LoseSubmit(i)
  PROVE  AccountInv'
<1>0. faults' \in 0..MaxFaults
  BY AccountBounds DEF AccountInv, Account!TypeOK, Account!LoseSubmit, Account!Fault
<1>1. Account!TypeOK'
  BY <1>0 DEF AccountInv, Account!TypeOK, Account!LoseSubmit, Account!Turn,
     Account!where, Account!requests, Account!Phases, Account!Submissions,
     Account!InPhase, Account!Public, Account!Paths, Account!Protected
<1>2. NoUserOnTheWay'
  BY DEF AccountInv, Account!LoseSubmit, Account!Turn, NoUserOnTheWay, Account!User,
     Account!where, Account!requests
<1>3. SentOn'
  BY DEF AccountInv, Account!LoseSubmit, Account!Turn, SentOn, HookAtSettings,
     Account!User, Account!where, Account!requests, Account!Public, Account!Protected,
     Account!Paths
<1>4. HookAtSettings'
  BY DEF AccountInv, Account!LoseSubmit, HookAtSettings, Account!where, Account!requests
<1>. QED BY <1>1, <1>2, <1>3, <1>4 DEF AccountInv

LEMMA SucceedKeeps ==
  ASSUME NEW i \in Account!Submissions, AccountInv, Account!Succeed(i)
  PROVE  AccountInv'
<1>1. me' \in Account!Queries(People) /\ me'.data = me.data
  BY InvalidateKeeps DEF AccountInv, Account!TypeOK, Account!Queries, Account!Succeed,
     Account!AskAgain, Account!Invalidate, Account!Fetch, People
<1>2. me'.fetch = "read" => me.fetch = "read" /\ me'.answer = me.answer
  BY DEF AccountInv, Account!TypeOK, Account!Queries, Account!Succeed,
     Account!AskAgain, Account!Invalidate, Account!Fetch
<1>3. logins' \in [Account!Submissions -> [kind : Account!Public,
   phase : Account!Phases] \cup {Nothing}]
  BY DEF AccountInv, Account!TypeOK, Account!Succeed, Account!InPhase, Account!Turn,
     Account!Phases
<1>4. going' \in Account!Protected /\ remembered' \in Account!Protected \cup {Nothing}
  BY DEF AccountInv, Account!TypeOK, Account!Succeed, Account!Protected
<1>5. submitting' \in BOOLEAN
  BY DEF Account!Succeed
<1>6. Account!TypeOK'
  BY <1>1, <1>3, <1>4, <1>5 DEF AccountInv, Account!TypeOK, Account!Succeed, People,
     Account!Paths
<1>7. SentOn'
  BY <1>4, AccountBounds DEF SentOn, Account!Succeed, Account!Protected, Account!Public
<1>. QED BY <1>1, <1>2, <1>6, <1>7 DEF AccountInv, NoUserOnTheWay, HookAtSettings,
   Account!User, Account!Succeed

LEMMA ShowErrorKeeps ==
  ASSUME NEW i \in Account!Submissions, AccountInv, Account!ShowError(i)
  PROVE  AccountInv'
<1>1. Account!TypeOK'
  BY AccountBounds DEF AccountInv, Account!TypeOK, Account!ShowError, Account!Turn,
     Account!where, Account!requests, Account!Phases, Account!Submissions,
     Account!InPhase, Account!Public, Account!Paths, Account!Protected
<1>2. NoUserOnTheWay'
  BY DEF AccountInv, Account!ShowError, NoUserOnTheWay, Account!User, Account!where,
     Account!requests
<1>3. SentOn'
  BY DEF AccountInv, Account!ShowError, SentOn, HookAtSettings, Account!User,
     Account!where, Account!requests, Account!Public, Account!Protected, Account!Paths
<1>4. HookAtSettings'
  BY DEF AccountInv, Account!TypeOK, Account!ShowError, Account!Turn, HookAtSettings,
     Account!where, Account!requests
<1>. QED BY <1>1, <1>2, <1>3, <1>4 DEF AccountInv

LEMMA LogoutKeeps ==
  ASSUME AccountInv, Account!Logout
  PROVE  AccountInv'
<1>1. Account!TypeOK'
  BY AccountBounds DEF AccountInv, Account!TypeOK, Account!Logout, Account!where,
     Account!requests, Account!Phases, Account!Submissions, Account!InPhase,
     Account!Public, Account!Paths, Account!Protected
<1>2. NoUserOnTheWay'
  BY AccountBounds DEF AccountInv, Account!TypeOK, Account!Logout, NoUserOnTheWay,
     Account!User, Account!where, Account!requests
<1>3. SentOn'
  BY AccountBounds DEF AccountInv, Account!TypeOK, Account!Logout, SentOn,
     HookAtSettings, Account!User, Account!where, Account!requests, Account!Public,
     Account!Protected, Account!Paths
<1>4. HookAtSettings'
  BY DEF AccountInv, Account!TypeOK, Account!Logout, HookAtSettings, Account!where,
     Account!requests
<1>. QED BY <1>1, <1>2, <1>3, <1>4 DEF AccountInv

LEMMA AnswerLogoutKeeps ==
  ASSUME AccountInv, Account!AnswerLogout
  PROVE  AccountInv'
<1>1. logout' \in Account!Phases
  BY DEF Account!AnswerLogout, Account!Phases
<1>2. session' = FALSE \/ session' = session
  BY DEF Account!AnswerLogout
<1>3. session' => session
  BY <1>2
<1>4. session' \in BOOLEAN
  BY <1>2 DEF AccountInv, Account!TypeOK
<1>5. hung' \in BOOLEAN /\ faults' \in 0..MaxFaults
  BY OutcomeTyped DEF AccountInv, Account!AnswerLogout
<1>. QED BY <1>1, <1>3, <1>4, <1>5 DEF AccountInv, Account!TypeOK, NoUserOnTheWay, SentOn,
   HookAtSettings, Account!User, Account!AnswerLogout, Account!where

LEMMA LoseLogoutKeeps ==
  ASSUME AccountInv, Account!LoseLogout
  PROVE  AccountInv'
<1>0. faults' \in 0..MaxFaults
  BY AccountBounds DEF AccountInv, Account!TypeOK, Account!LoseLogout, Account!Fault
<1>1. Account!TypeOK'
  BY <1>0 DEF AccountInv, Account!TypeOK, Account!LoseLogout, Account!where,
     Account!requests, Account!Phases, Account!Submissions, Account!InPhase,
     Account!Public, Account!Paths, Account!Protected
<1>2. NoUserOnTheWay'
  BY DEF AccountInv, Account!LoseLogout, NoUserOnTheWay, Account!User, Account!where,
     Account!requests
<1>3. SentOn'
  BY DEF AccountInv, Account!LoseLogout, SentOn, HookAtSettings, Account!User,
     Account!where, Account!requests, Account!Public, Account!Protected, Account!Paths
<1>4. HookAtSettings'
  BY DEF AccountInv, Account!TypeOK, Account!LoseLogout, Account!Fault,
     HookAtSettings, Account!where, Account!requests
<1>. QED BY <1>1, <1>2, <1>3, <1>4 DEF AccountInv

LEMMA EndLogoutKeeps ==
  ASSUME AccountInv, Account!EndLogout
  PROVE  AccountInv'
<1>1. me' \in Account!Queries(People)
  BY SetDataKeeps, InvalidateKeeps DEF AccountInv, Account!TypeOK, Account!EndLogout,
     Account!Forgotten, People
<1>2. me'.data = "nobody" /\ me'.fetch = "sent"
  BY AccountBounds DEF AccountInv, Account!TypeOK, Account!Queries, Account!EndLogout,
     Account!Forgotten, Account!Invalidate, Account!SetData, Account!Fetch
<1>3. /\ going' \in Account!Paths \cup {Nothing}
      /\ remembered' \in Account!Protected \cup {Nothing}
  BY <1>1, EffectsTyped DEF AccountInv, Account!TypeOK, Account!EndLogout,
     Account!Paths, Account!Public
<1>4. loggedOut' \in BOOLEAN /\ (loggedOut' => ~session)
  BY DEF Account!EndLogout
<1>5. Account!TypeOK'
  BY <1>1, <1>3, <1>4 DEF AccountInv, Account!TypeOK, Account!EndLogout, People,
     Account!Phases
<1>6. ~Account!User(me)'
  BY <1>2 DEF Account!User
<1>. QED BY <1>2, <1>4, <1>5, <1>6 DEF AccountInv, NoUserOnTheWay, SentOn,
   HookAtSettings, Account!EndLogout

LEMMA AccountNext == ASSUME AccountInv, Account!Next PROVE AccountInv'
<1>1. CASE \/ Account!AnswerMe \/ Account!ReceiveMe \/ Account!AnswerHook
           \/ Account!Navigate \/ Account!TimerFires \/ Account!LoseMe
           \/ Account!Reconnect
  BY <1>1, AnswerMeKeeps, ReceiveMeKeeps, AnswerHookKeeps, NavigateKeeps,
     TimerFiresKeeps, LoseMeKeeps, ReconnectKeeps
<1>2. CASE \/ Account!SessionEnds \/ Account!LoseHook \/ Account!LoseLogout
           \/ Account!Logout \/ Account!AnswerLogout \/ Account!EndLogout
  BY <1>2, SessionEndsKeeps, LoseHookKeeps, LoseLogoutKeeps, LogoutKeeps,
     AnswerLogoutKeeps, EndLogoutKeeps
<1>3. ASSUME NEW p \in Account!Paths,
             Account!Follow(p) \/ Account!Load(p)
      PROVE  AccountInv'
  BY <1>3, FollowKeeps, LoadKeeps
<1>4. ASSUME NEW i \in Account!Submissions,
             Account!AnswerSubmit(i) \/ Account!Succeed(i) \/ Account!ShowError(i)
             \/ Account!LoseSubmit(i)
      PROVE  AccountInv'
  BY <1>4, AnswerSubmitKeeps, SucceedKeeps, ShowErrorKeeps, LoseSubmitKeeps
<1>5. ASSUME NEW i \in Account!Submissions, NEW kind \in Account!Public,
             Account!Submit(i, kind)
      PROVE  AccountInv'
  BY <1>5, SubmitKeeps
<1>. QED BY <1>1, <1>2, <1>3, <1>4, <1>5 DEF Account!Next, Account!Progress

LEMMA AccountElse ==
  ASSUME AccountInv, UNCHANGED account, faults' \in 0..MaxFaults
  PROVE  AccountInv'
  BY DEF account, AccountInv, Account!TypeOK, NoUserOnTheWay, SentOn, HookAtSettings,
     Account!User
=============================================================================
