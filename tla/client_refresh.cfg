SPECIFICATION FairResendsSpec
CONSTANTS
  c1 = c1
  c2 = c2
  l1 = l1
  t1 = t1
  t2 = t2
  Calls = {c1, c2}
  Logins = {l1}
  Tabs = {t1, t2}
  Tab <- TwoTabs
  First = First
  NoToken = NoToken
  MaxFaults = 1
INVARIANT
  WaitsForARefresh
  OneRefreshPerTab
  RetriedWithNewTokens
  ResendsBounded
PROPERTY
  QueueSharesTheOutcome
  KeepsTokenPromise
  SettlesOrHangs
CHECK_DEADLOCK FALSE
