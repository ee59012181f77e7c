SPECIFICATION FairSpec
CONSTANTS
  c1 = c1
  c2 = c2
  l1 = l1
  t1 = t1
  t2 = t2
  Calls = {c1}
  Logins = {}
  Tabs = {t1, t2}
  Tab <- OneTab
  First = First
  NoToken = NoToken
  MaxFaults = 1
PROPERTY
  RefusalLeadsToLogin
CHECK_DEADLOCK FALSE
