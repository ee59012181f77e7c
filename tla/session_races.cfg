SPECIFICATION OverlapSpec
CONSTANTS
  Registers = {g1, g2}
  Logins = {l1}
  Refreshes = {r1, r2}
  Logouts = {o1}
  Calls = {c1}
  Emails = {e1, e2}
  Names = {n1, n2}
  NoUser = NoUser
  NoToken = NoToken
  MaxFaults = 1
SYMMETRY
  Symmetry
INVARIANT
  AccountsDistinct
  OnlyOwnTokensEndASession
  SuccessorReplaces
  AdminsOnly
  SuccessorsBounded
  OneSessionPerLogin
  LogoutEndsTheLogin
PROPERTY
  ReplayRefused
  KeepsTokenPromise
CHECK_DEADLOCK FALSE
