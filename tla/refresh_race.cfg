SPECIFICATION Spec
CONSTANTS
  Registers = {g1}
  Logins = {}
  Refreshes = {r1, r2}
  Logouts = {}
  Calls = {}
  Emails = {e1}
  Names = {n1}
  NoUser = NoUser
  NoToken = NoToken
  MaxFaults = 0
SYMMETRY
  Symmetry
INVARIANT
  RefreshTokenUsedOnce
CHECK_DEADLOCK FALSE
