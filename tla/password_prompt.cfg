SPECIFICATION Spec
CONSTANTS
  Files = {f1, f2}
  Opened = {f1}
  Nothing = Nothing
  MaxFaults = 1
  MaxJobs = 2
  MaxUploads = 2
  MaxLogins = 1
  PageSize = 2
  MaxEntries = 4
  MaxRequests = 2
  Window = 3
  Horizon = 6
PROPERTY PasswordIsAsked
CHECK_DEADLOCK FALSE
