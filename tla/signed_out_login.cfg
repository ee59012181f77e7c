SPECIFICATION FairSpec
CONSTANTS
  Files = {f1, f2}
  Opened = {f1}
  Nothing = Nothing
  MaxFaults = 0
  MaxJobs = 2
  MaxUploads = 2
  MaxLogins = 1
  PageSize = 2
  MaxEntries = 3
  MaxRequests = 2
  Window = 3
  Horizon = 6
PROPERTY LoginTakesEffect
CHECK_DEADLOCK FALSE
