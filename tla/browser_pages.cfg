SPECIFICATION FairSpec
CONSTANTS
  Files = {f1, f2}
  Opened = {f1}
  Nothing = Nothing
  MaxFaults = 1
  MaxJobs = 2
  MaxUploads = 2
  MaxLogins = 1
  PageSize = 2
  MaxEntries = 3
  MaxRequests = 2
  Window = 3
  Horizon = 6
INVARIANTS
  SettledListIsTrue
  DeletedDetailsAreGone
  OnceMeansOne
  RepeatsFollowAnError
  LogoutSticks
  NoFormForUser
  NeverStranded
  
  BurstBound
PROPERTIES
  GuardDecides
  KnownTabLogsIn
CHECK_DEADLOCK FALSE
