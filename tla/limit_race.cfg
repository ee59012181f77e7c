SPECIFICATION Spec
CONSTANTS
  Files = {f1}
  Downloads = {d1, d2}
  Deletes = {}
  Revokes = {}
  Workers = {}
  Options <- RaceOptions
  NotGiven = NotGiven
  NoFile = NoFile
  Batch = 1
  MaxFaults = 0
INVARIANT
  DownloadLimitEnforced
CHECK_DEADLOCK FALSE
