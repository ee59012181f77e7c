SPECIFICATION FairSpec
CONSTANTS
  Files = {f1, f2}
  Downloads = {d1}
  Deletes = {}
  Revokes = {}
  Workers = {w1}
  Options <- OneTimeOption
  NotGiven = NotGiven
  NoFile = NoFile
  Batch = 1
  MaxFaults = 2
PROPERTY
  ExpiredEventuallyDestroyed
CHECK_DEADLOCK FALSE
