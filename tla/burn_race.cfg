SPECIFICATION Spec
CONSTANTS
  Files = {f1}
  Downloads = {d1}
  Deletes = {}
  Revokes = {}
  Workers = {w1}
  Options <- RaceOptions
  NotGiven = NotGiven
  NoFile = NoFile
  Batch = 1
  MaxFaults = 0
INVARIANT
  BurnIsIdempotent
CHECK_DEADLOCK FALSE
