SPECIFICATION OverlapSpec
CONSTANTS
  Files = {f1}
  Downloads = {d1, d2}
  Deletes = {x1}
  Revokes = {v1}
  Workers = {w1}
  Options <- RaceOptions
  NotGiven = NotGiven
  NoFile = NoFile
  Batch = 1
  MaxFaults = 0
SYMMETRY
  Symmetry
INVARIANT
  TypeOK
  ServedIsCounted
  OneTimeDestroyedFirst
  OverrunBounded
  DestructionsBounded
PROPERTY
  KeepsLinkPromise
CHECK_DEADLOCK FALSE
