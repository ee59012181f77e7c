SPECIFICATION FairSpec
CONSTANTS
  Files = {f1}
  Downloads = {d1}
  Deletes = {x1}
  Revokes = {v1}
  Workers = {w1}
  Options <- BurnOptions
  NotGiven = NotGiven
  NoFile = NoFile
  Batch = 1
  MaxFaults = 1
INVARIANT
  DestructionComplete
  AuditTruthful
  LiveMeansIntact
  DeletedMeansWiped
PROPERTY
  NeverUndone
  RequestsAnswered
CHECK_DEADLOCK FALSE
