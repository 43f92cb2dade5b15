CONSTANTS
  Ids = {i1, i2}
  Contents = {c1, c2}
  MaxRevision = 6
  MaxFaults = 3
  MaxHandles = 2
  MaxFiles = 2
SPECIFICATION Spec
SYMMETRY Symmetries
CONSTRAINT OneInDepth
CHECK_DEADLOCK FALSE
INVARIANTS
  RevisionsNotReused
  DatabaseKept
  BackupWhole
  StagedSurvives
