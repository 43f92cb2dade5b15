CONSTANTS
  Tasks = {t1, t2}
  MaxRuns = 2
  MaxServers = 2
  MaxTerminals = 2
  MaxJobs = 2
  MaxLate = 1
  MaxCrashes = 1
SPECIFICATION Spec
SYMMETRY LaunchSymmetry
CONSTRAINT OneRunInDepth
CHECK_DEADLOCK FALSE
INVARIANTS
  HandoffOnce
  StoppedMeansGone
  TerminalTracked
  WritersAcknowledged
PROPERTIES
  SignalsIntended
