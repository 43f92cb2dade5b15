SPECIFICATION Spec
CONSTANTS
  MaxRequests = 3
  MaxManagers = 2
  MaxConnections = 2
  QueueSize = 1
  MaxOutstanding = 2
  MaxCrashes = 1
INVARIANTS
  ListSettles
PROPERTIES
  WrittenOverSeen
  ImplementsRevisionRegister
  StopDrains
CHECK_DEADLOCK FALSE
CONSTRAINT ThirdRequestOfFirst
