CONSTANTS
  NoValue = NoValue
  Producers = {p1, p2}
  Runs = {r1}
  e1 = e1
  e2 = e2
  e3 = e3
  EventIds <- MCEventIds
  granted = granted
  other = other
  Kinds <- MCKinds
  Grants <- OneGrant
  FrameLength <- UnevenFrames
  MaxSeq = 3
  MaxGeneration = 3
  MaxSessions = 2
  MaxCount = 1
  MaxProducers = 2
  MaxQueued = 3
  MaxProducerQueued = 2
  MaxProducerReceipts = 2
  MaxReceipts = 3
  MaxReceiptBytes = 4
SPECIFICATION Spec
SYMMETRY AdmissionSymmetry
CHECK_DEADLOCK FALSE
INVARIANTS
  RingIsBacklog
  ServedInTurn
  CountersExact
  BacklogIsLatestReceipts
