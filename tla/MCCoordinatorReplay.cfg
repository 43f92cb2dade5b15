CONSTANTS
  NoValue = NoValue
  t1 = t1
  Producers = {p1}
  Runs = {r1}
  Turns <- OneTurn
  e1 = e1
  e2 = e2
  EventIds <- TwoEvents
  Payloads <- AllPayloads
  Policies <- TrustedPolicies
  Baselines <- FreshStart
  FirstSequences <- FirstOrLast
  NotifyChoices <- Never
  LostCounts <- None
  Envelopes <- ThreeEnvelopes
  CleanupFacts = TRUE
  ReuseEventIds = TRUE
  MaxSeq = 2
  MaxRevision = 4
  MaxGeneration = 2
  MaxDiscarded = 3
  MaxFacts = 2
  MaxAttention = 4
  MaxTombstones = 2
  MaxOutboxAudit = 0
  MaxOutboxPending = 0
  MaxOutstanding = 1
  MaxRetries = 1
  MaxQueued = 0
  MaxSpool = 1
  MaxStops = 0
  MaxCrashes = 1
SPECIFICATION CoordSpec
CHECK_DEADLOCK FALSE
INVARIANTS
  AcceptedInOrder
PROPERTIES
  SerializableWrites
  ConfirmedDurable
