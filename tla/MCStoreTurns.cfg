CONSTANTS
  NoValue = NoValue
  t1 = t1
  t2 = t2
  Producers = {p1}
  Runs = {r1}
  Turns <- TwoTurns
  e1 = e1
  e2 = e2
  e3 = e3
  EventIds <- ThreeEvents
  Payloads <- TwoTurnPayloads
  Policies <- TrustedPolicies
  Baselines <- TwoTurnBaselines
  FirstSequences <- FirstOrLast
  NotifyChoices <- Never
  LostCounts <- None
  ReuseEventIds = FALSE
  MaxSeq = 3
  MaxRevision = 6
  MaxGeneration = 2
  MaxDiscarded = 0
  MaxFacts = 3
  MaxAttention = 6
  MaxTombstones = 3
  MaxOutboxAudit = 2
  MaxOutboxPending = 1
SPECIFICATION Spec
SYMMETRY EventSymmetry
CHECK_DEADLOCK FALSE
INVARIANTS
  EvidenceConsistent
  EndedTurnsProtected
  OneOutcomePerTurn
  EndedTurnsAskNothing
PROPERTIES
  ImplementsGenerationLog
