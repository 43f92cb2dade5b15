CONSTANTS
  NoValue = NoValue
  t1 = t1
  t2 = t2
  Producers = {p1, p2}
  Runs = {r1}
  Turns <- OneTurn
  e1 = e1
  e2 = e2
  e3 = e3
  EventIds <- TwoEvents
  Payloads <- OneTurnPayloads
  Policies <- TrustedPolicies
  Baselines <- OneTurnBaselines
  FirstSequences <- FirstOrLast
  NotifyChoices <- Always
  LostCounts <- UpToOne
  ReuseEventIds = FALSE
  MaxSeq = 2
  MaxRevision = 5
  MaxGeneration = 3
  MaxDiscarded = 1
  MaxFacts = 2
  MaxAttention = 4
  MaxTombstones = 1
  MaxOutboxAudit = 2
  MaxOutboxPending = 1
SPECIFICATION Spec
SYMMETRY EventSymmetry
CHECK_DEADLOCK FALSE
INVARIANTS
  TypeOK
  OneObserverPerRun
  RetirementNeverRefused
  FreshMeansObserved
  OutcomeRevisionUnique
PROPERTIES
  HumanStateKept
