CONSTANTS
  NoValue = NoValue
  t1 = t1
  t2 = t2
  Turns <- MCTurns
  Policies <- MCPolicies
  HealthReports <- MCHealthReports
  Evidences <- MCEvidences
SPECIFICATION Spec
SYMMETRY Symm
INVARIANTS
  EffectsAdmissible
  NeverSelfRejects
PROPERTIES
  OutcomeKept
  FirstOutcomeWins
  ApprovalSticky
