SPECIFICATION Spec
CONSTANTS
  MaxWork = 1
  MaxTurns = 4
  MaxCrashes = 0
  MaxRestarts = 1
  None = None
  Unit = {u1}
  E2E = {e1, e2}
  Filter = TRUE
  EmptyPasses = FALSE
  MaxHealingAttempts = 2
PROPERTY
  OwnTurnsIgnored
