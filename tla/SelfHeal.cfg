SPECIFICATION FairSpec
CONSTANTS
  MaxWork = 1
  MaxTurns = 3
  MaxCrashes = 1
  MaxRestarts = 1
  None = None
  Unit = {u1}
  E2E = {e1, e2}
  Filter = TRUE
  EmptyPasses = FALSE
  MaxHealingAttempts = 2
INVARIANTS
  TypeOK
  UsableIsTrue
  VerifiedRan
PROPERTIES
  SettledTurnsIgnored
  HealEnds
