SPECIFICATION FairSpec
CONSTANTS
  w1 = w1
  w2 = w2
  w3 = w3
  s1 = s1
  s2 = s2
  Workspaces = {w1}
  Sockets = {s1, s2}
  Home <- AllOnFirst
  SSHed = {w1}
  Told = {w1}
  None = None
  MaxActivity = 1
  Size <- OneEach
  Budget = 1
  Hard = 1
  Doomed = {}
  Losable = {}
  Doubles = {}
INVARIANTS
  CountSettles
PROPERTIES
  StopSparesHolders
  HalfStopHeals
CHECK_DEADLOCK FALSE
