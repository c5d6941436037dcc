SPECIFICATION Spec
CONSTANTS
  w1 = w1
  w2 = w2
  w3 = w3
  s1 = s1
  s2 = s2
  Workspaces = {w1, w2}
  Sockets = {}
  Home <- AllOnFirst
  SSHed = {w1}
  Told = {}
  None = None
  MaxActivity = 1
  Size <- OneEach
  Budget = 1
  Hard = 1
  Doomed = {w1, w2}
  Losable = {w1}
  Doubles = {w2}
INVARIANT
  VolumesFit
CHECK_DEADLOCK FALSE
