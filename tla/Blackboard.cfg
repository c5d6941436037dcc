SPECIFICATION FairSpec
CONSTANTS
  a = a
  b = b
  c = c
  x = x
  y = y
  Workspaces = {a, b}
  Files = {x}
  None = None
  MaxChanges = 3
  MaxDeaths = 1
PROPERTIES
  RepeatsNothing
  EventuallyConsistent
CHECK_DEADLOCK FALSE
