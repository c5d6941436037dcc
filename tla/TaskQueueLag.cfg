SPECIFICATION Spec
CONSTANTS
  alpha = alpha
  beta = beta
  Tasks = {1, 2}
  Hosts = {alpha, beta}
  Host <- FirstApart
  Limit = 1
  Chain = 1
  Readings = {"unknown", "fine", "auth"}
  MaxLag = 2
INVARIANTS
  LimitHeld
