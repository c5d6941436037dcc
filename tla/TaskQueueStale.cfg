SPECIFICATION Spec
CONSTANTS
  alpha = alpha
  beta = beta
  Tasks = {1, 2, 3}
  Hosts = {alpha}
  Host <- AllTogether
  Limit = 1
  Chain = 2
  Readings = {"unknown", "fine", "model"}
  MaxLag = 1
INVARIANTS
  TypeOK
  OverrunBounded
PROPERTIES
  HandedOutOnce
