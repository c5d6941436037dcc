SPECIFICATION FairSpec
CONSTANTS
  alpha = alpha
  beta = beta
  Tasks = {1}
  Hosts = {alpha}
  Host <- AllTogether
  Limit = 1
  Chain = 2
  Readings = {"unknown", "fine", "auth", "model", "account"}
  MaxLag = 1
PROPERTIES
  SwitchTakesEffect
