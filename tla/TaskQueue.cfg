SPECIFICATION FairSpec
CONSTANTS
  alpha = alpha
  beta = beta
  Tasks = {1, 2}
  Hosts = {alpha, beta}
  Host <- FirstApart
  Limit = 1
  Chain = 1
  Readings = {"fine", "auth"}
  MaxLag = 1
PROPERTIES
  InOrder
  QueueDrains
