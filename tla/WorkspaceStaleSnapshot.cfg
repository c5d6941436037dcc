SPECIFICATION Spec
CONSTANTS
  Workspaces = {1}
  main = main
  topic = topic
  label = label
  None = None
  Branches = {main, topic}
  Labels = {label}
  Branch <- OwnBranch
  Label <- OneLabel
  MaxWork = 1
  MaxSecond = 0
  QuietStop = TRUE
  TemplateLoss = FALSE
  DistinctSeconds = FALSE
PROPERTY ConfirmedMeansCaptured
CHECK_DEADLOCK FALSE
