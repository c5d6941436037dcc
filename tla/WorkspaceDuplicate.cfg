SPECIFICATION Spec
CONSTANTS
  Workspaces = {1, 2}
  main = main
  topic = topic
  label = label
  None = None
  Branches = {main, topic}
  Labels = {label}
  Branch <- SameBranch
  Label <- OneLabel
  MaxWork = 1
  MaxSecond = 1
  QuietStop = TRUE
  TemplateLoss = FALSE
  DistinctSeconds = TRUE
PROPERTY FinalizerHeld
CHECK_DEADLOCK FALSE
