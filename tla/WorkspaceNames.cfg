SPECIFICATION Spec
CONSTANTS
  Workspaces = {1, 2}
  main = main
  topic = topic
  label = label
  None = None
  Branches = {main, topic}
  Labels = {label}
  Branch <- OwnBranch
  Label <- OneLabel
  MaxWork = 0
  MaxSecond = 0
  QuietStop = TRUE
  TemplateLoss = FALSE
  DistinctSeconds = FALSE
INVARIANT UniqueIds
CHECK_DEADLOCK FALSE
