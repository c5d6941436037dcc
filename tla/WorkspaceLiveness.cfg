SPECIFICATION FairSpec
CONSTANTS
  Workspaces = {1}
  main = main
  topic = topic
  label = label
  None = None
  Branches = {main, topic}
  Labels = {label}
  Branch <- OwnBranch
  Label <- OneLabel
  MaxWork = 2
  MaxSecond = 0
  QuietStop = TRUE
  TemplateLoss = FALSE
  DistinctSeconds = FALSE
PROPERTIES
  StopEvacuated
  DestroyCompletes
  ResumeCompletes
CHECK_DEADLOCK FALSE
