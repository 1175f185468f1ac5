SPECIFICATION FairSpec

CONSTANTS
  Tasks <- ShopTasks
  Projects <- Shop
  ProjectOf <- ShopOf
  HighRisk <- NoRisk
  Scopes <- ShopScopes
  Title <- ShopTitle
  DependsOn <- ShopDependsOn
  Zone = "equal"
  MaxApprovals = 1
  MaxRuns = 1
  MaxTasksPerRun = 3
  MaxFailures = 2
  MaxSolo = 1
  MaxDisturbances = 0

PROPERTY StopEndsLoop
PROPERTY LoopEnds
CHECK_DEADLOCK FALSE
