SPECIFICATION Spec

CONSTANTS
  Tasks <- MCTasks
  Projects <- MCProjects
  ProjectOf <- MCProjectOf
  HighRisk <- MCHighRisk
  Scopes <- MCScopes
  Title <- MCTitle
  DependsOn <- MCDependsOn
  Zone = "behind"
  MaxApprovals = 1
  MaxRuns = 2
  MaxTasksPerRun = 2
  MaxFailures = 1
  MaxSolo = 0
  MaxDisturbances = 1

INVARIANT RunTypeOK
INVARIANT OneLoopPerProject
INVARIANT BudgetHeld
INVARIANT LeaseOnlyWhileWorked
INVARIANT ExecutionIsApproved
CHECK_DEADLOCK FALSE
