\* The queue and the pool of MCParallelExecution.cfg; one thing goes wrong.
SPECIFICATION Spec

CONSTANTS
  Tasks <- MCTasks
  Names <- MCNames
  Resources <- MCResources
  Normal <- MCNormal
  Declares <- MCDeclares
  Items <- MCItems
  MaxExecs = 2
  MaxMishaps = 1

PROPERTY LandedStays
CHECK_DEADLOCK FALSE
