SPECIFICATION Spec

CONSTANTS
  Tasks <- MCTasks
  Names <- MCNames
  Resources <- MCResources
  Normal <- MCNormal
  Declares <- MCDeclares
  Items <- MCItems
  MaxExecs = 2
  MaxMishaps = 1

INVARIANT ParallelTypeOK
INVARIANT WorkersApart
INVARIANT ExecutedOnce
INVARIANT UndoneAlone
INVARIANT OnlyTestedLands
CONSTRAINT FirstOfTwins
CHECK_DEADLOCK FALSE
PROPERTY ImplementsLocks
PROPERTY MergeEnds
