SPECIFICATION PlanSpec

CONSTANTS
  Tasks <- MCTasks
  Texts <- MCTexts
  FirstText <- MCFirstText
  PlanWords <- MCPlanWords
  Declared <- MCDeclared
  Threads <- MCThreads
  a = a
  b = b
  MaxPreviews = 2
  MaxTokens = 1
  MaxChanges = 2

INVARIANT PlannedAsItWas
INVARIANT WrittenOnce
CONSTRAINT NoThirdPlan
SYMMETRY MCSymmetry
CHECK_DEADLOCK FALSE
