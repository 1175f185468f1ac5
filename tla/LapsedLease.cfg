\* One lapsed lease, one renewal in flight.
CONSTANTS
  Tasks = {t1}
  Workers = {w1}
  Assignments = {a1}
  Callers = {c1}
  SeedStates = {"queued"}
  TaskMoves <- MCTaskMoves
  AdminMoves <- MCAdminMoves
SPECIFICATION Spec
PROPERTY LapsedStaysLapsed
CHECK_DEADLOCK FALSE
